----------------------------- MODULE Transfers -----------------------------
(***************************************************************************)
(* Deposits and withdrawals through an external processor                  *)
(* (src/internal/service/transfer_service.go, transfer_status_poller.go,   *)
(* src/internal/repository/transfer_repository.go, the callback handler,   *)
(* and the processor main.go wires, fake_transfer_processor.go).           *)
(* A request is a row of transfer_requests with one (user, client key);    *)
(* one user and one asset are enough, so a row is named by its key. The    *)
(* HTTP handlers and the poller submit and check requests from snapshots   *)
(* they read earlier; a result may reach a row by a poll and by any number *)
(* of callbacks, in any order. Transactions that lock the row are single   *)
(* steps; between two of them anything may happen, a crash included.       *)
(*                                                                         *)
(* The fee of a withdrawal is zero, as the code sets it. The wired         *)
(* processor accepts everything and never decides anything: results come   *)
(* from callbacks. Any other implementation of ExternalTransferProcessor   *)
(* may also fail, and may answer a poll with anything.                     *)
(***************************************************************************)
EXTENDS Ledger

CONSTANTS
    Keys,        \* the client request keys
    Calls,       \* the HTTP requests: records [id, key, direction, amount]
    Funds,       \* the available balance of the user at the start
    Processors,  \* which of "fake" and "other" may be wired
    MaxFailures, \* how often Submit may fail per request
    LatePoll,    \* the poll by which a request is more than 30 minutes old; no
                 \* more of them are modelled
    MaxMishaps   \* how many crashes and database errors there may be

ASSUME TransfersAssumption ==
    /\ \A c \in Calls : /\ c.key \in Keys /\ c.direction \in {"DEPOSIT", "WITHDRAWAL"}
                        /\ c.amount \in Nat \ {0}
    /\ Processors \subseteq {"fake", "other"}
    /\ Funds \in Nat \ {0} /\ MaxFailures \in Nat /\ MaxMishaps \in Nat
    /\ LatePoll \in Nat \ {0}

VARIABLES
    \* In the database.
    transfers,  \* transfer_requests, by key
    events,     \* transfer_status_events: [key, transfer, outcome]
    ledger,
    \* In memory.
    agent,      \* what each HTTP request and the poller is doing
    requests,   \* the snapshots the poller has still to look at
    outcomeByRef, \* the results the fake processor has stored, "" for none
    mishaps,
    processor   \* the implementation that is wired; never changes

dbVars == <<transfers, events, ledger>>
processorVars == <<outcomeByRef, processor>>
vars == <<dbVars, agent, requests, mishaps, processorVars>>

User == "user"
Asset == "KRW"
Poller == [id |-> "poller"]

NoTransfer == [status |-> "NONE"]
Exists(k) == transfers[k] # NoTransfer
Terminal(status) == status \in {"COMPLETED", "FAILED"}
Idle == [pc |-> "idle", key |-> "", attempts |-> 0, outcome |-> ""]

\* check stands for next_check_at: TRUE while the row has a next check, which may
\* come due at any moment. review is the reason for which an operator is called, ""
\* for none, "POLL" for the three reasons a poll may have.
Transfer(c) == [status |-> "RECEIVED", direction |-> c.direction, amount |-> c.amount,
                ref |-> FALSE, attempts |-> 0, check |-> TRUE, review |-> ""]

-----------------------------------------------------------------------------
(* Journals of a transfer.                                                 *)

HoldJournal(k, amount) ==
    Journal("WITHDRAWAL", <<"withdraw-hold", k>>, k,
            << Posting("USER_AVAILABLE", User, Asset, -amount),
               Posting("USER_LOCKED", User, Asset, amount) >>)

\* The journal that settles, refunds or pays in a transfer; a deposit that
\* failed has none.
confirmationJournals(k, t, outcome) ==
    CASE t.direction = "DEPOSIT" /\ outcome = "SUCCESS" ->
            {Journal("DEPOSIT", <<"deposit-settle", k>>, k,
                     << Posting("EXTERNAL_BANK", NoOwner, Asset, -t.amount),
                        Posting("USER_AVAILABLE", User, Asset, t.amount) >>)}
      [] t.direction = "DEPOSIT" /\ outcome = "FAILURE" -> {}
      [] t.direction = "WITHDRAWAL" /\ outcome = "SUCCESS" ->
            {Journal("WITHDRAWAL", <<"withdraw-settle", k>>, k,
                     << Posting("USER_LOCKED", User, Asset, -t.amount),
                        Posting("EXTERNAL_BANK", NoOwner, Asset, t.amount) >>)}
      [] t.direction = "WITHDRAWAL" /\ outcome = "FAILURE" ->
            {Journal("WITHDRAWAL", <<"withdraw-refund", k>>, k,
                     << Posting("USER_LOCKED", User, Asset, -t.amount),
                        Posting("USER_AVAILABLE", User, Asset, t.amount) >>)}

-----------------------------------------------------------------------------
(* Accepting a request.                                                    *)

sameTransferBody(t, c) == t.direction = c.direction /\ t.amount = c.amount

\* dispatchAndReload starts from the row the transaction inserted or found; it
\* submits nothing when that row has left RECEIVED.
StartDispatch(c, t) ==
    agent' = [agent EXCEPT ![c] = IF t.status = "RECEIVED"
                                  THEN [Idle EXCEPT !.pc = "submit", !.key = c.key]
                                  ELSE [Idle EXCEPT !.pc = "done"]]

Refuse(c) ==
    /\ agent' = [agent EXCEPT ![c].pc = "done"]
    /\ UNCHANGED <<transfers, ledger>>

RequestDeposit(c) ==
    /\ c.direction = "DEPOSIT"
    /\ agent[c].pc = "idle"
    /\ IF ~ Exists(c.key)
       THEN /\ transfers' = [transfers EXCEPT ![c.key] = Transfer(c)]
            /\ StartDispatch(c, Transfer(c))
            /\ UNCHANGED ledger
       ELSE IF sameTransferBody(transfers[c.key], c)
       THEN StartDispatch(c, transfers[c.key]) /\ UNCHANGED <<transfers, ledger>>
       ELSE Refuse(c)
    /\ UNCHANGED <<events, requests, mishaps, processorVars>>

\* Mutant: the hold is taken before the key is claimed.
RequestWithdrawalHoldFirst(c) ==
    /\ c.direction = "WITHDRAWAL"
    /\ agent[c].pc = "idle"
    /\ LET hold == [HoldJournal(c.key, c.amount) EXCEPT !.key = <<"withdraw-hold", c.key, c.id>>]
       IN  IF ~ Recordable(ledger, hold) THEN Refuse(c)
           ELSE /\ ledger' = Record(ledger, hold)
                /\ IF Exists(c.key)
                   THEN StartDispatch(c, transfers[c.key]) /\ UNCHANGED transfers
                   ELSE /\ transfers' = [transfers EXCEPT ![c.key] = Transfer(c)]
                        /\ StartDispatch(c, Transfer(c))
    /\ UNCHANGED <<events, requests, mishaps, processorVars>>

\* The row and the hold are inserted in one transaction; without the balance
\* for the hold neither is.
RequestWithdrawal(c) ==
    /\ c.direction = "WITHDRAWAL"
    /\ agent[c].pc = "idle"
    /\ LET hold == HoldJournal(c.key, c.amount)
       IN  IF ~ Exists(c.key)
           THEN IF Recordable(ledger, hold)
                THEN /\ transfers' = [transfers EXCEPT ![c.key] = Transfer(c)]
                     /\ ledger' = Record(ledger, hold)
                     /\ StartDispatch(c, Transfer(c))
                ELSE Refuse(c)
           ELSE IF sameTransferBody(transfers[c.key], c)
           THEN StartDispatch(c, transfers[c.key]) /\ UNCHANGED <<transfers, ledger>>
           ELSE Refuse(c)
    /\ UNCHANGED <<events, requests, mishaps, processorVars>>

-----------------------------------------------------------------------------
(* Dispatch, by an HTTP handler or by the poller.                          *)

Finish(a) == agent' = [agent EXCEPT ![a] = IF a = Poller THEN Idle
                                           ELSE [Idle EXCEPT !.pc = "done"]]

\* The processor takes the transfer. The fake one remembers it as PENDING unless
\* it knows the reference, which is a function of the request.
Submit(a) ==
    /\ agent[a].pc = "submit"
    /\ outcomeByRef' = [outcomeByRef EXCEPT ![agent[a].key] =
                            IF processor = "fake" /\ @ = "" THEN "PENDING" ELSE @]
    /\ agent' = [agent EXCEPT ![a].pc = "dispatch"]
    /\ UNCHANGED <<dbVars, requests, mishaps, processor>>

\* Submit returns an error, which the fake processor never does.
SubmitFails(a) ==
    /\ processor = "other"
    /\ agent[a].pc = "submit"
    /\ transfers[agent[a].key].attempts < MaxFailures
    /\ agent' = [agent EXCEPT ![a].pc = "dispatchFailed"]
    /\ UNCHANGED <<dbVars, requests, mishaps, processorVars>>

\* Mutant: the status is updated without the reference of the processor.
SetDispatchedStatusOnly(a) ==
    /\ agent[a].pc = "dispatch"
    /\ LET k == agent[a].key
       IN  transfers' = IF transfers[k].status = "RECEIVED"
                        THEN [transfers EXCEPT ![k].status = "PROCESSING",
                                               ![k].attempts = 0, ![k].check = TRUE]
                        ELSE transfers
    /\ Finish(a)
    /\ UNCHANGED <<events, ledger, requests, mishaps, processorVars>>

\* The update is for a row in RECEIVED only: another dispatch may have won.
SetDispatched(a) ==
    /\ agent[a].pc = "dispatch"
    /\ LET k == agent[a].key
       IN  transfers' = IF transfers[k].status = "RECEIVED"
                        THEN [transfers EXCEPT ![k].status = "PROCESSING", ![k].ref = TRUE,
                                               ![k].attempts = 0, ![k].check = TRUE]
                        ELSE transfers
    /\ Finish(a)
    /\ UNCHANGED <<events, ledger, requests, mishaps, processorVars>>

HandleDispatchFailure(a) ==
    /\ agent[a].pc = "dispatchFailed"
    /\ LET k == agent[a].key
       IN  transfers' = IF transfers[k].status = "RECEIVED"
                        THEN [transfers EXCEPT ![k].attempts = @ + 1, ![k].check = TRUE]
                        ELSE transfers
    /\ Finish(a)
    /\ UNCHANGED <<events, ledger, requests, mishaps, processorVars>>

-----------------------------------------------------------------------------
(* Results.                                                                *)

Seen(eventKey) == \E e \in events : e.key = eventKey

InsertEvent(k, eventKey, outcome) ==
    events' = events \cup {[key |-> eventKey, transfer |-> k, outcome |-> outcome]}

\* Mutant: whatever comes after the final result repeats it.
matchesTerminalOutcomeAlways(status, outcome) == TRUE

matchesTerminalOutcome(status, outcome) ==
    \/ status = "COMPLETED" /\ outcome = "SUCCESS"
    \/ status = "FAILED" /\ outcome = "FAILURE"

\* Journal and status change together. An error in the journal rolls back the
\* whole transaction, its event included.
confirmTerminal(k, eventKey, outcome) ==
    LET journals == confirmationJournals(k, transfers[k], outcome)
    IN  IF \A j \in journals : Recordable(ledger, j)
        THEN /\ ledger' = FoldSet(LAMBDA j, l : Record(l, j), ledger, journals)
             /\ transfers' = [transfers EXCEPT
                    ![k].status = IF outcome = "SUCCESS" THEN "COMPLETED" ELSE "FAILED",
                    ![k].review = "", ![k].check = FALSE]
             /\ InsertEvent(k, eventKey, outcome)
        ELSE UNCHANGED dbVars

Flag(k, eventKey, outcome, reason) ==
    /\ transfers' = [transfers EXCEPT ![k].review = reason]
    /\ InsertEvent(k, eventKey, outcome)
    /\ UNCHANGED ledger

\* A final result. The first one moves the money; a contrary one calls for an
\* operator.
ResolveTransfer(k, eventKey, outcome) ==
    LET status == transfers[k].status
    IN  IF Seen(eventKey) THEN UNCHANGED dbVars
        ELSE IF status = "RECEIVED"
        THEN Flag(k, eventKey, outcome, "TERMINAL_BEFORE_DISPATCH")
        ELSE IF status = "PROCESSING"
        THEN confirmTerminal(k, eventKey, outcome)
        ELSE IF matchesTerminalOutcome(status, outcome)
        THEN InsertEvent(k, eventKey, outcome) /\ UNCHANGED <<transfers, ledger>>
        ELSE Flag(k, eventKey, outcome, "CONFLICTING_TERMINAL_OUTCOME")

\* An unknown outcome is flagged at once, anything else when the request is more
\* than 30 minutes old: the waits double, so that it is by some poll at the
\* latest, and after long downtimes or failed submissions by an earlier one.
reviewReasonForPollFailure(k, outcome) ==
    IF outcome = "UNKNOWN" \/ transfers[k].attempts + 1 >= LatePoll THEN {"POLL"}
    ELSE {"", "POLL"}

\* Mutant: the schedule moves on but the number of the poll does not.
advancePollScheduleOnly(k, outcome) ==
    \E reason \in reviewReasonForPollFailure(k, outcome) :
        transfers' = [transfers EXCEPT ![k].check = TRUE,
                                       ![k].review = IF reason = "" THEN @ ELSE reason]

\* A flag is set here, never cleared.
advancePollSchedule(k, outcome) ==
    \E reason \in reviewReasonForPollFailure(k, outcome) :
        transfers' = [transfers EXCEPT ![k].attempts = @ + 1, ![k].check = TRUE,
                                       ![k].review = IF reason = "" THEN @ ELSE reason]

\* No final result yet. The status is that of the row now, not of the snapshot.
RecordObservation(k, eventKey, outcome) ==
    LET status == transfers[k].status
    IN  IF Seen(eventKey) \/ status = "RECEIVED" THEN UNCHANGED dbVars
        ELSE /\ IF status = "PROCESSING" THEN advancePollSchedule(k, outcome)
                ELSE UNCHANGED transfers
             /\ InsertEvent(k, eventKey, outcome)
             /\ UNCHANGED ledger

HandleStatusCheckFailure(k) ==
    /\ IF transfers[k].status = "PROCESSING" THEN advancePollSchedule(k, "ERROR")
       ELSE UNCHANGED transfers
    /\ UNCHANGED <<events, ledger>>

-----------------------------------------------------------------------------
(* The poller.                                                             *)

PollerIdle == agent[Poller].pc = "idle"

DueForCheck == {k \in Keys : /\ transfers[k].status \in {"RECEIVED", "PROCESSING"}
                             /\ transfers[k].check}

\* The bound on the polls of one request.
Polled == {k \in DueForCheck : transfers[k].status = "RECEIVED" \/ transfers[k].attempts < LatePoll}

RunOnce ==
    /\ PollerIdle
    /\ requests = {} /\ Polled # {}
    /\ requests' = {[key |-> k, status |-> transfers[k].status,
                     attempts |-> transfers[k].attempts] : k \in Polled}
    /\ UNCHANGED <<dbVars, agent, mishaps, processorVars>>

Poll(request, pc, outcome) ==
    /\ PollerIdle
    /\ request \in requests
    /\ requests' = requests \ {request}
    /\ agent' = [agent EXCEPT ![Poller] = [pc |-> pc, key |-> request.key, outcome |-> outcome,
                                           attempts |-> request.attempts]]
    /\ UNCHANGED <<dbVars, mishaps, processorVars>>

PollReceived(request) == request.status = "RECEIVED" /\ Poll(request, "submit", "")

\* The fake processor answers what it has stored, and PENDING for a reference it
\* does not know; only tests make it store anything else.
GetTransferStatus(k) ==
    IF processor = "fake" THEN {IF outcomeByRef[k] = "" THEN "PENDING" ELSE outcomeByRef[k]}
    ELSE {"SUCCESS", "FAILURE", "PENDING", "UNKNOWN", "ERROR"}

checkStatus(request) ==
    /\ request.status = "PROCESSING"
    /\ \E answer \in GetTransferStatus(request.key) : Poll(request, "checked", answer)

\* What the poller does with the answer. The poll is numbered by the snapshot.
HandleAnswer ==
    /\ agent[Poller].pc = "checked"
    /\ LET k == agent[Poller].key
           outcome == agent[Poller].outcome
           eventKey == <<"poll", k, agent[Poller].attempts + 1>>
       IN  CASE outcome = "ERROR" -> HandleStatusCheckFailure(k)
             [] outcome \in {"SUCCESS", "FAILURE"} -> ResolveTransfer(k, eventKey, outcome)
             [] OTHER -> RecordObservation(k, eventKey, outcome)
    /\ Finish(Poller)
    /\ UNCHANGED <<requests, mishaps, processorVars>>

-----------------------------------------------------------------------------
(* Callbacks and failures.                                                 *)

EventIDs == {1, 2}

\* A notification for a reference that is not stored yet is answered 404. It may
\* come at any time or never, more than once, and contradict another; the key of
\* its event has the id the sender gave it and not the transfer.
ReceiveCallback(k) ==
    /\ Exists(k) /\ transfers[k].ref
    /\ \E id \in EventIDs, outcome \in {"SUCCESS", "FAILURE"} :
           ResolveTransfer(k, <<"callback", id>>, outcome)
    /\ UNCHANGED <<agent, requests, mishaps, processorVars>>

\* A transaction fails and changes nothing; its caller only logs it.
DatabaseError(a) ==
    /\ agent[a].pc \in {"dispatch", "dispatchFailed", "checked"}
    /\ mishaps < MaxMishaps
    /\ mishaps' = mishaps + 1
    /\ Finish(a)
    /\ UNCHANGED <<dbVars, requests, processorVars>>

\* The process restarts; its clients see their requests fail, and the fake
\* processor has forgotten everything.
Crash ==
    /\ mishaps < MaxMishaps
    /\ mishaps' = mishaps + 1
    /\ agent' = [a \in DOMAIN agent |-> IF a = Poller \/ agent[a].pc = "idle" THEN Idle
                                        ELSE [Idle EXCEPT !.pc = "done"]]
    /\ requests' = {}
    /\ outcomeByRef' = [k \in Keys |-> ""]
    /\ UNCHANGED <<dbVars, processor>>

-----------------------------------------------------------------------------

Init ==
    /\ transfers = [k \in Keys |-> NoTransfer]
    /\ events = {}
    /\ ledger = FundWallet(EmptyLedger, User, Asset, Funds, "initial")
    /\ agent = [a \in Calls \cup {Poller} |-> Idle]
    /\ requests = {} /\ mishaps = 0
    /\ outcomeByRef = [k \in Keys |-> ""] /\ processor \in Processors

PollerNext ==
    \/ RunOnce
    \/ \E request \in requests : PollReceived(request) \/ checkStatus(request)
    \/ Submit(Poller) \/ SubmitFails(Poller)
    \/ SetDispatched(Poller) \/ HandleDispatchFailure(Poller)
    \/ HandleAnswer

Next ==
    \/ \E c \in Calls : RequestDeposit(c) \/ RequestWithdrawal(c)
    \/ \E c \in Calls : Submit(c) \/ SubmitFails(c) \/ SetDispatched(c) \/ HandleDispatchFailure(c)
    \/ PollerNext
    \/ \E k \in Keys : ReceiveCallback(k)
    \/ \E a \in DOMAIN agent : DatabaseError(a)
    \/ Crash

\* The poller is a loop on a ticker. Neither the handlers nor the notifications
\* are relied upon, and nothing is assumed of the answers of the processor.
Spec == Init /\ [][Next]_vars /\ WF_vars(PollerNext)

-----------------------------------------------------------------------------
(* Properties.                                                             *)

\* The types, and a row has the reference of the processor exactly when it has
\* been dispatched.
TypeOK ==
    /\ \A k \in Keys : Exists(k) =>
        /\ transfers[k].status \in {"RECEIVED", "PROCESSING", "COMPLETED", "FAILED"}
        /\ transfers[k].ref = (transfers[k].status # "RECEIVED")
        /\ transfers[k].attempts \in Nat
        /\ transfers[k].check \in BOOLEAN
    /\ \A e \in events : e.transfer \in Keys
                         /\ e.outcome \in {"SUCCESS", "FAILURE", "PENDING", "UNKNOWN"}
    /\ \A a \in DOMAIN agent :
        agent[a].pc \in {"idle", "submit", "dispatch", "dispatchFailed", "checked", "done"}
    /\ mishaps \in 0 .. MaxMishaps /\ processor \in Processors
    /\ outcomeByRef \in [Keys -> {"", "PENDING"}]

Outcome(status) == IF status = "COMPLETED" THEN "SUCCESS" ELSE "FAILURE"
Opposite(outcome) == IF outcome = "SUCCESS" THEN "FAILURE" ELSE "SUCCESS"

JournalsOf(k, t) ==
    (IF t.direction = "WITHDRAWAL" THEN {HoldJournal(k, t.amount)} ELSE {})
      \cup (IF Terminal(t.status) THEN confirmationJournals(k, t, Outcome(t.status)) ELSE {})

\* The money says what the statuses say: the ledger holds exactly the journals
\* that the rows of transfer_requests stand for, each once, however often a
\* client retried RequestWithdrawal, and however many polls and callbacks told
\* ResolveTransfer the result; and the reconciliation worker has nothing to
\* report.
MoneyFollowsStatus ==
    /\ ledger.journals = FundWallet(EmptyLedger, User, Asset, Funds, "initial").journals
                           \cup UNION {JournalsOf(k, transfers[k]) : k \in {j \in Keys : Exists(j)}}
    /\ Reconciled(ledger)

\* A final status is never questioned in silence nor polled again: a terminal
\* row is flagged CONFLICTING_TERMINAL_OUTCOME exactly when a contrary result
\* has been recorded for it, bears no other flag, and RecordObservation and
\* HandleStatusCheckFailure, coming late, do not revive its schedule.
FinalResults ==
    \A k \in Keys : Terminal(transfers[k].status) =>
        /\ ~ transfers[k].check
        /\ LET contrary == \E e \in events : /\ e.transfer = k
                                             /\ e.outcome = Opposite(Outcome(transfers[k].status))
           IN  transfers[k].review = IF contrary THEN "CONFLICTING_TERMINAL_OUTCOME" ELSE ""

\* A transfer that RequestDeposit or RequestWithdrawal accepted is not forgotten:
\* in the end it is decided or an operator is called for it, by the poller alone
\* if need be, after a crash or an error between any two steps, without any
\* callback, and also when the processor never decides it, as the wired one never
\* does (otherwise a withdrawal stays locked "without anyone knowing",
\* transfer_status_poller.go:73-76). It takes that Submit gets through sooner or
\* later: a request that stays RECEIVED is never flagged.
TransfersAttended ==
    \A k \in Keys :
        Exists(k) ~> Exists(k) /\ (Terminal(transfers[k].status) \/ transfers[k].review # "")
=============================================================================
