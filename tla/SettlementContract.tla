------------------------- MODULE SettlementContract -------------------------
(***************************************************************************)
(* What the settlement pipeline promises about the committed events of one *)
(* partition, whatever its batches, workers and channels do: every event   *)
(* takes effect or is recorded at most once, the rest of a hold is         *)
(* released only over settled trades, and clients see the settled trades   *)
(* in the order of the engine, all of them before the pipeline returns.    *)
(* SettlementDispatcher implements it.                                     *)
(***************************************************************************)
EXTENDS Naturals, Sequences

CONSTANT Events   \* the committed events, records with a kind and the orders touched

Ids == 1 .. Len(Events)
IsTrade(i) == Events[i].kind = "TRADE"
EarlierTrades(i) ==
    {j \in Ids : j < i /\ IsTrade(j) /\ Events[j].orders \cap Events[i].orders # {}}

VARIABLES
    status,       \* per event
    broadcasts,   \* the trades shown to the clients, in order
    returned      \* the dispatcher has returned

vars == <<status, broadcasts, returned>>

Seen == {broadcasts[n] : n \in DOMAIN broadcasts}

Become(S, value) == status' = [i \in Ids |-> IF i \in S THEN value ELSE status[i]]

Pending(i) == status[i] = "PENDING"

Init ==
    /\ status = [i \in Ids |-> "PENDING"]
    /\ broadcasts = << >>
    /\ returned = FALSE

\* Trades are settled in one transaction.
Settle(S) ==
    /\ ~returned
    /\ \A i \in S : IsTrade(i) /\ Pending(i)
    /\ Become(S, "SETTLED")
    /\ UNCHANGED <<broadcasts, returned>>

\* Trades are recorded as failed settlements in one transaction.
Fail(S) ==
    /\ ~returned
    /\ \A i \in S : IsTrade(i) /\ Pending(i)
    /\ Become(S, "FAILED")
    /\ UNCHANGED <<broadcasts, returned>>

\* The rest of an order's hold is released.
Execute(i) ==
    /\ ~returned /\ ~IsTrade(i) /\ Pending(i)
    /\ \A j \in EarlierTrades(i) : status[j] = "SETTLED"
    /\ Become({i}, "EXECUTED")
    /\ UNCHANGED <<broadcasts, returned>>

\* A terminal event is recorded for the retry worker.
Defer(i) ==
    /\ ~returned /\ ~IsTrade(i) /\ Pending(i)
    /\ Become({i}, "DEFERRED")
    /\ UNCHANGED <<broadcasts, returned>>

\* Settled trades are shown to the clients, each behind every earlier one.
Broadcast(s) ==
    /\ ~returned
    /\ \A n \in DOMAIN s : status[s[n]] = "SETTLED"
    /\ \A n \in DOMAIN s : \A i \in Seen : i < s[n]
    /\ \A m, n \in DOMAIN s : m < n => s[m] < s[n]
    /\ broadcasts' = broadcasts \o s
    /\ UNCHANGED <<status, returned>>

Return ==
    /\ ~returned
    /\ \A i \in Ids : status[i] = "SETTLED" => i \in Seen
    /\ returned' = TRUE
    /\ UNCHANGED <<status, broadcasts>>

Next ==
    \/ \E S \in SUBSET Ids : Settle(S) \/ Fail(S)
    \/ \E i \in Ids : Execute(i) \/ Defer(i)
    \/ \E k \in Ids : \E s \in [1 .. k -> Ids] : Broadcast(s)
    \/ Return

Spec == Init /\ [][Next]_vars

-----------------------------------------------------------------------------
(* What follows from the contract for whoever relies on the pipeline.      *)

\* The rest of an order's hold is released over settled trades only, whenever
\* one looks: a settled trade stays settled.
ReleasedOverSettled ==
    \A i \in Ids :
        status[i] = "EXECUTED" => \A j \in EarlierTrades(i) : status[j] = "SETTLED"

\* The clients see each settled trade at most once, in the order of the engine,
\* and nothing that is not settled (flushBroadcasts).
FeedInOrder ==
    /\ \A n \in DOMAIN broadcasts : status[broadcasts[n]] = "SETTLED"
    /\ \A m, n \in DOMAIN broadcasts : m < n => broadcasts[m] < broadcasts[n]

\* When the dispatcher has returned, every settled trade has been shown.
FeedComplete ==
    returned => \A i \in Ids : status[i] = "SETTLED" => i \in Seen
=============================================================================
