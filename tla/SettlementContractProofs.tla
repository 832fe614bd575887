---------------------- MODULE SettlementContractProofs ----------------------
(***************************************************************************)
(* What the settlement contract gives whoever relies on the pipeline, for  *)
(* every sequence of events. SettlementDispatcher implements the contract, *)
(* so the same holds of the dispatcher and its workers.                    *)
(***************************************************************************)
EXTENDS SettlementContract, TLAPS, SequenceTheorems

Status == {"PENDING", "SETTLED", "FAILED", "EXECUTED", "DEFERRED"}

Types == status \in [Ids -> Status] /\ broadcasts \in Seq(Ids)

IndInv == Types /\ ReleasedOverSettled /\ FeedInOrder /\ FeedComplete

\* Only the status of pending events changes.
PendingBecome ==
    \A i \in Ids : status[i] # "PENDING" => status'[i] = status[i]

\* A step that leaves the feed alone and changes only pending events keeps the
\* invariant, when what it releases is behind settled trades.
LEMMA StatusStep ==
    ASSUME IndInv, ~returned, status' \in [Ids -> Status], PendingBecome,
           UNCHANGED <<broadcasts, returned>>,
           \A i \in Ids : status'[i] = "EXECUTED" /\ status[i] # "EXECUTED" =>
               \A j \in EarlierTrades(i) : status[j] = "SETTLED"
    PROVE  IndInv'
<1>1. Types'  BY DEF IndInv, Types
<1>2. ReleasedOverSettled'
  BY DEF IndInv, ReleasedOverSettled, PendingBecome, EarlierTrades
<1>3. FeedInOrder'
  <2>1. \A n \in DOMAIN broadcasts : broadcasts[n] \in Ids
    BY ElementOfSeq, LenProperties DEF IndInv, Types
  <2> QED  BY <2>1 DEF IndInv, FeedInOrder, PendingBecome
<1>4. FeedComplete'  BY DEF FeedComplete
<1> QED  BY <1>1, <1>2, <1>3, <1>4 DEF IndInv

\* The feed grows by settled trades behind all it has.
LEMMA BroadcastStep ==
    ASSUME IndInv, NEW k \in Ids, NEW s \in [1 .. k -> Ids], Broadcast(s)
    PROVE  IndInv'
<1> DEFINE longer == broadcasts \o s
<1>1. k \in Nat  BY DEF Ids
<1>2. s \in Seq(Ids) /\ Len(s) = k /\ DOMAIN s = 1 .. k
  BY <1>1
<1>3. /\ broadcasts \in Seq(Ids) /\ Len(broadcasts) \in Nat
      /\ DOMAIN broadcasts = 1 .. Len(broadcasts)
  BY LenProperties DEF IndInv, Types
<1>4. /\ longer \in Seq(Ids) /\ DOMAIN longer = 1 .. Len(broadcasts) + k
      /\ \A n \in 1 .. Len(broadcasts) + k :
            longer[n] = IF n <= Len(broadcasts) THEN broadcasts[n] ELSE s[n - Len(broadcasts)]
  BY <1>1, <1>2, <1>3, ConcatProperties, LenProperties
<1>5. broadcasts' = longer /\ UNCHANGED <<status, returned>> /\ ~returned
  BY DEF Broadcast
<1> HIDE DEF longer
<1>6. \A n \in DOMAIN longer :
          \/ n \in DOMAIN broadcasts /\ longer[n] = broadcasts[n]
          \/ n > Len(broadcasts) /\ n - Len(broadcasts) \in DOMAIN s
             /\ longer[n] = s[n - Len(broadcasts)]
  BY <1>1, <1>2, <1>3, <1>4
<1>7. FeedInOrder'
  <2>1. \A n \in DOMAIN longer : status[longer[n]] = "SETTLED"
    BY <1>6 DEF Broadcast, IndInv, FeedInOrder
  <2>2. ASSUME NEW m \in DOMAIN longer, NEW n \in DOMAIN longer, m < n
        PROVE  longer[m] < longer[n]
    <3>1. CASE n \in DOMAIN broadcasts /\ longer[n] = broadcasts[n]
      BY <1>3, <1>4, <1>6, <2>2, <3>1 DEF IndInv, FeedInOrder
    <3>2. CASE /\ n > Len(broadcasts) /\ n - Len(broadcasts) \in DOMAIN s
               /\ longer[n] = s[n - Len(broadcasts)]
      <4>1. CASE m \in DOMAIN broadcasts /\ longer[m] = broadcasts[m]
        BY <3>2, <4>1 DEF Broadcast, Seen
      <4>2. CASE /\ m > Len(broadcasts) /\ m - Len(broadcasts) \in DOMAIN s
                 /\ longer[m] = s[m - Len(broadcasts)]
        <5>1. m - Len(broadcasts) < n - Len(broadcasts)
          BY <1>1, <1>3, <1>4, <2>2
        <5> QED  BY <3>2, <4>2, <5>1 DEF Broadcast
      <4> QED  BY <1>6, <4>1, <4>2
    <3> QED  BY <1>6, <3>1, <3>2
  <2> QED  BY <1>5, <2>1, <2>2 DEF FeedInOrder
<1> QED
  BY <1>4, <1>5, <1>7 DEF IndInv, Types, ReleasedOverSettled, FeedComplete, EarlierTrades

\* The contract's invariant: the three promises, together.
THEOREM ContractInvariant == Spec => []IndInv
<1>1. Init => IndInv
  BY DEF Init, IndInv, Types, Status, ReleasedOverSettled, FeedInOrder, FeedComplete
<1>2. IndInv /\ [Next]_vars => IndInv'
  <2> SUFFICES ASSUME IndInv, [Next]_vars  PROVE IndInv'
    OBVIOUS
  <2>1. ASSUME NEW S \in SUBSET Ids, Settle(S) \/ Fail(S)  PROVE IndInv'
    <3>1. /\ ~returned /\ UNCHANGED <<broadcasts, returned>> /\ PendingBecome
          /\ status' \in [Ids -> Status]
          /\ \A i \in Ids : status'[i] = "EXECUTED" => status[i] = "EXECUTED"
      BY <2>1 DEF Settle, Fail, Become, Pending, PendingBecome, IndInv, Types, Status
    <3> QED  BY <3>1, StatusStep
  <2>2. ASSUME NEW e \in Ids, Execute(e) \/ Defer(e)  PROVE IndInv'
    <3>1. /\ ~returned /\ UNCHANGED <<broadcasts, returned>> /\ PendingBecome
          /\ status' \in [Ids -> Status]
      BY <2>2 DEF Execute, Defer, Become, Pending, PendingBecome, IndInv, Types, Status
    <3>2. \A i \in Ids : status'[i] = "EXECUTED" /\ status[i] # "EXECUTED" =>
              \A j \in EarlierTrades(i) : status[j] = "SETTLED"
      BY <2>2 DEF Execute, Defer, Become
    <3> QED  BY <3>1, <3>2, StatusStep
  <2>3. ASSUME NEW k \in Ids, NEW s \in [1 .. k -> Ids], Broadcast(s)  PROVE IndInv'
    BY <2>3, BroadcastStep
  <2>4. CASE Return
    BY <2>4 DEF Return, IndInv, Types, ReleasedOverSettled, FeedInOrder, FeedComplete,
                Seen, EarlierTrades
  <2>5. CASE UNCHANGED vars
    BY <2>5 DEF vars, IndInv, Types, ReleasedOverSettled, FeedInOrder, FeedComplete,
                Seen, EarlierTrades
  <2> QED  BY <2>1, <2>2, <2>3, <2>4, <2>5 DEF Next
<1> QED  BY <1>1, <1>2, PTL DEF Spec

\* A pipeline that keeps the contract never releases the rest of a hold over a
\* trade that is not settled, shows settled trades once and in the order of the
\* engine, and has shown all of them when the dispatcher returns.
THEOREM ContractPromises ==
    Spec => [](ReleasedOverSettled /\ FeedInOrder /\ FeedComplete)
<1>1. IndInv => ReleasedOverSettled /\ FeedInOrder /\ FeedComplete
  BY DEF IndInv
<1> QED  BY ContractInvariant, <1>1, PTL
=============================================================================
