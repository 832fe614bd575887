---------------------- MODULE SettlementRecoveryProofs ----------------------
(***************************************************************************)
(* That settlement applies every committed trade exactly once and loses no *)
(* committed event, and that the hold of an order is what is left of it,   *)
(* for every set of orders, every fault and any number of crashes.         *)
(***************************************************************************)
EXTENDS SettlementRecovery, MinimumLemmas, SequenceTheorems, FiniteSetTheorems

Event == [kind : {"TRADE", "DONE", "CANCEL"}, orders : (SUBSET Orders) \ {{}}, filled : Int]
Row == [kind : {"TRADE", "DONE", "CANCEL"}, orders : (SUBSET Orders) \ {{}}, filled : Int,
        status : {"PENDING", "PROCESSED"}]
Status == {"NONE", "OPEN", "RESOLVED"}
SettlementRecord == [status : Status, retries : Nat, transient : BOOLEAN, at : Nat]
TerminalRecord == [status : Status, retries : Nat, filled : Int, at : Nat]

Types ==
    /\ outbox \in Seq(Row) /\ execution \in Seq(Event)
    /\ settled \subseteq {i \in Rows : IsTrade(i)}
    /\ filled \in [Orders -> Nat]
    /\ hold \in [Orders -> Int] /\ book \in [Orders -> Int]
    /\ orderStatus \in [Orders -> {"OPEN", "FILLED", "CANCELLED"}]
    /\ failedSettlements \in [Rows -> SettlementRecord]
    /\ failedTerminals \in [Orders -> TerminalRecord]
    /\ pipeline \subseteq Rows

\* A failure record of a trade is resolved only when the trade is settled, that
\* of a terminal event only when its order is closed.
Resolved ==
    /\ \A i \in Rows : /\ failedSettlements[i].status # "NONE" => IsTrade(i)
                       /\ failedSettlements[i].status = "RESOLVED" => i \in settled
    /\ \A o \in Orders : failedTerminals[o].status = "RESOLVED" => orderStatus[o] # "OPEN"

\* The hold of an open order is its unfilled amount, that of a closed one is
\* released.
HoldIsWhatIsLeft ==
    \A o \in Orders : /\ filled[o] <= o.amount
                      /\ hold[o] = IF orderStatus[o] = "OPEN" THEN o.amount - filled[o] ELSE 0

IndInv == Types /\ Resolved /\ HoldIsWhatIsLeft /\ SettledExactlyOnce /\ NothingLost

-----------------------------------------------------------------------------
(* What a step may do to the accounts and to the records, and what follows *)
(* from it for the invariant.                                              *)

\* The accounts after the step, over the rows before it.
AccountsStep ==
    /\ settled \subseteq settled' /\ settled' \subseteq {i \in Rows : IsTrade(i)}
    /\ filled' \in [Orders -> Nat] /\ hold' \in [Orders -> Int]
    /\ orderStatus' \in [Orders -> {"OPEN", "FILLED", "CANCELLED"}]
    /\ HoldIsWhatIsLeft'
    /\ \A o \in Orders : filled'[o] = Cardinality(Trades(o) \cap settled')
    /\ \A o \in Orders : orderStatus[o] # "OPEN" => orderStatus'[o] # "OPEN"

\* A record stays open unless its event has taken effect.
RecordsStep ==
    /\ failedSettlements' \in [Rows -> SettlementRecord]
    /\ failedTerminals' \in [Orders -> TerminalRecord]
    /\ \A i \in Rows :
          /\ failedSettlements'[i].status # "NONE" => IsTrade(i)
          /\ failedSettlements'[i].status = "RESOLVED" => i \in settled'
          /\ failedSettlements[i].status = "OPEN" =>
                failedSettlements'[i].status = "OPEN" \/ i \in settled'
    /\ \A o \in Orders :
          /\ failedTerminals'[o].status = "RESOLVED" => orderStatus'[o] # "OPEN"
          /\ failedTerminals[o].status = "OPEN" =>
                failedTerminals'[o].status = "OPEN" \/ orderStatus'[o] # "OPEN"

\* After the step the event of row i has taken effect or has an open record.
Kept(i) ==
    IF IsTrade(i) THEN i \in settled' \/ failedSettlements'[i].status = "OPEN"
    ELSE \/ orderStatus'[Owner(i)] # "OPEN"
         \/ failedTerminals'[Owner(i)].status = "OPEN"

\* The rows of the outbox and their orders.
LEMMA RowTypes ==
    ASSUME Types
    PROVE  /\ Len(outbox) \in Nat /\ Rows = 1 .. Len(outbox)
           /\ \A i \in Rows : /\ outbox[i] \in Row /\ OrdersOf(i) \subseteq Orders
                              /\ Owner(i) \in OrdersOf(i) /\ Owner(i) \in Orders
<1>1. Len(outbox) \in Nat /\ Rows = 1 .. Len(outbox) /\ \A i \in Rows : outbox[i] \in Row
  BY LenProperties, ElementOfSeq DEF Types, Rows
<1>2. \A i \in Rows : OrdersOf(i) \subseteq Orders /\ OrdersOf(i) # {}
  BY <1>1 DEF OrdersOf, Row
<1> QED  BY <1>1, <1>2 DEF Owner

\* Marking a row changes nothing but its status.
LEMMA MarkedRows ==
    ASSUME Types, NEW i \in Rows
    PROVE  /\ Marked(i) \in Seq(Row) /\ DOMAIN Marked(i) = Rows
           /\ \A j \in Rows : /\ Marked(i)[j].kind = outbox[j].kind
                              /\ Marked(i)[j].orders = outbox[j].orders
                              /\ j # i => Marked(i)[j] = outbox[j]
<1> DEFINE f == [outbox EXCEPT ![i].status = "PROCESSED"]
<1>1. \A j \in Rows : outbox[j] \in Row  BY RowTypes
<1>2. DOMAIN f = Rows /\ \A j \in Rows : f[j] = IF j = i THEN [outbox[i] EXCEPT !.status = "PROCESSED"]
                                                ELSE outbox[j]
  BY DEF Rows
<1>3. [outbox[i] EXCEPT !.status = "PROCESSED"] \in Row
      /\ [outbox[i] EXCEPT !.status = "PROCESSED"].kind = outbox[i].kind
      /\ [outbox[i] EXCEPT !.status = "PROCESSED"].orders = outbox[i].orders
  BY <1>1 DEF Row
<1>4. f \in [1 .. Len(outbox) -> Row]
  BY <1>1, <1>2, <1>3, RowTypes
<1>5. f \in Seq(Row)
  <2> HIDE DEF f
  <2> QED  BY <1>4, RowTypes
<1> QED  BY <1>2, <1>3, <1>5 DEF Marked

\* A step that keeps to the two relations and marks a row only when its event
\* is kept preserves the invariant.
LEMMA DatabaseStep ==
    ASSUME IndInv, AccountsStep, RecordsStep,
           outbox' = outbox \/ \E i \in Rows : outbox' = Marked(i) /\ Kept(i),
           execution' \in Seq(Event), book' \in [Orders -> Int], pipeline' \subseteq Rows
    PROVE  IndInv'
<1>1. /\ outbox' \in Seq(Row) /\ Rows' = Rows
      /\ \A j \in Rows : /\ outbox'[j].kind = outbox[j].kind
                         /\ outbox'[j].orders = outbox[j].orders
                         /\ outbox'[j].status = "PROCESSED" =>
                               outbox[j].status = "PROCESSED" \/ Kept(j)
  BY MarkedRows DEF IndInv, Types, Rows
<1>2. \A j \in Rows : /\ IsTrade(j)' = IsTrade(j) /\ OrdersOf(j)' = OrdersOf(j)
                      /\ Owner(j)' = Owner(j)
  BY <1>1 DEF IsTrade, OrdersOf, Owner
<1>3. \A o \in Orders : Trades(o)' = Trades(o)
  BY <1>1, <1>2 DEF Trades
<1>4. Types'
  BY <1>1, <1>2 DEF Types, AccountsStep, RecordsStep
<1>5. Resolved'
  BY <1>1, <1>2 DEF Resolved, RecordsStep
<1>6. SettledExactlyOnce'
  BY <1>3 DEF SettledExactlyOnce, AccountsStep
<1>7. NothingLost'
  <2> SUFFICES ASSUME NEW j \in Rows, outbox'[j].status = "PROCESSED"
               PROVE  Kept(j)
    BY <1>1, <1>2 DEF NothingLost, Kept
  <2>1. CASE Kept(j)  BY <2>1
  <2>2. CASE outbox[j].status = "PROCESSED"
    BY <2>2, RowTypes DEF IndInv, NothingLost, Kept, AccountsStep, RecordsStep
  <2> QED  BY <1>1, <2>1, <2>2
<1> QED  BY <1>4, <1>5, <1>6, <1>7 DEF IndInv, AccountsStep

\* Steps that leave the accounts or the records alone.
LEMMA SameAccounts ==
    ASSUME IndInv, UNCHANGED accountVars
    PROVE  AccountsStep
BY DEF IndInv, Types, accountVars, AccountsStep, HoldIsWhatIsLeft, SettledExactlyOnce

\* The same for the records.
LEMMA SameRecords ==
    ASSUME IndInv, AccountsStep, UNCHANGED <<failedSettlements, failedTerminals>>
    PROVE  RecordsStep
BY DEF IndInv, Types, Resolved, AccountsStep, RecordsStep

-----------------------------------------------------------------------------
(* The transactions.                                                       *)

\* SettleTrade applies the trade to both of its orders and to no other, unless
\* it is in the trades table already.
LEMMA SettleStep ==
    ASSUME IndInv, NEW i \in Rows, IsTrade(i), SettleTrade(i)
    PROVE  AccountsStep /\ i \in settled'
<1>1. CASE i \in settled /\ UNCHANGED accountVars
  BY <1>1, SameAccounts DEF accountVars
<1>2. CASE i \notin settled /\ ~(i \in settled /\ UNCHANGED accountVars)
  <2>1. /\ Settleable(i) /\ settled' = settled \cup {i}
        /\ filled' = [o \in Orders |-> IF o \in OrdersOf(i) THEN filled[o] + 1 ELSE filled[o]]
        /\ hold' = [o \in Orders |-> IF o \in OrdersOf(i) THEN hold[o] - 1 ELSE hold[o]]
        /\ orderStatus' = [o \in Orders |->
               IF o \in OrdersOf(i) /\ filled[o] + 1 = o.amount THEN "FILLED" ELSE orderStatus[o]]
    BY <1>2 DEF SettleTrade
  <2>2. /\ filled' \in [Orders -> Nat] /\ hold' \in [Orders -> Int]
        /\ orderStatus' \in [Orders -> {"OPEN", "FILLED", "CANCELLED"}]
        /\ \A o \in Orders : orderStatus[o] # "OPEN" => orderStatus'[o] # "OPEN"
    BY <2>1 DEF IndInv, Types
  <2>3. HoldIsWhatIsLeft'
    BY <2>1, OrdersAssumption DEF IndInv, Types, HoldIsWhatIsLeft, Settleable
  <2>4. ASSUME NEW o \in Orders
        PROVE  filled'[o] = Cardinality(Trades(o) \cap settled')
    <3>1. IsFiniteSet(Trades(o) \cap settled)
      <4>1. Trades(o) \cap settled \subseteq 1 .. Len(outbox)
        BY RowTypes DEF Trades, IndInv
      <4>2. Len(outbox) \in Int  BY RowTypes DEF IndInv
      <4>3. IsFiniteSet(1 .. Len(outbox))  BY <4>2, FS_Interval
      <4> QED  BY <4>1, <4>3, FS_Subset
    <3>2. i \notin Trades(o) \cap settled  BY <1>2
    <3>3. Cardinality((Trades(o) \cap settled) \cup {i}) = Cardinality(Trades(o) \cap settled) + 1
      BY <3>1, <3>2, FS_AddElement
    <3>4. Trades(o) \cap settled' = IF o \in OrdersOf(i) THEN (Trades(o) \cap settled) \cup {i}
                                    ELSE Trades(o) \cap settled
      BY <2>1 DEF Trades
    <3>5. filled[o] = Cardinality(Trades(o) \cap settled)
      BY DEF IndInv, SettledExactlyOnce
    <3> QED  BY <2>1, <3>3, <3>4, <3>5
  <2>5. settled \subseteq settled' /\ settled' \subseteq {j \in Rows : IsTrade(j)}
    BY <2>1 DEF IndInv, Types
  <2> QED  BY <2>1, <2>2, <2>3, <2>4, <2>5 DEF AccountsStep
<1> QED  BY <1>1, <1>2 DEF SettleTrade

\* ProcessOrderCancellation and CompleteMarketOrder close the order and release
\* what is left of its hold.
LEMMA CompleteStep ==
    ASSUME IndInv, NEW o \in Orders, NEW reported, CompleteOrder(o, reported)
    PROVE  AccountsStep /\ orderStatus'[o] # "OPEN"
<1>1. CASE orderStatus[o] # "OPEN"
  <2>1. UNCHANGED accountVars  BY <1>1 DEF CompleteOrder, accountVars
  <2> QED  BY <1>1, <2>1, SameAccounts DEF accountVars
<1>2. CASE orderStatus[o] = "OPEN"
  <2>1. /\ hold' = [hold EXCEPT ![o] = 0]
        /\ orderStatus' = [orderStatus EXCEPT ![o] = "CANCELLED"]
        /\ UNCHANGED <<settled, filled>>
    BY <1>2 DEF CompleteOrder
  <2>2. orderStatus'[o] = "CANCELLED"  BY <2>1 DEF IndInv, Types
  <2>3. HoldIsWhatIsLeft'
    BY <2>1 DEF IndInv, Types, HoldIsWhatIsLeft
  <2>4. \A p \in Orders : filled'[p] = Cardinality(Trades(p) \cap settled')
    BY <2>1 DEF IndInv, SettledExactlyOnce
  <2>5. /\ filled' \in [Orders -> Nat] /\ hold' \in [Orders -> Int]
        /\ orderStatus' \in [Orders -> {"OPEN", "FILLED", "CANCELLED"}]
        /\ \A p \in Orders : orderStatus[p] # "OPEN" => orderStatus'[p] # "OPEN"
    BY <2>1 DEF IndInv, Types
  <2>6. settled \subseteq settled' /\ settled' \subseteq {i \in Rows : IsTrade(i)}
    BY <2>1 DEF IndInv, Types
  <2> QED  BY <2>2, <2>3, <2>4, <2>5, <2>6 DEF AccountsStep
<1> QED  BY <1>1, <1>2

\* The capped counter of attempts is a natural number.
LEMMA AttemptsType == \A n \in Nat : Attempts(n) \in Nat
BY MinOfNaturals, RetryAssumption DEF Attempts

\* There are finitely many records, so the place of a new one is a number.
LEMMA PlaceType ==
    ASSUME IndInv
    PROVE  Cardinality(Recorded) \in Nat /\ Cardinality(RecordedTerminals) \in Nat
<1>1. IsFiniteSet(Rows)
  <2>1. Len(outbox) \in Int /\ Rows = 1 .. Len(outbox)  BY RowTypes DEF IndInv
  <2> QED  BY <2>1, FS_Interval
<1>2. IsFiniteSet(Recorded)  BY <1>1, FS_Subset DEF Recorded
<1>3. IsFiniteSet(RecordedTerminals)  BY OrdersAssumption, FS_Subset DEF RecordedTerminals
<1> QED  BY <1>2, <1>3, FS_CardinalityType

\* RecordFailure leaves an open record of the trade.
LEMMA RecordFailureStep ==
    ASSUME IndInv, NEW i \in Rows, IsTrade(i), RecordFailure(i),
           UNCHANGED <<accountVars, failedTerminals>>
    PROVE  AccountsStep /\ RecordsStep /\ failedSettlements'[i].status = "OPEN"
<1>1. PICK error \in SettleErrors(i) :
          failedSettlements' = [failedSettlements EXCEPT ![i] =
              [status |-> "OPEN", retries |-> Attempts(@.retries + 1), transient |-> error,
               at |-> IF @.status = "NONE" THEN Cardinality(Recorded) ELSE @.at]]
  BY DEF RecordFailure
<1>2. error \in BOOLEAN  BY DEF SettleErrors
<1>3. AccountsStep  BY SameAccounts
<1>4. Attempts(failedSettlements[i].retries + 1) \in Nat
  <2>1. failedSettlements[i].retries + 1 \in Nat  BY DEF IndInv, Types, SettlementRecord
  <2> QED  BY <2>1, AttemptsType
<1> DEFINE r == [status |-> "OPEN", retries |-> Attempts(failedSettlements[i].retries + 1),
                 transient |-> error,
                 at |-> IF failedSettlements[i].status = "NONE" THEN Cardinality(Recorded)
                        ELSE failedSettlements[i].at]
<1>5. r \in SettlementRecord /\ r.status = "OPEN"
  BY <1>2, <1>4, PlaceType DEF IndInv, Types, SettlementRecord, Status
<1>6. failedSettlements' = [failedSettlements EXCEPT ![i] = r]  BY <1>1
<1> HIDE DEF r
<1>7. RecordsStep
  BY <1>5, <1>6 DEF IndInv, Types, Resolved, RecordsStep, accountVars
<1>8. failedSettlements'[i] = r  BY <1>6 DEF IndInv, Types
<1> QED  BY <1>3, <1>5, <1>7, <1>8

\* A step that gives order o the terminal record r, open unless the order is
\* closed.
LEMMA TerminalRecordStep ==
    ASSUME IndInv, AccountsStep, UNCHANGED failedSettlements, NEW o \in Orders,
           NEW r \in TerminalRecord, failedTerminals' = [failedTerminals EXCEPT ![o] = r],
           r.status = "OPEN" \/ orderStatus'[o] # "OPEN"
    PROVE  RecordsStep /\ failedTerminals'[o] = r
BY DEF IndInv, Types, Resolved, AccountsStep, RecordsStep

\* The failure record of a terminal event is an open record.
LEMMA RecordTerminalFailureStep ==
    ASSUME IndInv, NEW o \in Orders, NEW reported \in Int, RecordTerminalFailure(o, reported),
           UNCHANGED <<accountVars, failedSettlements>>
    PROVE  AccountsStep /\ RecordsStep /\ failedTerminals'[o].status = "OPEN"
<1> DEFINE r == [status |-> "OPEN", retries |-> Attempts(failedTerminals[o].retries + 1),
                 filled |-> IF failedTerminals[o].status = "NONE" THEN reported
                            ELSE failedTerminals[o].filled,
                 at |-> IF failedTerminals[o].status = "NONE" THEN Cardinality(RecordedTerminals)
                        ELSE failedTerminals[o].at]
<1>1. Attempts(failedTerminals[o].retries + 1) \in Nat
  <2>1. failedTerminals[o].retries + 1 \in Nat  BY DEF IndInv, Types, TerminalRecord
  <2> QED  BY <2>1, AttemptsType
<1>2. r \in TerminalRecord /\ r.status = "OPEN"
  BY <1>1, PlaceType DEF IndInv, Types, TerminalRecord, Status
<1>3. failedTerminals' = [failedTerminals EXCEPT ![o] = r]
  BY DEF RecordTerminalFailure
<1> HIDE DEF r
<1>4. AccountsStep  BY SameAccounts
<1> QED  BY <1>2, <1>3, <1>4, TerminalRecordStep

\* EnsureDeferred leaves an open record, or a resolved one of a closed order.
LEMMA EnsureDeferredStep ==
    ASSUME IndInv, NEW o \in Orders, NEW reported \in Int, EnsureDeferred(o, reported),
           UNCHANGED <<accountVars, failedSettlements>>
    PROVE  /\ AccountsStep /\ RecordsStep
           /\ orderStatus'[o] # "OPEN" \/ failedTerminals'[o].status = "OPEN"
<1> DEFINE r == IF failedTerminals[o].status = "NONE"
                THEN [status |-> "OPEN", retries |-> 0, filled |-> reported,
                      at |-> Cardinality(RecordedTerminals)]
                ELSE failedTerminals[o]
<1>1. r \in TerminalRecord /\ (r.status = "OPEN" \/ orderStatus[o] # "OPEN")
  BY PlaceType DEF IndInv, Types, Resolved, TerminalRecord, Status
<1>2. failedTerminals' = [failedTerminals EXCEPT ![o] = r]
  BY DEF EnsureDeferred
<1> HIDE DEF r
<1>3. AccountsStep /\ orderStatus' = orderStatus  BY SameAccounts DEF accountVars
<1>4. RecordsStep /\ failedTerminals'[o] = r
  BY <1>1, <1>2, <1>3, TerminalRecordStep
<1> QED  BY <1>1, <1>3, <1>4

-----------------------------------------------------------------------------
(* The actions.                                                            *)

\* What the pipeline and the replayer do with a row.
RowHandled(i) ==
    RowSettled(i) \/ RowFailed(i) \/ RowExecuted(i) \/ RowDeferred(i) \/ RowPutOff(i)

\* Whatever becomes of a row that is handled, it may be marked.
LEMMA RowStep ==
    ASSUME IndInv, NEW i \in Rows, RowHandled(i)
    PROVE  AccountsStep /\ RecordsStep /\ Kept(i)
<1>1. Owner(i) \in Orders /\ outbox[i].filled \in Int
  BY RowTypes DEF IndInv, Row
<1>2. CASE RowSettled(i)
  BY <1>2, SettleStep, SameRecords DEF RowSettled, Kept
<1>3. CASE RowFailed(i)
  BY <1>3, RecordFailureStep DEF RowFailed, Kept
<1>4. CASE RowExecuted(i)
  BY <1>1, <1>4, CompleteStep, SameRecords DEF RowExecuted, Kept
<1>5. CASE RowDeferred(i)
  BY <1>1, <1>5, EnsureDeferredStep DEF RowDeferred, Kept
<1>6. CASE RowPutOff(i)
  BY <1>1, <1>6, RecordTerminalFailureStep DEF RowPutOff, Kept
<1> QED  BY <1>2, <1>3, <1>4, <1>5, <1>6 DEF RowHandled

\* A step that leaves the database alone.
LEMMA MemoryStep ==
    ASSUME IndInv, UNCHANGED dbVars, execution' \in Seq(Event), book' \in [Orders -> Int],
           pipeline' \subseteq Rows
    PROVE  IndInv'
<1>1. AccountsStep  BY SameAccounts DEF dbVars, accountVars
<1>2. RecordsStep  BY <1>1, SameRecords DEF dbVars
<1> QED  BY <1>1, <1>2, DatabaseStep DEF dbVars

\* The engine emits events of the orders it matches, finishes and cancels.
LEMMA EngineStep ==
    ASSUME IndInv, Engine
    PROVE  IndInv'
<1> DEFINE Emits == /\ UNCHANGED dbVars /\ UNCHANGED pipeline /\ book' \in [Orders -> Int]
                    /\ \E event \in Event : execution' = Append(execution, event)
<1>1. Emits
  <2>1. ASSUME NEW b \in Orders, NEW s \in Orders, MatchOrders(b, s)
        PROVE  Emits
    <3>1. [kind |-> "TRADE", orders |-> {b, s}, filled |-> 0] \in Event
      BY DEF Event
    <3>2. /\ UNCHANGED dbVars /\ UNCHANGED pipeline
          /\ execution' = Append(execution, [kind |-> "TRADE", orders |-> {b, s}, filled |-> 0])
      BY <2>1 DEF MatchOrders, Emit
    <3>3. book' \in [Orders -> Int]
      BY <2>1 DEF MatchOrders, IndInv, Types
    <3> QED  BY <3>1, <3>2, <3>3
  <2>2. ASSUME NEW o \in Orders, FinishMarketOrder(o)
        PROVE  Emits
    <3>1. [kind |-> "DONE", orders |-> {o}, filled |-> o.amount - book[o]] \in Event
      BY OrdersAssumption DEF Event, IndInv, Types
    <3>2. /\ UNCHANGED dbVars /\ UNCHANGED pipeline
          /\ execution' = Append(execution, [kind |-> "DONE", orders |-> {o},
                                             filled |-> o.amount - book[o]])
      BY <2>2 DEF FinishMarketOrder, Emit
    <3>3. book' \in [Orders -> Int]
      BY <2>2 DEF FinishMarketOrder, IndInv, Types
    <3> QED  BY <3>1, <3>2, <3>3
  <2>3. ASSUME NEW o \in Orders, CancelRestingOrder(o)
        PROVE  Emits
    <3>1. [kind |-> "CANCEL", orders |-> {o}, filled |-> 0] \in Event
      BY DEF Event
    <3>2. /\ UNCHANGED dbVars /\ UNCHANGED pipeline
          /\ execution' = Append(execution, [kind |-> "CANCEL", orders |-> {o}, filled |-> 0])
      BY <2>3 DEF CancelRestingOrder, Emit
    <3>3. book' \in [Orders -> Int]
      BY <2>3 DEF CancelRestingOrder, IndInv, Types
    <3> QED  BY <3>1, <3>2, <3>3
  <2> QED  BY <2>1, <2>2, <2>3 DEF Engine
<1>2. execution' \in Seq(Event)
  BY <1>1, AppendProperties DEF IndInv, Types
<1>3. pipeline' \subseteq Rows  BY <1>1 DEF IndInv, Types
<1> QED  BY <1>1, <1>2, <1>3, MemoryStep
\* The writer appends rows that are PENDING and have no failure record.
LEMMA FlushStep ==
    ASSUME IndInv, FlushAndForward
    PROVE  IndInv'
<1> DEFINE rows == [n \in DOMAIN execution |->
                      [kind |-> execution[n].kind, orders |-> execution[n].orders,
                       filled |-> execution[n].filled, status |-> "PENDING"]]
           none == [n \in DOMAIN execution |-> NoRecord]
           L == Len(outbox)
           K == Len(execution)
<1>1. /\ outbox' = outbox \o rows /\ failedSettlements' = failedSettlements \o none
      /\ pipeline' \subseteq pipeline \cup (L + 1 .. L + K) /\ execution' = << >>
      /\ UNCHANGED <<settled, filled, orderStatus, hold, failedTerminals, book>>
  BY DEF FlushAndForward
<1>2. /\ L \in Nat /\ Rows = 1 .. L /\ K \in Nat /\ DOMAIN execution = 1 .. K
      /\ \A n \in 1 .. K : execution[n] \in Event
  BY RowTypes, LenProperties, ElementOfSeq DEF IndInv, Types
<1>3. rows \in Seq(Row) /\ Len(rows) = K /\ \A n \in 1 .. K : rows[n].status = "PENDING"
  <2>1. rows \in [1 .. K -> Row]  BY <1>2 DEF Event, Row
  <2>2. \A n \in 1 .. K : rows[n].status = "PENDING"  BY <1>2
  <2> HIDE DEF rows, K
  <2>3. K \in Nat  BY <1>2
  <2> QED  BY <2>1, <2>2, <2>3
<1>4. none \in Seq(SettlementRecord) /\ Len(none) = K /\ \A n \in 1 .. K : none[n] = NoRecord
  <2>1. NoRecord \in SettlementRecord  BY DEF NoRecord, SettlementRecord, Status
  <2>2. none \in [1 .. K -> SettlementRecord] /\ \A n \in 1 .. K : none[n] = NoRecord
    BY <1>2, <2>1
  <2> HIDE DEF none, K
  <2>3. K \in Nat  BY <1>2
  <2> QED  BY <2>2, <2>3
<1>5. failedSettlements \in Seq(SettlementRecord) /\ Len(failedSettlements) = L
  <2>1. failedSettlements \in [1 .. L -> SettlementRecord]  BY <1>2 DEF IndInv, Types
  <2> HIDE DEF L
  <2> QED  BY <1>2, <2>1
<1> HIDE DEF rows, none
<1>6. /\ outbox' \in Seq(Row) /\ Len(outbox') = L + K
      /\ \A n \in 1 .. L + K : outbox'[n] = IF n <= L THEN outbox[n] ELSE rows[n - L]
  <2>1. outbox \in Seq(Row) /\ outbox' = outbox \o rows  BY <1>1 DEF IndInv, Types
  <2>2. rows \in Seq(Row)  BY <1>3
  <2>3. /\ outbox' \in Seq(Row) /\ Len(outbox') = Len(outbox) + Len(rows)
        /\ \A n \in 1 .. Len(outbox) + Len(rows) :
              outbox'[n] = IF n <= Len(outbox) THEN outbox[n] ELSE rows[n - Len(outbox)]
    BY <2>1, <2>2, ConcatProperties
  <2> QED  BY <1>3, <2>3
<1>7. /\ failedSettlements' \in Seq(SettlementRecord) /\ Len(failedSettlements') = L + K
      /\ \A n \in 1 .. L + K :
            failedSettlements'[n] = IF n <= L THEN failedSettlements[n] ELSE none[n - L]
  <2>1. /\ failedSettlements' \in Seq(SettlementRecord)
        /\ Len(failedSettlements') = Len(failedSettlements) + Len(none)
        /\ \A n \in 1 .. Len(failedSettlements) + Len(none) :
              failedSettlements'[n] = IF n <= Len(failedSettlements) THEN failedSettlements[n]
                                      ELSE none[n - Len(failedSettlements)]
    <3>1. failedSettlements' = failedSettlements \o none  BY <1>1
    <3>2. failedSettlements \in Seq(SettlementRecord) /\ none \in Seq(SettlementRecord)
      BY <1>4, <1>5
    <3> QED  BY <3>1, <3>2, ConcatProperties
  <2> QED  BY <1>4, <1>5, <2>1
<1> HIDE DEF L, K
<1>8. Rows' = 1 .. L + K /\ Rows \subseteq Rows'
  BY <1>2, <1>6, LenProperties DEF Rows
<1>9. \A i \in Rows : /\ outbox'[i] = outbox[i]
                      /\ failedSettlements'[i] = failedSettlements[i]
  BY <1>2, <1>6, <1>7
<1>10. ASSUME NEW i \in Rows', i \notin Rows
       PROVE  outbox'[i].status = "PENDING" /\ failedSettlements'[i].status = "NONE"
  <2>1. i \in 1 .. L + K /\ ~(i <= L) /\ i - L \in 1 .. K  BY <1>2, <1>8, <1>10
  <2> QED  BY <1>3, <1>4, <1>6, <1>7, <2>1 DEF NoRecord
<1>11. \A i \in Rows : IsTrade(i)' = IsTrade(i) /\ OrdersOf(i)' = OrdersOf(i)
                       /\ Owner(i)' = Owner(i)
  BY <1>9 DEF IsTrade, OrdersOf, Owner
<1>12. Types'
  <2>1. execution' \in Seq(Event)  BY <1>1
  <2>2. settled' \subseteq {i \in Rows' : IsTrade(i)'}
    BY <1>1, <1>8, <1>11 DEF IndInv, Types
  <2>3. failedSettlements' \in [Rows' -> SettlementRecord]
    BY <1>7, <1>8, ElementOfSeq, LenProperties
  <2>4. pipeline' \subseteq Rows'
    BY <1>1, <1>2, <1>8 DEF IndInv, Types, L, K
  <2> QED  BY <1>1, <1>6, <2>1, <2>2, <2>3, <2>4 DEF IndInv, Types
<1>13. Resolved'
  BY <1>1, <1>9, <1>10, <1>11 DEF IndInv, Resolved
<1>14. HoldIsWhatIsLeft'  BY <1>1 DEF IndInv, HoldIsWhatIsLeft
<1>15. SettledExactlyOnce'
  <2>1. ASSUME NEW o \in Orders
        PROVE  (Trades(o) \cap settled)' = Trades(o) \cap settled
    BY <1>1, <1>8, <1>11 DEF IndInv, Types, Trades
  <2> QED  BY <1>1, <2>1 DEF IndInv, SettledExactlyOnce
<1>16. NothingLost'
  BY <1>1, <1>9, <1>10, <1>11 DEF IndInv, NothingLost
<1> QED  BY <1>12, <1>13, <1>14, <1>15, <1>16 DEF IndInv
\* A forwarded row is handled, lost or dropped.
LEMMA PipelineStep ==
    ASSUME IndInv, NEW i \in Rows, ProcessRow(i) \/ LoseRow(i) \/ DropRow(i)
    PROVE  IndInv'
<1>1. CASE ProcessRow(i)
  <2>1. RowHandled(i) /\ (outbox' = outbox \/ outbox' = Marked(i))
    BY <1>1 DEF ProcessRow, MarkProcessed, RowHandled
  <2>2. execution' \in Seq(Event) /\ book' \in [Orders -> Int] /\ pipeline' \subseteq Rows
    BY <1>1 DEF ProcessRow, Leaves, engineVars, IndInv, Types
  <2>3. AccountsStep /\ RecordsStep /\ Kept(i)  BY <2>1, RowStep
  <2> QED  BY <2>1, <2>2, <2>3, DatabaseStep
<1>2. CASE LoseRow(i) \/ DropRow(i)
  <2>1. /\ UNCHANGED dbVars
        /\ execution' \in Seq(Event) /\ book' \in [Orders -> Int] /\ pipeline' \subseteq Rows
    BY <1>2 DEF LoseRow, DropRow, Leaves, engineVars, IndInv, Types
  <2> QED  BY <2>1, MemoryStep
<1> QED  BY <1>1, <1>2

\* A step of the retry worker or the finalizer: no row is marked.
LEMMA RecordStep ==
    ASSUME IndInv, AccountsStep, RecordsStep, UNCHANGED <<outbox, engineVars, pipeline>>
    PROVE  IndInv'
<1>1. execution' \in Seq(Event) /\ book' \in [Orders -> Int] /\ pipeline' \subseteq Rows
  BY DEF engineVars, IndInv, Types
<1> QED  BY <1>1, DatabaseStep

\* A record is resolved only after its trade was settled.
LEMMA RetrySettlementStep ==
    ASSUME IndInv, NEW i \in Rows, RetryFailedSettlement(i)
    PROVE  IndInv'
<1>1. /\ failedSettlements[i].status = "OPEN" /\ IsTrade(i)
      /\ UNCHANGED <<outbox, engineVars, pipeline>> /\ UNCHANGED failedTerminals
  BY DEF RetryFailedSettlement, RetryUnchanged, Retried, IndInv, Resolved
<1>2. CASE RecordFailure(i) /\ UNCHANGED accountVars
  <2>1. AccountsStep /\ RecordsStep  BY <1>1, <1>2, RecordFailureStep
  <2> QED  BY <1>1, <2>1, RecordStep
<1>3. ASSUME SettleTrade(i), NEW result \in ResolvedOr("OPEN"),
             failedSettlements' = [failedSettlements EXCEPT ![i].status = result]
      PROVE  IndInv'
  <2>1. AccountsStep /\ i \in settled'  BY <1>1, <1>3, SettleStep
  <2>2. result \in {"OPEN", "RESOLVED"}  BY DEF ResolvedOr
  <2> DEFINE r == [failedSettlements[i] EXCEPT !.status = result]
  <2>3. r \in SettlementRecord /\ r.status = result
    BY <2>2 DEF IndInv, Types, SettlementRecord, Status
  <2>4. failedSettlements' = [failedSettlements EXCEPT ![i] = r]  BY <1>3
  <2> HIDE DEF r
  <2>5. RecordsStep
    BY <1>1, <2>1, <2>2, <2>3, <2>4 DEF IndInv, Types, Resolved, RecordsStep, AccountsStep
  <2> QED  BY <1>1, <2>1, <2>5, RecordStep
<1> QED  BY <1>2, <1>3 DEF RetryFailedSettlement

\* A record is resolved only after its order was closed.
LEMMA RetryTerminalStep ==
    ASSUME IndInv, NEW o \in Orders, RetryFailedTerminal(o)
    PROVE  IndInv'
<1>1. /\ RetryTerminal(o) /\ UNCHANGED failedSettlements
      /\ UNCHANGED <<outbox, engineVars, pipeline>>
  BY DEF RetryFailedTerminal, RetryUnchanged
<1>2. failedTerminals[o].filled \in Int  BY DEF IndInv, Types, TerminalRecord
<1>3. CASE RecordTerminalFailure(o, failedTerminals[o].filled) /\ UNCHANGED accountVars
  <2>1. AccountsStep /\ RecordsStep  BY <1>1, <1>2, <1>3, RecordTerminalFailureStep
  <2> QED  BY <1>1, <2>1, RecordStep
<1>4. ASSUME CompleteOrder(o, failedTerminals[o].filled), NEW result \in ResolvedOr("OPEN"),
             failedTerminals' = [failedTerminals EXCEPT ![o].status = result]
      PROVE  IndInv'
  <2>1. AccountsStep /\ orderStatus'[o] # "OPEN"  BY <1>4, CompleteStep
  <2>2. result \in {"OPEN", "RESOLVED"}  BY DEF ResolvedOr
  <2> DEFINE r == [failedTerminals[o] EXCEPT !.status = result]
  <2>3. r \in TerminalRecord
    BY <2>2 DEF IndInv, Types, TerminalRecord, Status
  <2>4. failedTerminals' = [failedTerminals EXCEPT ![o] = r]  BY <1>4
  <2> HIDE DEF r
  <2>5. RecordsStep  BY <1>1, <2>1, <2>3, <2>4, TerminalRecordStep
  <2> QED  BY <1>1, <2>1, <2>5, RecordStep
<1> QED  BY <1>1, <1>3, <1>4 DEF RetryTerminal
\* The replay, the finalizer and the bootstrap.
LEMMA BootStep ==
    ASSUME IndInv, Boot
    PROVE  IndInv'
<1>1. CASE ReplayRow
  <2> DEFINE i == Min(NextPending)
  <2>1. /\ RowHandled(i) /\ (outbox' = outbox \/ outbox' = Marked(i))
        /\ NextPending # {} /\ UNCHANGED <<engineVars, pipeline>>
    BY <1>1 DEF ReplayRow, MarkProcessed, RowHandled
  <2>2. NextPending \subseteq Rows /\ Rows \subseteq Nat
    BY RowTypes DEF NextPending, IndInv
  <2>3. i \in Rows  BY <2>1, <2>2, MinOfNaturals
  <2> HIDE DEF i
  <2>4. AccountsStep /\ RecordsStep /\ Kept(i)  BY <2>1, <2>3, RowStep
  <2>5. execution' \in Seq(Event) /\ book' \in [Orders -> Int] /\ pipeline' \subseteq Rows
    BY <2>1 DEF engineVars, IndInv, Types
  <2> QED  BY <2>1, <2>3, <2>4, <2>5, DatabaseStep
<1>2. ASSUME NEW o \in Orders, FinalizeOrder(o)
      PROVE  IndInv'
  <2>1. filled[o] \in Int  BY DEF IndInv, Types
  <2>2. UNCHANGED failedSettlements /\ UNCHANGED <<outbox, engineVars, pipeline>>
    BY <1>2 DEF FinalizeOrder
  <2>3. CASE CompleteOrder(o, filled[o]) /\ UNCHANGED failedTerminals
    BY <2>2, <2>3, CompleteStep, SameRecords, RecordStep
  <2>4. CASE RecordTerminalFailure(o, filled[o]) /\ UNCHANGED accountVars
    BY <2>1, <2>2, <2>4, RecordTerminalFailureStep, RecordStep
  <2>5. CASE UNCHANGED failedTerminals /\ UNCHANGED accountVars
    BY <2>2, <2>5, SameAccounts, SameRecords, RecordStep
  <2> QED  BY <1>2, <2>3, <2>4, <2>5 DEF FinalizeOrder
<1>3. CASE AbortReplay \/ ReplayDone \/ FinalizeDone \/ BootstrapOpenOrders
  <2>1. UNCHANGED dbVars /\ execution' \in Seq(Event) /\ pipeline' \subseteq Rows
    BY <1>3 DEF AbortReplay, ReplayDone, FinalizeDone, BootstrapOpenOrders, engineVars,
                IndInv, Types
  <2>2. book' \in [Orders -> Int]
    <3>1. CASE BootstrapOpenOrders
      <4>1. \A o \in Orders : Restored(o) \in Int
        BY OrdersAssumption DEF Restored, IndInv, Types
      <4> QED  BY <3>1, <4>1 DEF BootstrapOpenOrders
    <3>2. CASE AbortReplay \/ ReplayDone \/ FinalizeDone
      BY <3>2 DEF AbortReplay, ReplayDone, FinalizeDone, engineVars, IndInv, Types
    <3> QED  BY <1>3, <3>1, <3>2
  <2> QED  BY <2>1, <2>2, MemoryStep
<1> QED  BY <1>1, <1>2, <1>3 DEF Boot

\* The strengthened invariant holds in every reachable state.
THEOREM RecoveryInvariant == Spec => []IndInv
<1>1. Init => IndInv
  <2> SUFFICES ASSUME Init PROVE IndInv
    OBVIOUS
  <2>1. Rows = {} /\ settled = {}  BY DEF Init, Rows
  <2>2. Types
    <3>1. NoTerminalRecord \in TerminalRecord
      BY DEF NoTerminalRecord, TerminalRecord, Status
    <3>2. failedSettlements \in [Rows -> SettlementRecord]
      BY <2>1 DEF Init
    <3>3. outbox \in Seq(Row) /\ execution \in Seq(Event)
      BY DEF Init
    <3> QED  BY <2>1, <3>1, <3>2, <3>3, OrdersAssumption DEF Init, Types
  <2>3. Resolved  BY <2>1 DEF Init, Resolved, NoTerminalRecord
  <2>4. HoldIsWhatIsLeft  BY OrdersAssumption DEF Init, HoldIsWhatIsLeft
  <2>5. SettledExactlyOnce
    <3>1. \A o \in Orders : Trades(o) \cap settled = {}  BY <2>1
    <3> QED  BY <3>1, FS_EmptySet DEF Init, SettledExactlyOnce
  <2>6. NothingLost  BY <2>1 DEF NothingLost
  <2> QED  BY <2>2, <2>3, <2>4, <2>5, <2>6 DEF IndInv
<1>2. IndInv /\ [Next]_vars => IndInv'
  <2> SUFFICES ASSUME IndInv, [Next]_vars PROVE IndInv'
    OBVIOUS
  <2>1. CASE Engine  BY <2>1, EngineStep
  <2>2. CASE FlushAndForward  BY <2>2, FlushStep
  <2>3. CASE Pipeline  BY <2>3, PipelineStep DEF Pipeline
  <2>4. CASE RetryWorker  BY <2>4, RetrySettlementStep, RetryTerminalStep DEF RetryWorker
  <2>5. CASE Crash
    <3>1. /\ UNCHANGED dbVars /\ execution' \in Seq(Event) /\ book' \in [Orders -> Int]
          /\ pipeline' \subseteq Rows
      BY <2>5 DEF Crash
    <3> QED  BY <3>1, MemoryStep
  <2>6. CASE Boot  BY <2>6, BootStep
  <2>7. CASE UNCHANGED vars
    <3>1. /\ UNCHANGED dbVars /\ execution' \in Seq(Event) /\ book' \in [Orders -> Int]
          /\ pipeline' \subseteq Rows
      BY <2>7 DEF vars, engineVars, IndInv, Types
    <3> QED  BY <3>1, MemoryStep
  <2> QED  BY <2>1, <2>2, <2>3, <2>4, <2>5, <2>6, <2>7 DEF Next
<1> QED  BY <1>1, <1>2, PTL DEF Spec

\* However often a trade is settled live, replayed and retried, it is applied
\* to its orders exactly once: orders.filled_amount counts the settled trades.
THEOREM SettlesOnce == Spec => []SettledExactlyOnce
BY RecoveryInvariant, PTL DEF IndInv

\* A row marked PROCESSED has taken effect or is owned by an open failure
\* record, whichever of settling, recording, marking and resolving fail and
\* wherever the process crashes.
THEOREM LosesNothing == Spec => []NothingLost
BY RecoveryInvariant, PTL DEF IndInv

\* The hold of an open order is its amount less its settled trades, and nothing
\* stays held of a closed one.
THEOREM HoldsAreExact == Spec => []HoldIsWhatIsLeft
BY RecoveryInvariant, PTL DEF IndInv
=============================================================================
