---------------------- MODULE CancelCommandsInvariant -----------------------
(***************************************************************************)
(* The invariant behind the status of a cancel command, and that the steps *)
(* up to the commit of the engine's events preserve it.                    *)
(***************************************************************************)
EXTENDS CancelCommands, TLAPS, SequenceTheorems

Command == [order : Orders, status : {"PENDING", "PROCESSED", "NOOP"}]
Event == [kind : {"TRADE", "CANCEL"}, order : Orders]
Execution == [kind : {"TRADE", "CANCEL"}, order : Orders, command : Nat]

\* The types the argument needs; what the worker remembers is not among them.
Types ==
    /\ orderStatus \in [Orders -> {"NONE", "PENDING"} \cup Final]
    /\ commands \in Seq(Command)
    /\ outbox \in Seq(Event) /\ owed \subseteq Event
    /\ place \in [Orders -> {"nowhere", "handoff", "intake", "book", "stranded"}]
    /\ execution \in Seq(Execution)

\* The engine and the worker only talk about commands that are stored.
Known ==
    /\ \A q \in cancels : q.command \in Commands
    /\ results \subseteq [command : Commands, result : {"ok", "notFound", "timeout"}]
    /\ pc = "noop" => checked \in Commands /\ orderStatus[OrderOf(checked)] \in Final

OneCommand ==
    /\ \A c, d \in Commands : OrderOf(c) = OrderOf(d) => c = d
    /\ \A c \in Commands : orderStatus[OrderOf(c)] # "NONE"

\* The rest is about the orders that no start has given to the engine with an
\* event owed. Such an order is open while the engine or a handler has it.
PlacesOpen ==
    \A o \in Orders \ reopened : place[o] # "nowhere" => orderStatus[o] = "PENDING"

\* An emitted cancellation names the command of its order.
Named ==
    \A n \in DOMAIN execution :
        LET e == execution[n] IN
        /\ e.kind = "CANCEL" => e.command \in Commands /\ OrderOf(e.command) = e.order
        /\ e.kind = "TRADE" => e.command = 0

\* The order of an emitted event has left the engine, is still open, and has no
\* other event; the command of a cancellation is pending.
Emitted ==
    \A n \in DOMAIN execution :
        LET e == execution[n] IN
        e.order \notin reopened =>
            /\ place[e.order] = "nowhere" /\ orderStatus[e.order] = "PENDING"
            /\ e.kind = "CANCEL" => commands[e.command].status = "PENDING"
            /\ \A m \in DOMAIN execution : execution[m].order = e.order => m = n

ProcessedFor(o) == \E c \in Commands : OrderOf(c) = o /\ commands[c].status = "PROCESSED"

\* So for a committed one, whose command is processed.
Committed ==
    \A n \in DOMAIN outbox :
        LET e == outbox[n] IN
        e.order \notin reopened =>
            /\ place[e.order] = "nowhere" /\ orderStatus[e.order] = "PENDING"
            /\ e.kind = "CANCEL" => ProcessedFor(e.order)
            /\ \A m \in DOMAIN outbox : outbox[m].order = e.order => m = n
            /\ \A m \in DOMAIN execution : execution[m].order # e.order

\* And for one that is owed.
Owing ==
    \A e \in owed :
        e.order \notin reopened =>
            /\ place[e.order] = "nowhere" /\ orderStatus[e.order] = "PENDING"
            /\ e.kind = "CANCEL" => ProcessedFor(e.order)
            /\ \A d \in owed : d.order = e.order => d = e
            /\ \A m \in DOMAIN outbox : outbox[m].order # e.order
            /\ \A m \in DOMAIN execution : execution[m].order # e.order

HasCancel(o) ==
    \/ \E n \in DOMAIN outbox : outbox[n].kind = "CANCEL" /\ outbox[n].order = o
    \/ \E e \in owed : e.kind = "CANCEL" /\ e.order = o

\* How a command ended agrees with how its order did.
Ended ==
    \A c \in Commands :
        LET o == OrderOf(c) IN
        o \notin reopened =>
            /\ commands[c].status = "PROCESSED" => orderStatus[o] = "CANCELLED" \/ HasCancel(o)
            /\ commands[c].status = "NOOP" => orderStatus[o] \in {"FILLED", "REJECTED"}
            /\ orderStatus[o] = "CANCELLED" => commands[c].status = "PROCESSED"

\* A process starts with nothing, and lets in requests when the commands it
\* found are done.
Started ==
    /\ phase = "replay" => execution = << >> /\ \A o \in Orders : place[o] = "nowhere"
    /\ \A o \in recovered : o \in Orders /\ \E c \in Commands : OrderOf(c) = o
    /\ phase \in {"open", "stopping"} =>
          \A c \in Commands : OrderOf(c) \in recovered => commands[c].status # "PENDING"

IndInv ==
    /\ Types /\ Known /\ OneCommand /\ PlacesOpen
    /\ Named /\ Emitted /\ Committed /\ Owing /\ Ended
    /\ Started

-----------------------------------------------------------------------------
(* Steps that change neither the tables nor the engine's orders.           *)

\* The elements of the three sequences.
LEMMA SequenceTypes ==
    ASSUME Types
    PROVE  /\ Len(commands) \in Nat /\ Commands = 1 .. Len(commands)
           /\ \A c \in Commands : commands[c] \in Command /\ OrderOf(c) \in Orders
           /\ Len(outbox) \in Nat /\ DOMAIN outbox = 1 .. Len(outbox)
           /\ \A n \in DOMAIN outbox : outbox[n] \in Event
           /\ Len(execution) \in Nat /\ DOMAIN execution = 1 .. Len(execution)
           /\ \A n \in DOMAIN execution : execution[n] \in Execution
<1>1. /\ Len(commands) \in Nat /\ Commands = 1 .. Len(commands)
      /\ \A c \in Commands : commands[c] \in Command
  BY LenProperties, ElementOfSeq DEF Types, Commands
<1>2. /\ Len(outbox) \in Nat /\ DOMAIN outbox = 1 .. Len(outbox)
      /\ \A n \in DOMAIN outbox : outbox[n] \in Event
  BY LenProperties, ElementOfSeq DEF Types
<1>3. /\ Len(execution) \in Nat /\ DOMAIN execution = 1 .. Len(execution)
      /\ \A n \in DOMAIN execution : execution[n] \in Execution
  BY LenProperties, ElementOfSeq DEF Types
<1> QED  BY <1>1, <1>2, <1>3 DEF OrderOf, Command

\* The empty exchange satisfies the invariant.
LEMMA InitIndInv == Init => IndInv
BY DEF Init, IndInv, Types, Known, OneCommand, PlacesOpen, Named, Emitted, Committed, Owing,
       Ended, Started, Commands, OrderOf, Final, Command, Event, Execution

coreVars == <<orderStatus, commands, outbox, owed, place, execution, reopened>>

\* What is left to show of a step that leaves the core alone.
LEMMA CoreUnchanged ==
    ASSUME IndInv, UNCHANGED coreVars, Known', Started'
    PROVE  IndInv'
BY DEF IndInv, coreVars, Types, OneCommand, PlacesOpen, Named, Emitted, Committed, Owing, Ended,
       ProcessedFor, HasCancel, Commands, OrderOf

\* A process that neither starts nor stops keeps what it has recovered.
LEMMA SameProcess ==
    ASSUME IndInv, UNCHANGED coreVars, UNCHANGED <<phase, recovered>>
    PROVE  Started'
BY DEF IndInv, coreVars, Started, Commands, OrderOf

\* A step of the worker other than MarkNoop changes no table and no order of the
\* engine.
LEMMA WorkerStep ==
    ASSUME IndInv, Worker, pc # "noop"
    PROVE  IndInv'
<1> USE DEF IndInv, coreVars, dbVars, engineVars, processVars
<1>1. ASSUME NEW r \in results, ReceiveResult(r)  PROVE IndInv'
  <2>2. UNCHANGED <<phase, recovered, reopened>>
    BY <1>1, Zenon DEF ReceiveResult, applyResult, applyNotFound, Fault, Known
  <2>1. UNCHANGED coreVars  BY <1>1, <2>2 DEF ReceiveResult
  <2>3. pc' = "noop" => /\ checked' = r.command
                        /\ ~isCancellableOrderStatus(orderStatus[OrderOf(r.command)])
    BY <1>1, Zenon DEF ReceiveResult, applyResult, applyNotFound, Known
  <2>4. /\ r.command \in Commands
        /\ orderStatus[OrderOf(r.command)] \in {"NONE", "PENDING"} \cup Final
        /\ orderStatus[OrderOf(r.command)] # "NONE"
    BY SequenceTypes DEF Known, OneCommand, Types
  <2>5. Known'
    BY <1>1, <2>1, <2>3, <2>4
       DEF ReceiveResult, Known, Commands, OrderOf, isCancellableOrderStatus
  <2> QED  BY <2>1, <2>2, <2>5, CoreUnchanged, SameProcess
<1>2. ASSUME Tick \/ releaseCompleted \/ drainDispatches  PROVE IndInv'
  <2>1. UNCHANGED coreVars /\ UNCHANGED <<phase, recovered>>
    BY <1>2 DEF Tick, releaseCompleted, drainDispatches
  <2>2. Known'
    BY <1>2 DEF Tick, releaseCompleted, drainDispatches, Known, Commands, OrderOf
  <2> QED  BY <2>1, <2>2, CoreUnchanged, SameProcess
<1>3. ASSUME dispatchReady  PROVE IndInv'
  <2>1. UNCHANGED coreVars /\ UNCHANGED <<phase, recovered>>
    BY <1>3 DEF dispatchReady
  <2>2. FindPending(blockedIDs, ScanLimit) \subseteq Commands
    BY DEF FindPending, Pending
  <2>3. PICK started \in SUBSET FindPending(blockedIDs, ScanLimit) :
            cancels' = cancels \cup {[command |-> c, waiting |-> TRUE] : c \in started}
    BY <1>3, Zenon DEF dispatchReady
  <2>4. UNCHANGED <<results, checked>> /\ pc' = "select"
    BY <1>3 DEF dispatchReady
  <2>5. Known'
    BY <2>1, <2>2, <2>3, <2>4 DEF Known, Commands, OrderOf
  <2> QED  BY <2>1, <2>5, CoreUnchanged, SameProcess
<1> QED  BY <1>1, <1>2, <1>3 DEF Worker, MarkNoop

\* Neither does a call that times out or a retry that falls due.
LEMMA TimerStep ==
    ASSUME IndInv,
           \/ \E q \in cancels : CancelTimesOut(q)
           \/ \E c \in Commands : nextAttemptAt(c)
    PROVE  IndInv'
<1> USE DEF IndInv, coreVars, dbVars, engineVars, processVars
<1>1. ASSUME NEW q \in cancels, CancelTimesOut(q)  PROVE IndInv'
  <2>1. UNCHANGED coreVars /\ UNCHANGED <<phase, recovered>>
    BY <1>1 DEF CancelTimesOut, Fault
  <2>2. Known'
    BY <1>1 DEF CancelTimesOut, Known, Commands, OrderOf
  <2> QED  BY <2>1, <2>2, CoreUnchanged, SameProcess
<1>2. ASSUME NEW c \in Commands, nextAttemptAt(c)  PROVE IndInv'
  <2>1. UNCHANGED coreVars /\ UNCHANGED <<phase, recovered>>
    BY <1>2 DEF nextAttemptAt
  <2>2. Known'
    BY <1>2 DEF nextAttemptAt, Known, Commands, OrderOf
  <2> QED  BY <2>1, <2>2, CoreUnchanged, SameProcess
<1> QED  BY <1>1, <1>2

-----------------------------------------------------------------------------
(* Requests, and orders that move in the engine.                           *)

\* Taking an order in, or refusing it, concerns no command that is pending in the
\* engine.
LEMMA OrderStep ==
    ASSUME IndInv, NEW o \in Orders,
           StoreOrder(o) \/ SubmitOrder(o) \/ RejectOrder(o) \/ TakeOrder(o)
    PROVE  IndInv'
<1> USE DEF IndInv, dbVars, workerVars, processVars
<1>1. /\ UNCHANGED <<commands, outbox, owed, execution, cancels, results, pc, checked, phase,
                     recovered, reopened>>
      /\ \A p \in Orders \ {o} : place'[p] = place[p] /\ orderStatus'[p] = orderStatus[p]
      /\ orderStatus' \in [Orders -> {"NONE", "PENDING"} \cup Final]
      /\ place' \in [Orders -> {"nowhere", "handoff", "intake", "book", "stranded"}]
      /\ phase # "replay"
  BY DEF StoreOrder, SubmitOrder, RejectOrder, TakeOrder, Types, EngineRuns, Final, Started, Fault
<1>2. \/ /\ orderStatus[o] = "NONE" /\ orderStatus'[o] = "PENDING"
      \/ place[o] # "nowhere" /\ orderStatus'[o] = orderStatus[o]
      \/ place[o] # "nowhere" /\ orderStatus'[o] = "REJECTED" /\ place'[o] = "nowhere"
  BY DEF StoreOrder, SubmitOrder, RejectOrder, TakeOrder, Types
<1>3. Types'  BY <1>1 DEF Types
<1>4. Known'
  BY <1>1, <1>2, SequenceTypes DEF Known, Commands, OrderOf, Final
<1>5. OneCommand'
  BY <1>1, <1>2, SequenceTypes DEF OneCommand, Commands, OrderOf
<1>6. PlacesOpen'
  BY <1>1, <1>2 DEF PlacesOpen
\* The order has no event: it would not be open, or not be in the engine.
<1>7. Named' /\ Emitted'
  <2>1. \A n \in DOMAIN execution :
            /\ execution[n].order \in Orders
            /\ execution[n].order \notin reopened => execution[n].order # o
    BY <1>2, SequenceTypes DEF Emitted, Execution
  <2> QED  BY <1>1, <2>1 DEF Named, Emitted, Commands, OrderOf
<1>8. Committed' /\ Owing' /\ Ended'
  <2>1. \A n \in DOMAIN outbox :
            /\ outbox[n].order \in Orders
            /\ outbox[n].order \notin reopened => outbox[n].order # o
    BY <1>2, SequenceTypes DEF Committed, Event
  <2>2. \A e \in owed : /\ e.order \in Orders
                        /\ e.order \notin reopened => e.order # o
    BY <1>2 DEF Owing, Types, Event
  <2>3. Committed' /\ Owing'
    BY <1>1, <2>1, <2>2 DEF Committed, Owing, ProcessedFor, Commands, OrderOf
  <2>4. \A c \in Commands : OrderOf(c) = o /\ o \notin reopened =>
            orderStatus[o] = "PENDING" /\ commands[c].status = "PENDING"
    BY <1>2, <2>1, <2>2, SequenceTypes DEF Ended, HasCancel, OneCommand, PlacesOpen, Command
  <2>5. Ended'
    BY <1>1, <1>2, <2>4, SequenceTypes DEF Ended, HasCancel, Commands, OrderOf
  <2> QED  BY <2>3, <2>5
<1>9. Started'
  BY <1>1 DEF Started, Commands, OrderOf
<1> QED  BY <1>3, <1>4, <1>5, <1>6, <1>7, <1>8, <1>9

\* An accepted cancel is the only command of its order (CreateOrGet).
LEMMA CancelStep ==
    ASSUME IndInv, NEW o \in Orders, CancelOrder(o)
    PROVE  IndInv'
<1> USE DEF IndInv, engineVars, processVars
<1> DEFINE new == [order |-> o, status |-> "PENDING"]
<1>1. /\ UNCHANGED <<orderStatus, outbox, owed, place, execution, cancels, results, pc, checked,
                     phase, recovered, reopened>>
      /\ orderStatus[o] = "PENDING" /\ phase = "open"
      /\ \A c \in Commands : OrderOf(c) # o
  BY DEF CancelOrder, isCancellableOrderStatus
<1>2. /\ commands' \in Seq(Command)
      /\ Commands' = Commands \cup {Len(commands) + 1}
      /\ Len(commands) + 1 \notin Commands
      /\ \A c \in Commands : commands'[c] = commands[c]
      /\ commands'[Len(commands) + 1] = new
  <2>1. commands' = Append(commands, new)  BY DEF CancelOrder
  <2> QED  BY <2>1, SequenceTypes DEF Types, Commands, Command
<1> HIDE DEF new
<1>3. new.order = o /\ new.status = "PENDING"  BY DEF new
<1>4. Types'  BY <1>1, <1>2, <1>3 DEF Types
<1>5. Known'  BY <1>1, <1>2, <1>3 DEF Known, OrderOf
<1>6. OneCommand' /\ PlacesOpen'
  BY <1>1, <1>2, <1>3 DEF OneCommand, PlacesOpen, OrderOf
<1>7. Named' /\ Emitted'  BY <1>1, <1>2, <1>3 DEF Named, Emitted, OrderOf
<1>8. Committed' /\ Owing'
  BY <1>1, <1>2, <1>3 DEF Committed, Owing, ProcessedFor, OrderOf
<1>9. Ended'  BY <1>1, <1>2, <1>3 DEF Ended, HasCancel, OrderOf
<1>10. Started'  BY <1>1, <1>2, <1>3 DEF Started, OrderOf
<1> QED  BY <1>4, <1>5, <1>6, <1>7, <1>8, <1>9, <1>10

-----------------------------------------------------------------------------
(* Events.                                                                 *)

\* The engine lets go of an order and emits the event that says why.
LEMMA Emission ==
    ASSUME IndInv, Known', NEW o \in Orders, place[o] = "book", phase # "replay",
           NEW e \in Execution, e.order = o,
           e.kind = "CANCEL" =>
               /\ e.command \in Commands /\ OrderOf(e.command) = o
               /\ o \notin reopened => commands[e.command].status = "PENDING",
           e.kind = "TRADE" => e.command = 0,
           execution' = Append(execution, e),
           place' = [place EXCEPT ![o] = "nowhere"],
           UNCHANGED <<orderStatus, commands, outbox, owed, phase, recovered, reopened>>
    PROVE  IndInv'
<1> USE DEF IndInv
<1>1. /\ execution' \in Seq(Execution)
      /\ DOMAIN execution' = DOMAIN execution \cup {Len(execution) + 1}
      /\ Len(execution) + 1 \notin DOMAIN execution
      /\ \A n \in DOMAIN execution : execution'[n] = execution[n]
      /\ execution'[Len(execution) + 1] = e
  BY SequenceTypes DEF Types
<1>2. /\ place' \in [Orders -> {"nowhere", "handoff", "intake", "book", "stranded"}]
      /\ place'[o] = "nowhere" /\ \A p \in Orders \ {o} : place'[p] = place[p]
      /\ o \notin reopened => orderStatus[o] = "PENDING"
  BY DEF Types, PlacesOpen
<1>3. UNCHANGED <<orderStatus, commands, outbox, owed, phase, recovered, reopened>>  OBVIOUS
\* The order has no event yet.
<1>4. /\ \A n \in DOMAIN execution :
            execution[n].order \in Orders /\ (o \notin reopened => execution[n].order # o)
      /\ \A n \in DOMAIN outbox :
            outbox[n].order \in Orders /\ (o \notin reopened => outbox[n].order # o)
      /\ \A d \in owed : d.order \in Orders /\ (o \notin reopened => d.order # o)
  <2>1. \A n \in DOMAIN execution :
            execution[n].order \in Orders /\ (o \notin reopened => execution[n].order # o)
    BY SequenceTypes DEF Emitted, Execution
  <2>2. \A n \in DOMAIN outbox :
            outbox[n].order \in Orders /\ (o \notin reopened => outbox[n].order # o)
    BY SequenceTypes DEF Committed, Event
  <2>3. \A d \in owed : d.order \in Orders /\ (o \notin reopened => d.order # o)
    BY DEF Owing, Types, Event
  <2> QED  BY <2>1, <2>2, <2>3
<1>5. Types'  BY <1>1, <1>2, <1>3 DEF Types
<1>6. OneCommand' /\ PlacesOpen' /\ Ended' /\ Started'
  BY <1>2, <1>3 DEF OneCommand, PlacesOpen, Ended, HasCancel, Started, Commands, OrderOf
<1>7. Named'
  BY ONLY Named, <1>1, <1>3, e.order = o,
          e.kind = "CANCEL" => e.command \in Commands /\ OrderOf(e.command) = o,
          e.kind = "TRADE" => e.command = 0
     DEF Named, Commands, OrderOf
<1>8. Emitted'
  BY ONLY Emitted, <1>1, <1>2, <1>3, <1>4, e.order = o,
          e.kind = "CANCEL" => (o \notin reopened => commands[e.command].status = "PENDING")
     DEF Emitted
<1>9. Committed' /\ Owing'
  BY ONLY Committed, Owing, <1>1, <1>2, <1>3, <1>4, e.order = o
     DEF Committed, Owing, ProcessedFor, Commands, OrderOf
<1> QED  BY <1>5, <1>6, <1>7, <1>8, <1>9

\* A trade takes its order out of the book and names no command.
LEMMA FillStep ==
    ASSUME IndInv, NEW o \in Orders, FillOrder(o)
    PROVE  IndInv'
<1> DEFINE e == [kind |-> "TRADE", order |-> o, command |-> 0]
<1>1. e \in Execution /\ e.order = o /\ e.kind = "TRADE" /\ e.command = 0
  BY DEF Execution
<1>2. Known'
  BY DEF FillOrder, IndInv, Known, dbVars, workerVars, processVars, Commands, OrderOf
<1>3. /\ phase # "replay" /\ place[o] = "book"
      /\ execution' = Append(execution, e) /\ place' = [place EXCEPT ![o] = "nowhere"]
      /\ UNCHANGED <<orderStatus, commands, outbox, owed, phase, recovered, reopened>>
  BY DEF FillOrder, EngineRuns, dbVars, workerVars, processVars
<1> HIDE DEF e
<1> QED  BY <1>1, <1>2, <1>3, Emission, Zenon

\* The engine cancels only an order it still has, so that its command is pending.
LEMMA ProcessCancelStep ==
    ASSUME IndInv, NEW q \in cancels, processCancel(q)
    PROVE  IndInv'
<1> USE DEF IndInv, dbVars, processVars
<1> DEFINE c == q.command
           o == OrderOf(c)
           e == [kind |-> "CANCEL", order |-> o, command |-> c]
<1>1. c \in Commands /\ c \in Nat /\ o \in Orders
  BY SequenceTypes DEF Known
<1>2. Known'
  BY DEF processCancel, Known, Commands, OrderOf
<1>3. /\ UNCHANGED <<orderStatus, commands, outbox, owed, phase, recovered, reopened>>
      /\ phase # "replay"
  BY DEF processCancel, EngineRuns
<1>4. CASE place[o] = "book"
  <2>1. e \in Execution /\ e.order = o /\ e.kind = "CANCEL" /\ e.command = c
    BY <1>1 DEF Execution
  \* Otherwise the order would be closed, or an event of it committed.
  <2>2. o \notin reopened => commands[c].status = "PENDING"
    BY <1>1, <1>4, SequenceTypes DEF Ended, HasCancel, Committed, Owing, PlacesOpen, Command
  <2>3. execution' = Append(execution, e) /\ place' = [place EXCEPT ![o] = "nowhere"]
    BY <1>4 DEF processCancel
  <2> HIDE DEF e
  <2> QED  BY <1>1, <1>2, <1>3, <1>4, <2>1, <2>2, <2>3, Emission, Zenon
<1>5. CASE place[o] # "book"
  <2>1. UNCHANGED coreVars
    BY <1>3, <1>5 DEF processCancel, coreVars
  <2> QED  BY <1>2, <1>3, <2>1, CoreUnchanged, SameProcess
<1> QED  BY <1>4, <1>5

\* The commands of the emitted events are pending: the transaction commits,
\* whether the writer learns of it or not.
LEMMA CommitStep ==
    ASSUME IndInv, InsertBatchAndMarkCancelCommands
    PROVE  IndInv'
<1> USE DEF IndInv, workerVars, processVars
<1> DEFINE moved == [n \in DOMAIN execution |->
                       [kind |-> execution[n].kind, order |-> execution[n].order]]
           shift == Len(outbox)
<1>1. /\ UNCHANGED <<orderStatus, owed, place, cancels, results, pc, checked, phase, recovered,
                     reopened>>
      /\ execution' = << >>
  BY DEF InsertBatchAndMarkCancelCommands, Fault
<1>2. /\ outbox' \in Seq(Event)
      /\ DOMAIN outbox' = 1 .. (Len(outbox) + Len(execution))
      /\ \A n \in DOMAIN outbox : outbox'[n] = outbox[n]
      /\ \A n \in DOMAIN execution : /\ outbox'[Len(outbox) + n].kind = execution[n].kind
                                     /\ outbox'[Len(outbox) + n].order = execution[n].order
  <2>1. moved \in Seq(Event) /\ Len(moved) = Len(execution)
    BY SequenceTypes DEF Execution, Event
  <2>2. outbox' = outbox \o moved  BY DEF InsertBatchAndMarkCancelCommands
  <2>3. \A n \in DOMAIN execution : /\ moved[n].kind = execution[n].kind
                                   /\ moved[n].order = execution[n].order
    OBVIOUS
  <2> HIDE DEF moved
  <2>4. outbox \in Seq(Event)  BY DEF Types
  <2>5. /\ outbox' \in Seq(Event) /\ Len(outbox') = Len(outbox) + Len(moved)
        /\ \A n \in 1 .. Len(outbox) + Len(moved) :
              outbox'[n] = IF n <= Len(outbox) THEN outbox[n] ELSE moved[n - Len(outbox)]
    BY <2>1, <2>2, <2>4, ConcatProperties, ZenonT(40)
  <2>6. DOMAIN outbox' = 1 .. (Len(outbox) + Len(execution))
    BY <2>1, <2>5, LenProperties
  <2>7. \A n \in DOMAIN outbox : outbox'[n] = outbox[n]
    BY <2>1, <2>5, SequenceTypes
  <2>8. ASSUME NEW n \in DOMAIN execution
        PROVE  outbox'[Len(outbox) + n] = moved[n]
    <3>1. /\ Len(outbox) + n \in 1 .. Len(outbox) + Len(moved)
          /\ ~(Len(outbox) + n <= Len(outbox)) /\ (Len(outbox) + n) - Len(outbox) = n
      BY <2>1, SequenceTypes
    <3> QED  BY <2>5, <3>1
  <2> QED  BY <2>3, <2>5, <2>6, <2>7, <2>8
<1>3. /\ commands' \in Seq(Command) /\ Commands' = Commands
      /\ \A c \in Commands :
            /\ commands'[c].order = commands[c].order
            /\ commands'[c].status = IF c \in CommandIDs(execution) THEN "PROCESSED"
                                     ELSE commands[c].status
  <2>1. commands' = [c \in Commands |-> IF c \in CommandIDs(execution)
                                        THEN [commands[c] EXCEPT !.status = "PROCESSED"]
                                        ELSE commands[c]]
    BY DEF InsertBatchAndMarkCancelCommands
  <2>2. \A c \in Commands : commands'[c] \in Command
    BY <2>1, SequenceTypes DEF Command
  <2>3. Commands' = Commands /\ commands' \in Seq(Command)
    BY <2>1, <2>2, SequenceTypes DEF Commands
  <2> QED  BY <2>1, <2>3, SequenceTypes DEF Command
<1> HIDE DEF moved
\* The committed commands are those of the emitted cancellations.
<1>4. \A c \in Commands : c \in CommandIDs(execution) <=>
          \E n \in DOMAIN execution : /\ execution[n].kind = "CANCEL"
                                      /\ execution[n].command = c
  <2>1. 0 \notin Commands  BY SequenceTypes
  <2> QED  BY <2>1, SequenceTypes DEF CommandIDs, Range, Named, Execution
<1>5. Types'  BY <1>1, <1>2, <1>3 DEF Types
<1>6. Known' /\ OneCommand' /\ PlacesOpen' /\ Named' /\ Emitted'
  BY <1>1, <1>3 DEF Known, OneCommand, PlacesOpen, Named, Emitted, OrderOf
<1>7. Started'
  BY <1>1, <1>3 DEF Started, OrderOf
<1>8. Committed' /\ Owing'
  <2>1. ASSUME NEW n \in DOMAIN outbox'
        PROVE  \/ n \in DOMAIN outbox /\ outbox'[n] = outbox[n]
               \/ \E m \in DOMAIN execution : /\ n = Len(outbox) + m
                                              /\ outbox'[n].kind = execution[m].kind
                                              /\ outbox'[n].order = execution[m].order
    <3>1. CASE n <= Len(outbox)  BY <1>2, <3>1, SequenceTypes
    <3>2. CASE n > Len(outbox)
      <4>1. n - Len(outbox) \in DOMAIN execution /\ n = Len(outbox) + (n - Len(outbox))
        BY <1>2, <3>2, SequenceTypes
      <4> QED  BY <1>2, <4>1
    <3> QED  BY <1>2, <3>1, <3>2, SequenceTypes
  <2>2. \A n \in DOMAIN outbox' : outbox'[n].order \notin reopened =>
            /\ place'[outbox'[n].order] = "nowhere" /\ orderStatus'[outbox'[n].order] = "PENDING"
    BY <1>1, <2>1 DEF Emitted, Committed
  <2>3. \A n \in DOMAIN outbox' : outbox'[n].order \notin reopened /\ outbox'[n].kind = "CANCEL" =>
            \E c \in Commands : /\ OrderOf(c) = outbox'[n].order
                                /\ commands'[c].status = "PROCESSED"
    BY <1>3, <1>4, <2>1 DEF Named, Committed, ProcessedFor
  <2>4. \A m, n \in DOMAIN outbox' :
            outbox'[n].order \notin reopened /\ outbox'[m].order = outbox'[n].order => m = n
    BY <2>1 DEF Emitted, Committed
  <2>5. Committed'
    BY <1>1, <1>3, <2>2, <2>3, <2>4 DEF Committed, ProcessedFor, OrderOf
  <2>6. \A d \in owed : d.order \notin reopened => \A n \in DOMAIN outbox' : outbox'[n].order # d.order
    BY <2>1 DEF Owing
  <2>7. \A o \in Orders : ProcessedFor(o) => ProcessedFor(o)'
    BY <1>3 DEF ProcessedFor, OrderOf
  <2>8. Owing'
    BY <1>1, <2>6, <2>7 DEF Owing, Types, Event
  <2> QED  BY <2>5, <2>8
<1>9. Ended'
  <2> SUFFICES ASSUME NEW c \in Commands, OrderOf(c) \notin reopened
               PROVE  /\ commands'[c].status = "PROCESSED" =>
                            \/ orderStatus[OrderOf(c)] = "CANCELLED"
                            \/ \E n \in DOMAIN outbox' : /\ outbox'[n].kind = "CANCEL"
                                                         /\ outbox'[n].order = OrderOf(c)
                            \/ \E d \in owed : d.kind = "CANCEL" /\ d.order = OrderOf(c)
                      /\ commands'[c].status = "NOOP" =>
                            orderStatus[OrderOf(c)] \in {"FILLED", "REJECTED"}
                      /\ orderStatus[OrderOf(c)] = "CANCELLED" =>
                            commands'[c].status = "PROCESSED"
    BY <1>1, <1>3 DEF Ended, HasCancel, OrderOf
  <2>1. CASE c \in CommandIDs(execution)
    <3>1. PICK n \in DOMAIN execution : /\ execution[n].kind = "CANCEL"
                                       /\ execution[n].command = c
      BY <1>4, <2>1
    <3>2. execution[n].order = OrderOf(c)  BY <3>1 DEF Named
    <3>3. Len(outbox) + n \in DOMAIN outbox'  BY <1>2, SequenceTypes
    <3> QED  BY <1>2, <1>3, <2>1, <3>1, <3>2, <3>3
  <2>2. CASE c \notin CommandIDs(execution)
    <3>1. commands'[c].status = commands[c].status  BY <1>3, <2>2
    <3>2. DOMAIN outbox \subseteq DOMAIN outbox'  BY <1>2, SequenceTypes
    <3> QED  BY <1>2, <3>1, <3>2 DEF Ended, HasCancel
  <2> QED  BY <2>1, <2>2
<1> QED  BY <1>5, <1>6, <1>7, <1>8, <1>9

=============================================================================
