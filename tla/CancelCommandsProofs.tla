------------------------ MODULE CancelCommandsProofs ------------------------
(***************************************************************************)
(* Proof that the status of a cancel command never contradicts the events  *)
(* of its order, for every number of orders, faults and restarts.          *)
(***************************************************************************)
EXTENDS CancelCommandsInvariant

(* What becomes of a committed event.                                     *)

\* The first event leaves the outbox.
LEMMA OutboxTail ==
    ASSUME Types, outbox # << >>, outbox' = Tail(outbox)
    PROVE  /\ 1 \in DOMAIN outbox /\ Head(outbox) = outbox[1] /\ Head(outbox) \in Event
           /\ outbox' \in Seq(Event)
           /\ DOMAIN outbox' \subseteq Nat
           /\ \A n \in DOMAIN outbox' :
                 n + 1 \in DOMAIN outbox /\ n + 1 # 1 /\ outbox'[n] = outbox[n + 1]
           /\ \A n \in DOMAIN outbox \ {1} : n - 1 \in DOMAIN outbox' /\ outbox'[n - 1] = outbox[n]
<1>1. 1 \in DOMAIN outbox /\ Head(outbox) = outbox[1] /\ Head(outbox) \in Event
  BY SequenceTypes, HeadTailProperties DEF Types
<1>2. /\ outbox' \in Seq(Event) /\ Len(outbox') = Len(outbox) - 1
      /\ \A n \in 1 .. Len(outbox') : outbox'[n] = outbox[n + 1]
  BY HeadTailProperties DEF Types
<1>3. DOMAIN outbox' = 1 .. (Len(outbox) - 1)  BY <1>2, LenProperties
<1> QED  BY <1>1, <1>2, <1>3, SequenceTypes

\* An event that takes effect closes its order if that is open.
LEMMA Effect ==
    ASSUME Types, NEW e \in Event, TakeEffect(e)
    PROVE  /\ orderStatus' \in [Orders -> {"NONE", "PENDING"} \cup Final]
           /\ \A o \in Orders \ {e.order} : orderStatus'[o] = orderStatus[o]
           /\ orderStatus[e.order] # "PENDING" => orderStatus'[e.order] = orderStatus[e.order]
           /\ orderStatus[e.order] = "PENDING" =>
                 orderStatus'[e.order] = IF e.kind = "CANCEL" THEN "CANCELLED" ELSE "FILLED"
BY DEF Types, TakeEffect, Settled, Event, Final

\* An event of which no copy is left takes effect. If its order is one of those
\* the invariant is about, the order has no other event.
LEMMA TakesEffect ==
    ASSUME IndInv, NEW e \in Event, TakeEffect(e),
           outbox' \in Seq(Event), owed' \subseteq owed,
           UNCHANGED <<commands, place, execution, cancels, results, pc, checked, phase,
                       recovered, reopened>>,
           e.order \notin reopened =>
               /\ place[e.order] = "nowhere" /\ orderStatus[e.order] = "PENDING"
               /\ e.kind = "CANCEL" => ProcessedFor(e.order)
               /\ \A n \in DOMAIN outbox' : outbox'[n].order # e.order
               /\ \A d \in owed' : d.order # e.order
               /\ \A n \in DOMAIN execution : execution[n].order # e.order
               /\ HasCancel(e.order) => e.kind = "CANCEL",
           \A n \in DOMAIN outbox' : \E m \in DOMAIN outbox : outbox'[n] = outbox[m],
           \A m, n \in DOMAIN outbox' :
               outbox'[n].order \notin reopened /\ outbox'[m].order = outbox'[n].order => m = n,
           \A o \in Orders \ {e.order} : HasCancel(o) => HasCancel(o)'
    PROVE  IndInv'
<1> USE DEF IndInv
<1> DEFINE same == UNCHANGED <<commands, place, execution, cancels, results, pc, checked, phase,
                               recovered, reopened>>
<1>1. same  OBVIOUS
<1> HIDE DEF same
<1>2. /\ orderStatus' \in [Orders -> {"NONE", "PENDING"} \cup Final]
      /\ \A o \in Orders \ {e.order} : orderStatus'[o] = orderStatus[o]
      /\ orderStatus[e.order] # "PENDING" => orderStatus'[e.order] = orderStatus[e.order]
      /\ orderStatus[e.order] = "PENDING" =>
            orderStatus'[e.order] = IF e.kind = "CANCEL" THEN "CANCELLED" ELSE "FILLED"
  BY Effect
<1>3. Types'  BY <1>1, <1>2 DEF Types, same
<1>4. Known' /\ OneCommand' /\ PlacesOpen' /\ Started'
  <2>1. \A c \in Commands : OrderOf(c) \in Orders  BY SequenceTypes
  <2>2. \A o \in Orders : /\ orderStatus[o] \in Final => orderStatus'[o] \in Final
                          /\ orderStatus[o] # "NONE" => orderStatus'[o] # "NONE"
    BY <1>2 DEF Final
  <2>3. Known' /\ OneCommand' /\ Started'
    BY <1>1, <2>1, <2>2 DEF same, Known, OneCommand, Started, Commands, OrderOf
  <2>4. PlacesOpen'
    BY <1>1, <1>2 DEF same, PlacesOpen
  <2> QED  BY <2>3, <2>4
<1>5. Named' /\ Emitted'
  <2>1. \A n \in DOMAIN execution : execution[n].order \in Orders
    BY SequenceTypes DEF Execution
  <2> QED  BY <1>1, <1>2, <2>1 DEF same, Named, Emitted, Commands, OrderOf
<1>6. \A o : ProcessedFor(o)' = ProcessedFor(o)
  BY <1>1 DEF same, ProcessedFor, Commands, OrderOf
<1>7. Committed'
  <2>1. \A m \in DOMAIN outbox : outbox[m].order \in Orders
    BY SequenceTypes DEF Event
  <2> QED  BY <1>1, <1>2, <1>6, <2>1 DEF same, Committed
<1>8. Owing'
  <2>1. ASSUME NEW d \in owed', d.order \notin reopened
        PROVE  /\ place[d.order] = "nowhere" /\ orderStatus'[d.order] = "PENDING"
               /\ d.kind = "CANCEL" => ProcessedFor(d.order)
               /\ \A c \in owed' : c.order = d.order => c = d
               /\ \A n \in DOMAIN outbox' : outbox'[n].order # d.order
               /\ \A n \in DOMAIN execution : execution[n].order # d.order
    <3>1. d \in owed /\ d.order \in Orders  BY <2>1 DEF Types, Event
    <3>2. /\ place[d.order] = "nowhere" /\ orderStatus[d.order] = "PENDING"
          /\ d.kind = "CANCEL" => ProcessedFor(d.order)
          /\ \A c \in owed : c.order = d.order => c = d
          /\ \A n \in DOMAIN outbox : outbox[n].order # d.order
          /\ \A n \in DOMAIN execution : execution[n].order # d.order
      BY <2>1, <3>1 DEF Owing
    <3>3. d.order # e.order  BY <2>1
    <3>4. orderStatus'[d.order] = "PENDING"  BY <1>2, <3>1, <3>2, <3>3
    <3>5. \A n \in DOMAIN outbox' : outbox'[n].order # d.order  BY <3>2
    <3> QED  BY <3>2, <3>4, <3>5
  <2> QED  BY ONLY <1>1, <1>6, <2>1 DEF same, Owing
<1>9. Ended'
  <2> SUFFICES ASSUME NEW c \in Commands, NEW o, o = OrderOf(c), o \notin reopened
               PROVE  /\ commands[c].status = "PROCESSED" =>
                            orderStatus'[o] = "CANCELLED" \/ HasCancel(o)'
                      /\ commands[c].status = "NOOP" => orderStatus'[o] \in {"FILLED", "REJECTED"}
                      /\ orderStatus'[o] = "CANCELLED" => commands[c].status = "PROCESSED"
    BY <1>1 DEF same, Ended, Commands, OrderOf
  <2>0. o \in Orders  BY SequenceTypes
  <2>1. CASE o = e.order
    <3>1. commands[c].status # "NOOP"  BY <2>1, Zenon DEF Ended
    <3>2. commands[c].status = "PROCESSED" => e.kind = "CANCEL"
      BY <2>1, Zenon DEF Ended
    <3>3. e.kind = "CANCEL" => commands[c].status = "PROCESSED"
      BY <2>1, Zenon DEF ProcessedFor, OneCommand
    <3> QED  BY <1>2, <2>1, <3>1, <3>2, <3>3
  <2>2. CASE o # e.order
    BY <1>2, <2>0, <2>2 DEF Ended
  <2> QED  BY <2>1, <2>2
<1> QED  BY <1>3, <1>4, <1>5, <1>7, <1>8, <1>9

\* The next committed event takes effect, or is owed from then on.
LEMMA SettleStep ==
    ASSUME IndInv, Settle
    PROVE  IndInv'
<1> USE DEF IndInv, engineVars, workerVars, processVars
<1> DEFINE e == Head(outbox)
<1>1. /\ UNCHANGED <<commands, place, execution, cancels, results, pc, checked, phase, recovered,
                     reopened>>
      /\ outbox' = Tail(outbox)
      /\ \/ TakeEffect(e) /\ owed' = owed
         \/ owed' = owed \cup {e} /\ orderStatus' = orderStatus
  BY DEF Settle, Fault
<1>2. outbox # << >>  BY DEF Settle
<1>3. /\ 1 \in DOMAIN outbox /\ e = outbox[1] /\ e \in Event
      /\ outbox' \in Seq(Event)
      /\ DOMAIN outbox' \subseteq Nat
      /\ \A n \in DOMAIN outbox' :
            n + 1 \in DOMAIN outbox /\ n + 1 # 1 /\ outbox'[n] = outbox[n + 1]
      /\ \A n \in DOMAIN outbox \ {1} : n - 1 \in DOMAIN outbox' /\ outbox'[n - 1] = outbox[n]
  BY <1>1, <1>2, OutboxTail
<1> HIDE DEF e
<1>4. \A m, n \in DOMAIN outbox' :
          outbox'[n].order \notin reopened /\ outbox'[m].order = outbox'[n].order => m = n
  <2>1. \A m, n \in DOMAIN outbox' :
            outbox'[n].order \notin reopened /\ outbox'[m].order = outbox'[n].order => m + 1 = n + 1
    BY <1>3 DEF Committed
  <2>2. \A m, n \in DOMAIN outbox' : m + 1 = n + 1 => m = n
    BY <1>3
  <2> QED  BY <2>1, <2>2
<1>5. e.order \notin reopened =>
          /\ place[e.order] = "nowhere" /\ orderStatus[e.order] = "PENDING"
          /\ e.kind = "CANCEL" => ProcessedFor(e.order)
          /\ \A n \in DOMAIN outbox' : outbox'[n].order # e.order
          /\ \A d \in owed : d.order # e.order
          /\ \A n \in DOMAIN execution : execution[n].order # e.order
          /\ HasCancel(e.order) => e.kind = "CANCEL"
  BY <1>3 DEF Committed, Owing, HasCancel
<1>6. CASE TakeEffect(e) /\ owed' = owed
  <2>1. \A n \in DOMAIN outbox' : \E m \in DOMAIN outbox : outbox'[n] = outbox[m]
    BY <1>3
  <2>2. \A o \in Orders \ {e.order} : HasCancel(o) => HasCancel(o)'
    BY <1>3, <1>6 DEF HasCancel
  <2> QED  BY <1>1, <1>3, <1>4, <1>5, <1>6, <2>1, <2>2, TakesEffect
<1>7. CASE owed' = owed \cup {e} /\ orderStatus' = orderStatus
  <2>1. Types'  BY <1>1, <1>3, <1>7 DEF Types
  <2>2. Known' /\ OneCommand' /\ PlacesOpen' /\ Named' /\ Emitted' /\ Started'
    BY <1>1, <1>7 DEF Known, OneCommand, PlacesOpen, Named, Emitted, Started, Commands, OrderOf
  <2>3. \A o : ProcessedFor(o)' = ProcessedFor(o)
    BY <1>1 DEF ProcessedFor, Commands, OrderOf
  <2>4. Committed'
    BY <1>1, <1>3, <1>4, <1>7, <2>3 DEF Committed
  <2>5. \A d \in owed : d.order \notin reopened =>
            d.order # e.order /\ \A n \in DOMAIN outbox' : outbox'[n].order # d.order
    BY <1>3 DEF Owing
  <2>6. Owing'
    <3> SUFFICES ASSUME NEW d \in owed', d.order \notin reopened
                 PROVE  /\ place[d.order] = "nowhere" /\ orderStatus[d.order] = "PENDING"
                        /\ d.kind = "CANCEL" => ProcessedFor(d.order)
                        /\ \A c \in owed' : c.order = d.order => c = d
                        /\ \A n \in DOMAIN outbox' : outbox'[n].order # d.order
                        /\ \A n \in DOMAIN execution : execution[n].order # d.order
      BY <1>1, <1>7, <2>3 DEF Owing
    <3>1. CASE d = e
      <4>1. \A c \in owed' : c.order = e.order => c = e  BY <1>5, <1>7, <3>1
      <4> QED  BY <1>5, <3>1, <4>1
    <3>2. CASE d # e
      <4>1. d \in owed  BY <1>7, <3>2
      <4>2. d.order # e.order /\ \A n \in DOMAIN outbox' : outbox'[n].order # d.order
        BY <2>5, <4>1
      <4>3. \A c \in owed' : c.order = d.order => c = d
        BY <1>7, <4>1, <4>2 DEF Owing
      <4> QED  BY <4>1, <4>2, <4>3 DEF Owing
    <3> QED  BY <3>1, <3>2
  <2>7. \A o : HasCancel(o) => HasCancel(o)'
    BY <1>3, <1>7 DEF HasCancel
  <2>8. Ended'
    BY <1>1, <1>7, <2>7 DEF Ended, Commands, OrderOf
  <2> QED  BY <2>1, <2>2, <2>4, <2>6, <2>8
<1> QED  BY <1>1, <1>6, <1>7

\* An event that was owed takes effect.
LEMMA RetryStep ==
    ASSUME IndInv, NEW e \in owed, RetryOwed(e)
    PROVE  IndInv'
<1> USE DEF IndInv, engineVars, workerVars, processVars
<1>1. /\ UNCHANGED <<commands, outbox, place, execution, cancels, results, pc, checked, phase,
                     recovered, reopened>>
      /\ TakeEffect(e) /\ owed' = owed \ {e}
  BY DEF RetryOwed
<1>2. e \in Event /\ outbox' \in Seq(Event) /\ owed' \subseteq owed
  BY <1>1 DEF Types
<1>3. e.order \notin reopened =>
          /\ place[e.order] = "nowhere" /\ orderStatus[e.order] = "PENDING"
          /\ e.kind = "CANCEL" => ProcessedFor(e.order)
          /\ \A n \in DOMAIN outbox' : outbox'[n].order # e.order
          /\ \A d \in owed' : d.order # e.order
          /\ \A n \in DOMAIN execution : execution[n].order # e.order
          /\ HasCancel(e.order) => e.kind = "CANCEL"
  BY <1>1 DEF Owing, HasCancel
<1>4. \A m, n \in DOMAIN outbox' :
          outbox'[n].order \notin reopened /\ outbox'[m].order = outbox'[n].order => m = n
  BY <1>1 DEF Committed
<1>5. \A o \in Orders \ {e.order} : HasCancel(o) => HasCancel(o)'
  BY <1>1 DEF HasCancel
<1>6. \A n \in DOMAIN outbox' : \E m \in DOMAIN outbox : outbox'[n] = outbox[m]
  BY <1>1
<1> QED  BY <1>1, <1>2, <1>3, <1>4, <1>5, <1>6, TakesEffect

\* An order that is closed with a pending command was not cancelled.
LEMMA NoopStep ==
    ASSUME IndInv, MarkNoop
    PROVE  IndInv'
<1> USE DEF IndInv, engineVars, processVars
<1>1. /\ UNCHANGED <<orderStatus, outbox, owed, place, execution, cancels, results, phase,
                     recovered, reopened>>
      /\ pc' = "release" /\ pc = "noop"
  BY DEF MarkNoop, Fault
<1>2. checked \in Commands /\ orderStatus[OrderOf(checked)] \in Final
  BY <1>1 DEF Known
<1>3. /\ commands' \in Seq(Command) /\ Commands' = Commands
      /\ \A c \in Commands :
            /\ commands'[c].order = commands[c].order
            /\ \/ commands'[c].status = commands[c].status
               \/ /\ c = checked
                  /\ commands[c].status = "PENDING" /\ commands'[c].status = "NOOP"
  <2>1. CASE commands' = commands  BY <2>1 DEF Types, Commands
  <2>2. CASE commands' = [commands EXCEPT ![checked].status =
                             IF @ = "PENDING" THEN "NOOP" ELSE @]
    <3>1. \A c \in Commands : commands'[c] \in Command
      BY <1>2, <2>2, SequenceTypes DEF Command, Commands
    <3>2. Commands' = Commands  BY <2>2 DEF Commands
    <3>3. commands' \in Seq(Command)
      <4>1. commands' \in [1 .. Len(commands) -> Command] /\ Len(commands) \in Nat
        BY <2>2, <3>1, <3>2, SequenceTypes, Zenon DEF Commands
      <4> QED  BY ONLY <4>1
    <3> QED  BY <1>2, <2>2, <3>2, <3>3, SequenceTypes DEF Command, Commands
  <2> QED  BY <2>1, <2>2 DEF MarkNoop
<1>4. \A c \in Commands :
          commands'[c].status # commands[c].status /\ OrderOf(c) \notin reopened =>
              orderStatus[OrderOf(c)] \in {"FILLED", "REJECTED"}
  BY <1>2, <1>3 DEF Ended, Final
<1>5. Types'  BY <1>1, <1>3 DEF Types
<1>6. Known' /\ OneCommand' /\ PlacesOpen' /\ Started'
  <2>1. Known'  BY <1>1, <1>3 DEF Known, OrderOf
  <2>2. OneCommand'  BY <1>1, <1>3 DEF OneCommand, OrderOf
  <2>3. PlacesOpen'  BY <1>1 DEF PlacesOpen
  <2>4. Started'  BY <1>1, <1>3 DEF Started, OrderOf
  <2> QED  BY <2>1, <2>2, <2>3, <2>4
<1>7. Named' /\ Emitted'
  BY <1>1, <1>3, <1>4, SequenceTypes, SMTT(30) DEF Named, Emitted, OrderOf, Execution
<1>8. Committed' /\ Owing'
  <2>1. \A o : ProcessedFor(o) => ProcessedFor(o)'
    BY <1>3 DEF ProcessedFor, OrderOf
  <2> QED  BY <1>1, <2>1 DEF Committed, Owing
<1>9. Ended'
  BY <1>1, <1>3, <1>4 DEF Ended, HasCancel, OrderOf
<1> QED  BY <1>5, <1>6, <1>7, <1>8, <1>9

-----------------------------------------------------------------------------
(* Start, shutdown and crash.                                              *)

\* A restart forgets the engine and the worker and keeps the tables.
LEMMA LifecycleStep ==
    ASSUME IndInv,
           BootstrapOpenOrders \/ WaitUntilDrained \/ Shutdown \/ ShutdownComplete \/ Crash
    PROVE  IndInv'
<1> USE DEF IndInv, dbVars, engineVars, workerVars, processVars
<1>1. ASSUME BootstrapOpenOrders  PROVE IndInv'
  <2>1. /\ UNCHANGED <<orderStatus, commands, outbox, owed, cancels, execution, results, recovered>>
        /\ reopened' = reopened \cup {o \in Orders : /\ isCancellableOrderStatus(orderStatus[o])
                                                     /\ \E e \in owed : e.order = o}
        /\ outbox = << >> /\ execution = << >> /\ phase' = "barrier" /\ pc' = "select"
        /\ place' = [o \in Orders |-> IF isCancellableOrderStatus(orderStatus[o])
                                      THEN "intake" ELSE "nowhere"]
    BY <1>1 DEF BootstrapOpenOrders, Started
  <2>2. Types' /\ PlacesOpen'
    BY <2>1 DEF Types, PlacesOpen, isCancellableOrderStatus
  <2>3. Known' /\ OneCommand' /\ Named' /\ Emitted' /\ Committed' /\ Started'
    BY <2>1 DEF Known, OneCommand, Named, Emitted, Committed, Started, Commands, OrderOf
  \* An order with an event owed is open.
  <2>4. Owing'
    BY <2>1 DEF Owing, Types, Event, isCancellableOrderStatus
  <2>5. Ended'
    BY <2>1 DEF Ended, HasCancel, Commands, OrderOf
  <2> QED  BY <2>2, <2>3, <2>4, <2>5
<1>2. ASSUME WaitUntilDrained \/ Shutdown  PROVE IndInv'
  <2>1. UNCHANGED coreVars  BY <1>2 DEF WaitUntilDrained, Shutdown, coreVars
  <2>2. Known'
    BY <1>2 DEF WaitUntilDrained, Shutdown, Known, Commands, OrderOf
  <2>3. Started'
    BY <1>2 DEF WaitUntilDrained, Shutdown, Started, Pending, Commands, OrderOf
  <2> QED  BY <2>1, <2>2, <2>3, CoreUnchanged
<1>3. ASSUME Restart  PROVE IndInv'
  <2>1. /\ UNCHANGED <<orderStatus, commands, outbox, owed, reopened>>
        /\ cancels' = {} /\ execution' = << >> /\ results' = {}
        /\ phase' = "replay" /\ pc' = "stopped"
        /\ place' = [o \in Orders |-> "nowhere"]
        /\ recovered' = {OrderOf(c) : c \in Pending}
    BY <1>3 DEF Restart
  <2>2. Types' /\ PlacesOpen'
    BY <2>1 DEF Types, PlacesOpen
  <2>3. Known' /\ OneCommand' /\ Named' /\ Emitted' /\ Ended'
    BY <2>1 DEF Known, OneCommand, Named, Emitted, Ended, HasCancel, Commands, OrderOf
  <2>4. Committed'
    BY <2>1, SequenceTypes DEF Committed, ProcessedFor, Event, Commands, OrderOf
  <2>5. Owing'
    BY <2>1 DEF Owing, ProcessedFor, Types, Event, Commands, OrderOf
  <2>6. Started'
    BY <2>1, SequenceTypes DEF Started, Pending, Commands, OrderOf
  <2> QED  BY <2>2, <2>3, <2>4, <2>5, <2>6
<1> QED  BY <1>1, <1>2, <1>3 DEF ShutdownComplete, Crash

-----------------------------------------------------------------------------
(* Theorems.                                                               *)

\* Every step keeps the invariant.
LEMMA NextIndInv == IndInv /\ [Next]_vars => IndInv'
<1> SUFFICES ASSUME IndInv, [Next]_vars  PROVE IndInv'
  OBVIOUS
<1>1. CASE UNCHANGED vars
  <2>1. UNCHANGED coreVars /\ UNCHANGED <<phase, recovered, cancels, results, pc, checked>>
    BY <1>1 DEF vars, dbVars, engineVars, workerVars, processVars, coreVars
  <2>2. Known'  BY <2>1 DEF IndInv, Known, coreVars, Commands, OrderOf
  <2> QED  BY <2>1, <2>2, CoreUnchanged, SameProcess
<1>2. ASSUME NEW o \in Orders,
             \/ StoreOrder(o) \/ SubmitOrder(o) \/ RejectOrder(o) \/ CancelOrder(o)
             \/ TakeOrder(o) \/ FillOrder(o)
      PROVE  IndInv'
  BY <1>2, OrderStep, CancelStep, FillStep
<1>3. ASSUME NEW q \in cancels, processCancel(q) \/ CancelTimesOut(q)  PROVE IndInv'
  BY <1>3, ProcessCancelStep, TimerStep
<1>4. CASE InsertBatchAndMarkCancelCommands \/ Settle \/ \E e \in owed : RetryOwed(e)
  BY <1>4, CommitStep, SettleStep, RetryStep
<1>5. CASE \E c \in Commands : nextAttemptAt(c)
  BY <1>5, TimerStep
<1>6. CASE Worker
  <2>1. CASE MarkNoop  BY <2>1, NoopStep
  <2>2. CASE ~MarkNoop
    <3>1. pc # "noop"
      BY <1>6, <2>2 DEF Worker, ReceiveResult, Tick, releaseCompleted, dispatchReady,
                        drainDispatches
    <3> QED  BY <1>6, <3>1, WorkerStep
  <2> QED  BY <2>1, <2>2
<1>7. CASE BootstrapOpenOrders \/ WaitUntilDrained \/ Shutdown \/ ShutdownComplete \/ Crash
  BY <1>7, LifecycleStep
<1> QED  BY <1>1, <1>2, <1>3, <1>4, <1>5, <1>6, <1>7 DEF Next

\* IndInv is an inductive invariant of the cancel path.
THEOREM CancelInvariant == Spec => []IndInv
BY InitIndInv, NextIndInv, PTL DEF Spec

\* The status of a command never contradicts the events of its order
\* (applyNotFound, MarkNoop and InsertBatchAndMarkCancelCommands), for every
\* set of orders and every number of engine calls, faults and restarts.
THEOREM StatusTruthful == Spec => []CommandsTruthful
<1>1. IndInv => CommandsTruthful
  <2> SUFFICES ASSUME IndInv, NEW c \in Commands, OrderOf(c) \notin reopened
               PROVE  /\ commands[c].status = "PENDING" => \A m, n \in EventsOf(c) : m = n
                      /\ commands[c].status = "PROCESSED" =>
                            /\ EventsOf(c) = {}
                            /\ \/ orderStatus[OrderOf(c)] = "CANCELLED"
                               \/ [kind |-> "CANCEL", order |-> OrderOf(c)] \in
                                     Range(outbox) \cup owed
                      /\ commands[c].status = "NOOP" =>
                            /\ EventsOf(c) = {} /\ place[OrderOf(c)] = "nowhere"
                            /\ orderStatus[OrderOf(c)] \in {"FILLED", "REJECTED"}
    BY SequenceTypes, Zenon DEF IndInv, CommandsTruthful, Command
  <2> USE DEF IndInv
  <2>1. /\ 0 \notin Commands
        /\ OrderOf(c) \in Orders
        /\ \A n \in DOMAIN execution : execution[n].kind \in {"TRADE", "CANCEL"}
        /\ \A n \in DOMAIN outbox : outbox[n] = [kind |-> outbox[n].kind, order |-> outbox[n].order]
        /\ \A e \in owed : e = [kind |-> e.kind, order |-> e.order]
    BY SequenceTypes DEF Execution, Event, Types
  <2>2. \A n \in EventsOf(c) : /\ execution[n].order = OrderOf(c)
                               /\ commands[c].status = "PENDING"
    BY <2>1 DEF EventsOf, Named, Emitted
  <2>3. \A m, n \in EventsOf(c) : m = n
    BY <2>2 DEF EventsOf, Emitted
  <2>4. ASSUME commands[c].status = "PROCESSED", orderStatus[OrderOf(c)] # "CANCELLED"
        PROVE  [kind |-> "CANCEL", order |-> OrderOf(c)] \in Range(outbox) \cup owed
    <3>1. \/ \E n \in DOMAIN outbox : outbox[n].kind = "CANCEL" /\ outbox[n].order = OrderOf(c)
          \/ \E e \in owed : e.kind = "CANCEL" /\ e.order = OrderOf(c)
      BY <2>4 DEF Ended, HasCancel
    <3> QED  BY <2>1, <3>1 DEF Range
  <2>5. commands[c].status = "NOOP" => /\ place[OrderOf(c)] = "nowhere"
                                       /\ orderStatus[OrderOf(c)] \in {"FILLED", "REJECTED"}
    BY <2>1 DEF Ended, PlacesOpen
  <2> QED  BY <2>2, <2>3, <2>4, <2>5
<1> QED  BY CancelInvariant, <1>1, PTL

\* The transaction that commits emitted events never meets a command that is
\* not pending, unless a start gave the order to the engine with an event owed:
\* the row count of InsertBatchAndMarkCancelCommands rolls no other batch back
\* that is not committed already.
THEOREM BatchesCommit ==
    Spec => [](\A c \in CommandIDs(execution) : OrderOf(c) \notin reopened => c \in Pending)
<1>1. IndInv => \A c \in CommandIDs(execution) : OrderOf(c) \notin reopened => c \in Pending
  BY SequenceTypes DEF IndInv, Named, Emitted, CommandIDs, Pending, Range, Execution
<1> QED  BY CancelInvariant, <1>1, PTL

\* After a restart, HTTP opens only when the orders whose command was pending are
\* out of the engine, but for those that an event was owed to
\* (runCancelCommandStartupBarrier).
THEOREM RecoveredFirst == Spec => []RecoveredCancelsFirst
<1>1. IndInv => RecoveredCancelsFirst
  <2> SUFFICES ASSUME IndInv, phase = "open", NEW o \in recovered \ reopened
               PROVE  place[o] = "nowhere"
    BY DEF RecoveredCancelsFirst
  <2> USE DEF IndInv
  <2>1. PICK c \in Commands : OrderOf(c) = o  BY DEF Started
  <2>2. commands[c].status \in {"PROCESSED", "NOOP"}
    BY <2>1, SequenceTypes DEF Started, Command
  <2> QED  BY <2>1, <2>2, SequenceTypes DEF Ended, HasCancel, Committed, Owing, PlacesOpen
<1> QED  BY CancelInvariant, <1>1, PTL
=============================================================================
