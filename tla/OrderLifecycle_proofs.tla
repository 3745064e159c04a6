----------------------- MODULE OrderLifecycle_proofs -----------------------
(***************************************************************************)
(* Theorems about OrderLifecycle for every set of orders, every choice of  *)
(* sides and quantities and every number of faults.                        *)
(***************************************************************************)
EXTENDS OrderLifecycle, SequenceTheorems, FiniteSetTheorems, TLAPS

-----------------------------------------------------------------------------
(* The operators the model is built from *)

\* The table operators keep the orders table a table.
LEMMA TableTypes ==
  ASSUME NEW t \in [Orders -> OrderRow], NEW o \in Orders,
         NEW s \in RowStatuses
  PROVE  /\ SaveIntent(t, o) \in [Orders -> OrderRow]
         /\ MarkSubmitted(t, o) \in [Orders -> OrderRow]
         /\ UpdateStatus(t, o, s) \in [Orders -> OrderRow]
BY DEF OrderRow, RowStatuses, OpenStatuses, SaveIntent, MarkSubmitted, UpdateStatus

\* A net quantity over finitely many fills is an integer.
LEMMA NetQuantityType ==
  ASSUME NEW f, IsFiniteSet(f)
  PROVE  NetQuantity(f) \in Int
<1> DEFINE buys == {x \in f : Side[x[1]] = "buy"}
<1> DEFINE sells == {x \in f : Side[x[1]] = "sell"}
<1>1. IsFiniteSet(buys) /\ IsFiniteSet(sells)
  BY FS_Subset
<1>2. Cardinality(buys) \in Nat /\ Cardinality(sells) \in Nat
  <2> HIDE DEF buys, sells
  <2>1. QED
    BY <1>1, FS_CardinalityType
<1>3. NetQuantity(f) = Cardinality(buys) - Cardinality(sells)
  BY DEF NetQuantity
<1>4. QED
  <2> HIDE DEF buys, sells
  <2>1. QED
    BY <1>2, <1>3

\* What it is to be an execution.
LEMMA ExecutionsMember ==
  ASSUME NEW x
  PROVE  x \in Executions <=> \E o \in Orders : \E k \in 1..filled[o] : x = <<o, k>>
BY DEF Executions

\* What the venue sends keeps the queue a sequence of events.
LEMMA EmitType ==
  ASSUME NEW type \in EventTypes, NEW o \in Orders, NEW stamp \in Nat,
         queue \in Seq(Events), Emit(type, o, stamp)
  PROVE  /\ queue' \in Seq(Events)
         /\ queue # << >> => queue' # << >>
<1>1. [type |-> type, order |-> o, stamp |-> stamp] \in Events
  BY DEF Events
<1>2. /\ Append(queue, [type |-> type, order |-> o, stamp |-> stamp]) \in Seq(Events)
      /\ Append(queue, [type |-> type, order |-> o, stamp |-> stamp]) # << >>
  BY <1>1, AppendProperties
<1>3. QED
  BY <1>2 DEF Emit

\* What is left of the queue once its head is handled, or once the connection
\* is gone, is a queue.
LEMMA QueueTypes ==
  ASSUME queue \in Seq(Events), queue # << >>
  PROVE  /\ Head(queue) \in Events
         /\ Tail(queue) \in Seq(Events)
         /\ <<Head(queue)>> \in Seq(Events)
BY HeadTailProperties

\* The statuses that events and reconciliation write are statuses of a row.
LEMMA StatusTypes ==
  /\ \A type \in EventTypes : EventStatus(type) \in RowStatuses
  /\ \A o \in Orders : GhostStatus(o) \in RowStatuses
BY DEF EventTypes, FillEvents, EndEvents, EventStatus, GhostStatus,
       RowStatuses, OpenStatuses, TerminalStatuses

\* Reports of executions are pairs of an order and a timestamp.
LEMMA ReportedType ==
  ASSUME NEW q \in Seq(Events)
  PROVE  Reported(q) \subseteq Orders \X Nat
<1>1. \A i \in DOMAIN q : q[i] \in Events
  BY ElementOfSeq, LenProperties
<1>2. QED
  BY <1>1 DEF Reported, Events

-----------------------------------------------------------------------------
(* Types *)

FiniteOK == IsFiniteSet(fills) /\ IsFiniteSet(Executions)
TypeInv == TypeOK /\ FiniteOK

LEMMA TypeInit == Init => TypeInv
<1> SUFFICES ASSUME Init PROVE TypeInv
  OBVIOUS
<1>1. TypeOK
  <2>1. << >> \in Seq(Events)
    BY EmptySeq
  <2>2. QED
    BY <2>1, MaxFaultsAssumption
    DEF Init, TypeOK, OrderRow, RowStatuses, VenueStatuses, HandlerStates,
        SubmitterStates, ReconcileStates, Reconcilers
<1>2. Executions = {}
  BY ExecutionsMember DEF Init
<1>3. FiniteOK
  BY <1>2, FS_EmptySet DEF FiniteOK, Init
<1>4. QED
  BY <1>1, <1>3 DEF TypeInv

LEMMA VenueType == ASSUME TypeInv, VenueNext PROVE TypeOK'
<1>1. PICK o \in Orders : \/ VenueExecute(o)
                          \/ \E type \in EndEvents : VenueEnds(o, type)
                          \/ ForeignOrder(o)
  BY DEF VenueNext
<1> USE DEF TypeInv, TypeOK
<1>2. CASE VenueExecute(o)
  <2> DEFINE k == filled[o] + 1
  <2>1. k \in Nat /\ k # 0
    OBVIOUS
  <2>2. filled' \in [Orders -> Nat]
    BY <1>2, <2>1 DEF VenueExecute
  <2>3. vstatus' \in [Orders -> VenueStatuses]
    BY <1>2 DEF VenueExecute, VenueStatuses, OpenAtVenue
  <2>4. queue' \in Seq(Events) /\ (hpc # "idle" => queue' # << >>)
    <3>1. PICK stamp \in {k} \cup ({k - 1} \ {0}) :
            Emit(IF k = Qty[o] THEN "fill" ELSE "partial_fill", o, stamp)
      BY <1>2 DEF VenueExecute
    <3>2. stamp \in Nat
      BY <2>1
    <3>3. (IF k = Qty[o] THEN "fill" ELSE "partial_fill") \in EventTypes
      BY DEF EventTypes, FillEvents
    <3>4. QED
      BY <3>1, <3>2, <3>3, EmitType
  <2>5. lost' \subseteq Orders \X Nat
    BY <1>2, <2>1 DEF VenueExecute
  <2>6. QED
    BY <1>2, <2>2, <2>3, <2>4, <2>5 DEF VenueExecute, store, recon
<1>3. ASSUME NEW type \in EndEvents, VenueEnds(o, type) PROVE TypeOK'
  <2>1. queue' \in Seq(Events) /\ (hpc # "idle" => queue' # << >>)
    BY <1>3, EmitType DEF VenueEnds, EventTypes
  <2>2. vstatus' \in [Orders -> VenueStatuses]
    BY <1>3 DEF VenueEnds, VenueStatuses
  <2>3. QED
    BY <1>3, <2>1, <2>2 DEF VenueEnds, store, recon, history
<1>4. CASE ForeignOrder(o)
  <2>1. queue' \in Seq(Events) /\ (hpc # "idle" => queue' # << >>)
    BY <1>4, EmitType DEF ForeignOrder, Accept, EventTypes
  <2>2. vstatus' \in [Orders -> VenueStatuses]
    BY <1>4 DEF ForeignOrder, Accept, VenueStatuses, OpenAtVenue
  <2>3. QED
    BY <1>4, <2>1, <2>2 DEF ForeignOrder, store, recon, history
<1>5. QED
  BY <1>1, <1>2, <1>3, <1>4

LEMMA SubmitterType == ASSUME TypeInv, SubmitterNext PROVE TypeOK'
<1>1. PICK o \in Orders :
        \/ Submit(o) \/ RestAccepts(o) \/ RestRefuses(o) \/ RestServerError(o)
        \/ RestTimeout(o) \/ RecordSubmitted(o) \/ RecordRejected(o)
        \/ Cancel(o) \/ CancelFails(o) \/ RecordCanceled(o)
        \/ SubmitterCrash(o)
  BY DEF SubmitterNext
<1> USE DEF TypeInv, TypeOK
<1>2. \A s \in SubmitterStates : [spc EXCEPT ![o] = s] \in [Orders -> SubmitterStates]
  OBVIOUS
<1>3. {"rest", "mark", "reject", "ok", "cancel", "done", "failed", "dead"} \subseteq SubmitterStates
  BY DEF SubmitterStates
<1>4. {"rejected", "canceled"} \subseteq RowStatuses
  BY DEF RowStatuses, TerminalStatuses
<1>5. ASSUME MaybeAccept(o)
      PROVE  /\ vstatus' \in [Orders -> VenueStatuses]
             /\ queue' \in Seq(Events) /\ (hpc # "idle" => queue' # << >>)
  <2>1. CASE Accept(o)
    <3>1. vstatus' \in [Orders -> VenueStatuses]
      BY <2>1 DEF Accept, VenueStatuses, OpenAtVenue
    <3>2. QED
      BY <2>1, <3>1, EmitType DEF Accept, EventTypes
  <2>2. QED
    BY <1>5, <2>1 DEF MaybeAccept
<1>6. Fault => faults' \in 0..MaxFaults
  BY MaxFaultsAssumption DEF Fault
<1>7. CASE Submit(o)
  BY <1>2, <1>3, <1>4, <1>7, TableTypes DEF Submit, venue, stream, recon, history
<1>8. CASE RestAccepts(o)
  BY <1>2, <1>3, <1>5, <1>8 DEF RestAccepts, MaybeAccept, store, recon, history
<1>9. CASE RestRefuses(o)
  BY <1>2, <1>3, <1>9 DEF RestRefuses, store, venue, stream, recon, history
<1>10. CASE RestServerError(o)
  BY <1>2, <1>3, <1>5, <1>6, <1>10 DEF RestServerError, store, recon
<1>11. CASE RestTimeout(o)
  BY <1>2, <1>3, <1>5, <1>6, <1>11 DEF RestTimeout, store, recon
<1>12. CASE RecordSubmitted(o)
  BY <1>2, <1>3, <1>4, <1>12, TableTypes DEF RecordSubmitted, venue, stream, recon, history
<1>13. CASE RecordRejected(o)
  BY <1>2, <1>3, <1>4, <1>13, TableTypes DEF RecordRejected, venue, stream, recon, history
<1>14. CASE Cancel(o)
  BY <1>2, <1>3, <1>14 DEF Cancel, store, venue, stream, recon, history
<1>15. CASE CancelFails(o)
  BY <1>2, <1>3, <1>6, <1>15 DEF CancelFails, store, venue, stream, recon
<1>16. CASE RecordCanceled(o)
  BY <1>2, <1>3, <1>4, <1>16, TableTypes DEF RecordCanceled, venue, stream, recon, history
<1>17. CASE SubmitterCrash(o)
  <2>1. MaybeAccept(o)
    BY <1>17 DEF SubmitterCrash, MaybeAccept
  <2>2. QED
    BY <1>2, <1>3, <1>5, <1>6, <1>17, <2>1 DEF SubmitterCrash, store, recon
<1>18. QED
  BY <1>1, <1>7, <1>8, <1>9, <1>10, <1>11, <1>12, <1>13, <1>14, <1>15, <1>16, <1>17

LEMMA StreamType == ASSUME TypeInv, StreamNext PROVE TypeOK'
<1> USE DEF TypeInv, TypeOK
<1>1. Fault => faults' \in 0..MaxFaults
  BY MaxFaultsAssumption DEF Fault
<1>2. CASE Connect
  BY <1>2 DEF Connect, store, venue, recon, history
<1>3. CASE LinkDrops
  <2>1. queue' \in Seq(Events) /\ (hpc # "idle" => queue' # << >>)
    BY <1>3, QueueTypes, EmptySeq DEF LinkDrops
  <2>2. lost' \subseteq Orders \X Nat
    BY <1>3, ReportedType DEF LinkDrops
  <2>3. QED
    BY <1>1, <1>3, <2>1, <2>2 DEF LinkDrops, store, venue, recon
<1>4. CASE LinkCloses
  BY <1>1, <1>4 DEF LinkCloses, store, venue, recon
<1>5. CASE Redeliver
  <2>1. PICK x \in Executions :
          Emit(IF x[2] = Qty[x[1]] THEN "fill" ELSE "partial_fill", x[1], x[2])
    BY <1>5 DEF Redeliver
  <2>2. x[1] \in Orders /\ x[2] \in Nat
    BY ExecutionsMember
  <2>3. (IF x[2] = Qty[x[1]] THEN "fill" ELSE "partial_fill") \in EventTypes
    BY DEF EventTypes, FillEvents
  <2>4. queue' \in Seq(Events) /\ (hpc # "idle" => queue' # << >>)
    BY <2>1, <2>2, <2>3, EmitType
  <2>5. QED
    BY <1>1, <1>5, <2>4 DEF Redeliver, store, venue, recon
<1>6. QED
  BY <1>2, <1>3, <1>4, <1>5 DEF StreamNext

LEMMA HandlerType == ASSUME TypeInv, HandlerNext PROVE TypeOK'
<1> USE DEF TypeInv, TypeOK, HandlerStep, HandlerStates, Event
<1>1. CASE EnsureOrder
  <2>1. Event \in Events /\ Event.order \in Orders
    BY <1>1, QueueTypes DEF EnsureOrder, Events
  <2>2. orders' \in [Orders -> OrderRow]
    BY <1>1, <2>1, TableTypes DEF EnsureOrder, RowStatuses
  <2>3. QED
    BY <1>1, <2>1, <2>2 DEF EnsureOrder, AfterBind, venue, recon, history
<1>7. CASE BindOrder
  <2>1. Event.order \in Orders
    BY <1>7, QueueTypes DEF BindOrder, Events
  <2>2. orders' \in [Orders -> OrderRow]
    BY <1>7, <2>1, TableTypes DEF BindOrder, RowStatuses
  <2>3. QED
    BY <1>7, <2>2 DEF BindOrder, AfterBind, venue, recon, history
<1>2. CASE PersistFill
  <2>1. Event.order \in Orders /\ Event.stamp \in Nat
    BY <1>2, QueueTypes DEF PersistFill, Events
  <2>2. QED
    BY <1>2, <2>1 DEF PersistFill, SaveFill, venue, recon, history
<1>3. CASE SetStatus
  <2>1. Event.order \in Orders /\ Event.type \in EventTypes
    BY <1>3, QueueTypes DEF SetStatus, Events
  <2>2. orders' \in [Orders -> OrderRow]
    BY <1>3, <2>1, TableTypes, StatusTypes DEF SetStatus
  <2>3. /\ queue' \in Seq(Events) /\ hpc' \in HandlerStates
        /\ hpc' # "idle" => queue' # << >>
    BY <1>3, QueueTypes DEF SetStatus
  <2>4. QED
    BY <1>3, <2>2, <2>3 DEF SetStatus, venue, recon, history
<1>4. CASE RebuildPosition
  <2>1. position' \in Int
    BY <1>4, NetQuantityType DEF RebuildPosition, FiniteOK
  <2>2. QED
    BY <1>4, <2>1, QueueTypes DEF RebuildPosition, venue, recon, history
<1>5. CASE HandlerRaises
  <2>1. lost' \subseteq Orders \X Nat
    BY <1>5, QueueTypes, ReportedType DEF HandlerRaises
  <2>2. faults' \in 0..MaxFaults
    BY <1>5, MaxFaultsAssumption DEF HandlerRaises, Fault
  <2>3. QED
    BY <1>5, <2>1, <2>2, QueueTypes DEF HandlerRaises, store, venue, recon
<1>6. QED
  BY <1>1, <1>2, <1>3, <1>4, <1>5, <1>7 DEF HandlerNext

\* Reconciler r, done or aborted, holds nothing.
LEMMA ForgetType ==
  ASSUME TypeInv, NEW r \in Reconcilers, Forget(r)
  PROVE  /\ rpc' \in [Reconcilers -> ReconcileStates]
         /\ snapOpen' \in [Reconcilers -> SUBSET Orders]
         /\ snapPos' \in [Reconcilers -> Int]
         /\ aliens' \in [Reconcilers -> SUBSET Orders]
         /\ ghosts' \in [Reconcilers -> SUBSET Orders]
         /\ strays' \in [Reconcilers -> SUBSET Orders]
         /\ localPos' \in [Reconcilers -> Int]
         /\ writes' \in [Reconcilers -> SUBSET (Orders \X RowStatuses)]
BY DEF TypeInv, TypeOK, Forget, ReconcileStates

LEMMA ExecutorType == ASSUME TypeInv, ExecutorNext PROVE TypeOK'
<1> USE DEF TypeInv, TypeOK
<1>1. "startup" \in Reconcilers /\ "cli" \in Reconcilers /\ "get_orders" \in ReconcileStates
  BY DEF Reconcilers, ReconcileStates
<1>2. CASE ExecutorStart
  BY <1>1, <1>2 DEF ExecutorStart, store, venue, stream
<1>3. CASE ExecutorCrash
  <2>1. lost' \subseteq Orders \X Nat
    BY <1>3, ReportedType DEF ExecutorCrash
  <2>2. faults' \in 0..MaxFaults
    BY <1>3, MaxFaultsAssumption DEF ExecutorCrash, Fault
  <2>3. << >> \in Seq(Events) /\ "idle" \in HandlerStates
    BY EmptySeq DEF HandlerStates
  <2>4. QED
    BY <1>1, <1>3, <2>1, <2>2, <2>3, ForgetType DEF ExecutorCrash, store, venue
<1>4. CASE CliReconcile
  BY <1>1, <1>4, MaxFaultsAssumption DEF CliReconcile, Fault, store, venue, stream
<1>5. QED
  BY <1>2, <1>3, <1>4 DEF ExecutorNext

LEMMA ReconcileType == ASSUME TypeInv, ReconcileNext PROVE TypeOK'
<1> USE DEF TypeInv, TypeOK
<1>1. PICK r \in Reconcilers :
        \/ GetOrders(r) \/ GetPositions(r) \/ ReadOpenOrders(r) \/ ReadPositions(r)
        \/ BindAlien(r) \/ ResolveGhost(r)
        \/ FinishReconcile(r) \/ ReconcileFails(r)
        \/ \E o \in Orders : \/ AdoptAlien(r, o) \/ AdoptionCollides(r, o)
                             \/ QueryGhost(r, o) \/ GhostUnresolved(r, o)
                             \/ RejectStray(r, o)
  BY DEF ReconcileNext
<1>2. \A from, to : ReconcileStep(r, from, to) /\ to \in ReconcileStates
                      => rpc' \in [Reconcilers -> ReconcileStates]
  BY DEF ReconcileStep
<1>3. {"get_positions", "open_orders", "all_positions", "repair", "adopt", "resolve"}
       \subseteq ReconcileStates
  BY DEF ReconcileStates
<1>4. Fault => faults' \in 0..MaxFaults
  BY MaxFaultsAssumption DEF Fault
<1>5. CASE GetOrders(r)
  BY <1>2, <1>3, <1>5 DEF GetOrders, VenueOpen, store, venue, stream, history
<1>6. CASE GetPositions(r)
  <2>1. VenuePosition \in Int
    BY NetQuantityType DEF VenuePosition, FiniteOK
  <2>2. QED
    BY <1>2, <1>3, <1>6, <2>1 DEF GetPositions, store, venue, stream, history
<1>7. CASE ReadOpenOrders(r)
  BY <1>2, <1>3, <1>7 DEF ReadOpenOrders, OpenRows, store, venue, stream, history
<1>8. CASE ReadPositions(r)
  BY <1>2, <1>3, <1>8 DEF ReadPositions, store, venue, stream, history
<1>9. CASE FinishReconcile(r)
  <2>1. position' \in Int /\ exec' \in {"down", "reconciling", "running"} /\ quiet' \subseteq Orders
    BY <1>9 DEF FinishReconcile
  <2>2. Forget(r) /\ UNCHANGED <<orders, fills, venue, stream, spc, lost, faults>>
    BY <1>9 DEF FinishReconcile
  <2>3. QED
    BY <2>1, <2>2, ForgetType DEF venue, stream
<1>10. CASE ReconcileFails(r)
  BY <1>4, <1>10, ForgetType DEF ReconcileFails, Abort, store, venue, stream
<1>11. ASSUME NEW o \in Orders, AdoptAlien(r, o) PROVE TypeOK'
  <2>1. orders' \in [Orders -> OrderRow]
    BY <1>11, TableTypes DEF AdoptAlien, RowStatuses
  <2>2. QED
    BY <1>2, <1>3, <1>11, <2>1 DEF AdoptAlien, RowStatuses, OpenStatuses, venue, stream, history
<1>12. ASSUME NEW o \in Orders, AdoptionCollides(r, o) PROVE TypeOK'
  BY <1>12, ForgetType DEF AdoptionCollides, Abort, store, venue, stream
<1>13. ASSUME NEW o \in Orders, QueryGhost(r, o) PROVE TypeOK'
  <2>1. GhostStatus(o) \in RowStatuses
    BY StatusTypes
  <2>2. writes' \in [Reconcilers -> SUBSET (Orders \X RowStatuses)]
    BY <1>13, <2>1 DEF QueryGhost
  <2>3. rpc' \in [Reconcilers -> ReconcileStates]
    BY <1>2, <1>3, <1>13 DEF QueryGhost
  <2>4. QED
    BY <1>13, <2>2, <2>3 DEF QueryGhost, store, venue, stream, history
<1>17. CASE BindAlien(r)
  <2>1. orders' \in [Orders -> OrderRow]
    <3>1. PICK w \in writes[r] : orders' = MarkSubmitted(orders, w[1])
      BY <1>17 DEF BindAlien
    <3>2. w[1] \in Orders /\ w[2] \in RowStatuses
      OBVIOUS
    <3>3. QED
      BY <3>1, <3>2, TableTypes
  <2>2. QED
    BY <1>2, <1>3, <1>17, <2>1 DEF BindAlien, venue, stream, history
<1>18. CASE ResolveGhost(r)
  <2>1. orders' \in [Orders -> OrderRow]
    <3>1. PICK w \in writes[r] : orders' = UpdateStatus(orders, w[1], w[2])
      BY <1>18 DEF ResolveGhost
    <3>2. w[1] \in Orders /\ w[2] \in RowStatuses
      OBVIOUS
    <3>3. QED
      BY <3>1, <3>2, TableTypes
  <2>2. QED
    BY <1>2, <1>3, <1>18, <2>1 DEF ResolveGhost, venue, stream, history
<1>14. ASSUME NEW o \in Orders, GhostUnresolved(r, o) PROVE TypeOK'
  BY <1>4, <1>14 DEF GhostUnresolved, store, venue, stream
<1>15. ASSUME NEW o \in Orders, RejectStray(r, o) PROVE TypeOK'
  <2>1. orders' \in [Orders -> OrderRow]
    BY <1>15, TableTypes DEF RejectStray, RowStatuses, TerminalStatuses
  <2>2. QED
    BY <1>15, <2>1 DEF RejectStray, venue, stream, history
<1>16. QED
  BY <1>1, <1>5, <1>6, <1>7, <1>8, <1>9, <1>10, <1>11, <1>12, <1>13, <1>14, <1>15,
     <1>17, <1>18

-----------------------------------------------------------------------------
(* What a step does to the venue and to the fills table *)

ReconcilerStep(r) ==
  \/ GetOrders(r) \/ GetPositions(r) \/ ReadOpenOrders(r) \/ ReadPositions(r)
  \/ BindAlien(r) \/ ResolveGhost(r)
  \/ FinishReconcile(r) \/ ReconcileFails(r)
  \/ \E o \in Orders : \/ AdoptAlien(r, o) \/ AdoptionCollides(r, o)
                       \/ QueryGhost(r, o) \/ GhostUnresolved(r, o)
                       \/ RejectStray(r, o)

\* A reconciler only reads the venue and the stream, and records no fill.
LEMMA ReconcileFrame ==
  ASSUME ReconcileNext
  PROVE  UNCHANGED <<vstatus, filled, queue, fills, spc>>
<1>1. PICK r \in Reconcilers : ReconcilerStep(r)
  BY DEF ReconcileNext, ReconcilerStep
<1>2. QED
  BY <1>1 DEF ReconcilerStep, GetOrders, GetPositions, ReadOpenOrders, ReadPositions,
              FinishReconcile, ReconcileFails, AdoptAlien, AdoptionCollides,
              BindAlien, QueryGhost, ResolveGhost, GhostUnresolved, RejectStray, store, venue, stream

\* Only an execution changes what is filled.
LEMMA FilledFrame ==
  ASSUME [Next]_vars
  PROVE  filled' = filled \/ \E o \in Orders : VenueExecute(o)
<1>1. CASE VenueNext
  BY <1>1 DEF VenueNext, VenueEnds, ForeignOrder
<1>2. CASE SubmitterNext
  BY <1>2 DEF SubmitterNext, Submit, RestAccepts, RestRefuses, RestServerError,
              RestTimeout, RecordSubmitted, RecordRejected, Cancel, CancelFails,
              RecordCanceled, SubmitterCrash, venue
<1>3. CASE StreamNext
  BY <1>3 DEF StreamNext, Connect, LinkDrops, LinkCloses, Redeliver, venue
<1>4. CASE HandlerNext
  BY <1>4 DEF HandlerNext, EnsureOrder, BindOrder, PersistFill, SetStatus, RebuildPosition,
              HandlerRaises, venue
<1>5. CASE ExecutorNext
  BY <1>5 DEF ExecutorNext, ExecutorStart, ExecutorCrash, CliReconcile, venue
<1>6. CASE ReconcileNext
  BY <1>6, ReconcileFrame
<1>7. CASE UNCHANGED vars
  BY <1>7 DEF vars, venue
<1>8. QED
  BY <1>1, <1>2, <1>3, <1>4, <1>5, <1>6, <1>7 DEF Next

\* Only the handler's PersistFill changes the fills table.
LEMMA FillsFrame ==
  ASSUME [Next]_vars
  PROVE  fills' = fills \/ PersistFill
<1>1. CASE VenueNext
  BY <1>1 DEF VenueNext, VenueExecute, VenueEnds, ForeignOrder, store
<1>2. CASE SubmitterNext
  BY <1>2 DEF SubmitterNext, Submit, RestAccepts, RestRefuses, RestServerError,
              RestTimeout, RecordSubmitted, RecordRejected, Cancel, CancelFails,
              RecordCanceled, SubmitterCrash, store
<1>3. CASE StreamNext
  BY <1>3 DEF StreamNext, Connect, LinkDrops, LinkCloses, Redeliver, store
<1>4. CASE HandlerNext
  BY <1>4 DEF HandlerNext, EnsureOrder, BindOrder, SetStatus, RebuildPosition, HandlerRaises, store
<1>5. CASE ExecutorNext
  BY <1>5 DEF ExecutorNext, ExecutorStart, ExecutorCrash, CliReconcile, store
<1>6. CASE ReconcileNext
  BY <1>6, ReconcileFrame
<1>7. CASE UNCHANGED vars
  BY <1>7 DEF vars, store
<1>8. QED
  BY <1>1, <1>2, <1>3, <1>4, <1>5, <1>6, <1>7 DEF Next

\* An execution of o adds one member to Executions.
LEMMA ExecuteAdds ==
  ASSUME TypeInv, NEW o \in Orders, VenueExecute(o)
  PROVE  Executions' = Executions \cup {<<o, filled[o] + 1>>}
<1>1. /\ filled \in [Orders -> Nat]
      /\ filled' = [filled EXCEPT ![o] = filled[o] + 1]
  BY DEF TypeInv, TypeOK, VenueExecute
<1>2. \A x : x \in Executions' <=> \E p \in Orders : \E k \in 1..filled'[p] : x = <<p, k>>
  BY DEF Executions
<1>3. \A p \in Orders : 1..filled'[p] = IF p = o THEN (1..filled[o]) \cup {filled[o] + 1}
                                              ELSE 1..filled[p]
  <2>1. \A n \in Nat : 1..(n + 1) = (1..n) \cup {n + 1}
    OBVIOUS
  <2>2. \A p \in Orders : filled'[p] = IF p = o THEN filled[o] + 1 ELSE filled[p]
    BY <1>1
  <2>3. QED
    BY <1>1, <2>1, <2>2
<1>4. QED
  BY <1>2, <1>3, ExecutionsMember

LEMMA FiniteStep == ASSUME TypeInv, [Next]_vars PROVE FiniteOK'
<1>1. IsFiniteSet(fills')
  <2>1. CASE fills' = fills
    BY <2>1 DEF TypeInv, FiniteOK
  <2>2. CASE PersistFill
    <3>1. fills' = fills \cup {<<Event.order, Event.stamp>>}
      BY <2>2 DEF PersistFill, SaveFill
    <3>2. QED
      BY <3>1, FS_AddElement DEF TypeInv, FiniteOK
  <2>3. QED
    BY <2>1, <2>2, FillsFrame
<1>2. IsFiniteSet(Executions')
  <2>1. CASE filled' = filled
    <3>1. Executions' = Executions
      BY <2>1 DEF Executions
    <3>2. QED
      BY <3>1 DEF TypeInv, FiniteOK
  <2>2. ASSUME NEW o \in Orders, VenueExecute(o) PROVE IsFiniteSet(Executions')
    <3>1. IsFiniteSet(Executions)
      BY DEF TypeInv, FiniteOK
    <3>2. Executions' = Executions \cup {<<o, filled[o] + 1>>}
      BY <2>2, ExecuteAdds
    <3>3. QED
      BY <3>1, <3>2, FS_AddElement
  <2>3. QED
    BY <2>1, <2>2, FilledFrame
<1>3. QED
  BY <1>1, <1>2 DEF FiniteOK

LEMMA TypeStep == ASSUME TypeInv, [Next]_vars PROVE TypeInv'
<1>1. CASE UNCHANGED vars
  <2>1. TypeOK'
    BY <1>1 DEF TypeInv, TypeOK, vars, store, venue, stream, recon, history
  <2>2. QED
    BY <2>1, FiniteStep DEF TypeInv
<1>2. CASE Next
  <2>1. TypeOK'
    BY <1>2, VenueType, SubmitterType, StreamType, HandlerType, ExecutorType,
       ReconcileType DEF Next
  <2>2. QED
    BY <2>1, FiniteStep DEF TypeInv
<1>3. QED
  BY <1>1, <1>2

LEMMA TypeInvariance == Spec => []TypeInv
<1>1. TypeInv /\ [Next]_vars => TypeInv'
  BY TypeStep
<1>2. QED
  BY TypeInit, <1>1, PTL DEF Spec

\* In every reachable state every table, queue and program counter of the
\* executor, the submitters and the reconcilers holds a value of its kind; in
\* particular the handler has an event in hand whenever it is not idle.
THEOREM TypeCorrect == Spec => []TypeOK
<1>1. TypeInv => TypeOK
  BY DEF TypeInv
<1>2. QED
  BY TypeInvariance, <1>1, PTL

-----------------------------------------------------------------------------
(* The venue only moves forward *)

\* How the venue's statuses change.
LEMMA VstatusFrame ==
  ASSUME [Next]_vars
  PROVE  \/ vstatus' = vstatus
         \/ \E o \in Orders : \/ Accept(o) /\ filled' = filled
                              \/ VenueExecute(o)
                              \/ \E type \in EndEvents : VenueEnds(o, type)
<1>1. CASE VenueNext
  BY <1>1 DEF VenueNext, ForeignOrder
<1>2. CASE SubmitterNext
  BY <1>2 DEF SubmitterNext, Submit, RestAccepts, RestRefuses, RestServerError,
              RestTimeout, RecordSubmitted, RecordRejected, Cancel, CancelFails,
              RecordCanceled, SubmitterCrash, MaybeAccept, venue
<1>3. CASE StreamNext
  BY <1>3 DEF StreamNext, Connect, LinkDrops, LinkCloses, Redeliver, venue
<1>4. CASE HandlerNext
  BY <1>4 DEF HandlerNext, EnsureOrder, BindOrder, PersistFill, SetStatus, RebuildPosition,
              HandlerRaises, venue
<1>5. CASE ExecutorNext
  BY <1>5 DEF ExecutorNext, ExecutorStart, ExecutorCrash, CliReconcile, venue
<1>6. CASE ReconcileNext
  BY <1>6, ReconcileFrame
<1>7. CASE UNCHANGED vars
  BY <1>7 DEF vars, venue
<1>8. QED
  BY <1>1, <1>2, <1>3, <1>4, <1>5, <1>6, <1>7 DEF Next

\* An order once accepted stays accepted, one filled completely stays filled,
\* and what has been executed stays executed.
LEMMA VenueMonotone ==
  ASSUME TypeInv, [Next]_vars
  PROVE  /\ Accepted \subseteq Accepted'
         /\ \A o \in Orders : vstatus[o] = "filled" => vstatus'[o] = "filled"
         /\ Executions \subseteq Executions'
<1>1. /\ Accepted \subseteq Accepted'
      /\ \A o \in Orders : vstatus[o] = "filled" => vstatus'[o] = "filled"
  <2>1. vstatus \in [Orders -> VenueStatuses]
    BY DEF TypeInv, TypeOK
  <2>2. CASE vstatus' = vstatus
    BY <2>2 DEF Accepted
  <2>3. ASSUME NEW o \in Orders, Accept(o) PROVE <1>1!:
    BY <2>1, <2>3 DEF Accept, Accepted
  <2>4. ASSUME NEW o \in Orders, VenueExecute(o) PROVE <1>1!:
    BY <2>1, <2>4 DEF VenueExecute, Accepted, OpenAtVenue
  <2>5. ASSUME NEW o \in Orders, NEW type \in EndEvents, VenueEnds(o, type) PROVE <1>1!:
    BY <2>1, <2>5 DEF VenueEnds, Accepted, OpenAtVenue
  <2>6. QED
    BY <2>2, <2>3, <2>4, <2>5, VstatusFrame
<1>2. Executions \subseteq Executions'
  <2>1. CASE filled' = filled
    BY <2>1 DEF Executions
  <2>2. ASSUME NEW o \in Orders, VenueExecute(o) PROVE Executions \subseteq Executions'
    BY <2>2, ExecuteAdds
  <2>3. QED
    BY <2>1, <2>2, FilledFrame
<1>3. QED
  BY <1>1, <1>2

\* What the venue has executed of an order agrees with its status.
VenueOK ==
  \A o \in Orders : /\ filled[o] > 0 => o \in Accepted
                    /\ filled[o] <= Qty[o]
                    /\ filled[o] = Qty[o] => vstatus[o] = "filled"

LEMMA VenueOKInit == Init => VenueOK
BY QtyAssumption DEF Init, VenueOK

LEMMA VenueOKStep == ASSUME TypeInv, VenueOK, [Next]_vars PROVE VenueOK'
<1>1. vstatus \in [Orders -> VenueStatuses] /\ filled \in [Orders -> Nat]
  BY DEF TypeInv, TypeOK
<1>2. CASE filled' = filled
  BY <1>1, <1>2, VenueMonotone DEF VenueOK
<1>3. ASSUME NEW o \in Orders, VenueExecute(o) PROVE VenueOK'
  BY <1>1, <1>3, QtyAssumption DEF VenueExecute, VenueOK, Accepted
<1>4. QED
  BY <1>2, <1>3, FilledFrame

-----------------------------------------------------------------------------
(* Nothing in the queue is made up *)

\* The events the venue's state bears out.
Genuine ==
  {e \in Events : /\ e.order \in Accepted
                  /\ e.type \in FillEvents => <<e.order, e.stamp>> \in Executions
                  /\ e.type = "fill" => vstatus[e.order] = "filled"}

QueueOK == queue \in Seq(Genuine)

\* An event once borne out remains so.
LEMMA GenuineMonotone ==
  ASSUME TypeInv, [Next]_vars
  PROVE  Genuine \subseteq Genuine'
<1>1. \A e \in Events : e.order \in Orders
  BY DEF Events
<1>2. QED
  BY <1>1, VenueMonotone DEF Genuine

\* A genuine event keeps the queue genuine.
LEMMA EmitGenuine ==
  ASSUME TypeInv, QueueOK, [Next]_vars,
         NEW type \in EventTypes, NEW o \in Orders, NEW stamp \in Nat,
         Emit(type, o, stamp), o \in Accepted',
         type \in FillEvents => <<o, stamp>> \in Executions',
         type = "fill" => vstatus'[o] = "filled"
  PROVE  QueueOK'
<1> DEFINE e == [type |-> type, order |-> o, stamp |-> stamp]
<1>1. e \in Genuine'
  BY DEF Genuine, Events
<1>2. queue \in Seq(Genuine')
  BY GenuineMonotone, SeqMonotonic DEF QueueOK
<1>3. Append(queue, e) \in Seq(Genuine')
  <2> HIDE DEF e
  <2>1. QED
    BY <1>1, <1>2, AppendProperties
<1>4. queue' \in Seq(Genuine')
  BY <1>2, <1>3 DEF Emit
<1>5. QED
  BY <1>4 DEF QueueOK

\* What is left of a genuine queue is genuine.
LEMMA ShortenGenuine ==
  ASSUME TypeInv, QueueOK, [Next]_vars,
         \/ queue' = queue
         \/ queue' = << >>
         \/ queue # << >> /\ queue' \in {Tail(queue), <<Head(queue)>>}
  PROVE  QueueOK'
<1>1. queue \in Seq(Genuine')
  BY GenuineMonotone, SeqMonotonic DEF QueueOK
<1>2. << >> \in Seq(Genuine')
  BY EmptySeq
<1>3. queue # << >> => Tail(queue) \in Seq(Genuine') /\ <<Head(queue)>> \in Seq(Genuine')
  BY <1>1, HeadTailProperties
<1>4. queue' \in Seq(Genuine')
  BY <1>1, <1>2, <1>3
<1>5. QED
  BY <1>4 DEF QueueOK

LEMMA AcceptGenuine ==
  ASSUME TypeInv, QueueOK, [Next]_vars, NEW o \in Orders, Accept(o)
  PROVE  QueueOK'
<1>1. Emit("new", o, 0) /\ "new" \in EventTypes /\ "new" \notin FillEvents
  BY DEF Accept, EventTypes, FillEvents
<1>2. o \in Accepted'
  BY DEF Accept, Accepted, TypeInv, TypeOK
<1>3. QED
  BY <1>1, <1>2, EmitGenuine

LEMMA ExecuteGenuine ==
  ASSUME TypeInv, VenueOK, QueueOK, [Next]_vars, NEW o \in Orders, VenueExecute(o)
  PROVE  QueueOK'
<1> DEFINE k == filled[o] + 1
<1> DEFINE type == IF k = Qty[o] THEN "fill" ELSE "partial_fill"
<1>1. PICK stamp \in {k} \cup ({k - 1} \ {0}) : Emit(type, o, stamp)
  BY DEF VenueExecute
<1>2. filled[o] \in Nat /\ stamp \in Nat /\ stamp >= 1 /\ stamp <= k
  BY <1>1 DEF TypeInv, TypeOK
<1>3. <<o, stamp>> \in Executions'
  <2>1. filled'[o] = k
    BY DEF VenueExecute, TypeInv, TypeOK
  <2>2. stamp \in 1..filled'[o]
    BY <1>2, <2>1
  <2>3. QED
    BY <2>2 DEF Executions
<1>4. o \in Accepted' /\ (type = "fill" => vstatus'[o] = "filled")
  BY DEF VenueExecute, TypeInv, TypeOK, Accepted
<1>5. type \in EventTypes
  BY DEF EventTypes, FillEvents
<1>6. QED
  <2> HIDE DEF type, k
  <2>1. QED
    BY <1>1, <1>2, <1>3, <1>4, <1>5, EmitGenuine

LEMMA EndsGenuine ==
  ASSUME TypeInv, QueueOK, [Next]_vars,
         NEW o \in Orders, NEW type \in EndEvents, VenueEnds(o, type)
  PROVE  QueueOK'
<1>1. Emit(type, o, 0) /\ type \in EventTypes /\ type \notin FillEvents /\ type # "fill"
  BY DEF VenueEnds, EventTypes, EndEvents, FillEvents
<1>2. o \in Accepted'
  BY DEF VenueEnds, Accepted, OpenAtVenue, TypeInv, TypeOK
<1>3. QED
  BY <1>1, <1>2, EmitGenuine

LEMMA RedeliverGenuine ==
  ASSUME TypeInv, VenueOK, QueueOK, [Next]_vars, Redeliver
  PROVE  QueueOK'
<1>1. PICK x \in Executions :
        Emit(IF x[2] = Qty[x[1]] THEN "fill" ELSE "partial_fill", x[1], x[2])
  BY DEF Redeliver
<1>2. PICK o \in Orders : \E k \in 1..filled[o] : x = <<o, k>>
  BY ExecutionsMember
<1>3. PICK k \in 1..filled[o] : x = <<o, k>>
  BY <1>2
<1> DEFINE type == IF k = Qty[o] THEN "fill" ELSE "partial_fill"
<1>4. filled \in [Orders -> Nat] /\ filled[o] \in Nat
  BY DEF TypeInv, TypeOK
<1>5. Emit(type, o, k)
  BY <1>1, <1>3
<1>6. UNCHANGED <<vstatus, filled>>
  BY DEF Redeliver, venue
<1>7. <<o, k>> \in Executions'
  BY <1>3, VenueMonotone
<1>8. o \in Accepted'
  BY <1>4, <1>3, VenueMonotone DEF VenueOK
<1>9. type = "fill" => vstatus'[o] = "filled"
  <2>1. k = Qty[o] => filled[o] = Qty[o]
    BY <1>4, QtyAssumption DEF VenueOK
  <2>2. QED
    BY <1>6, <2>1 DEF VenueOK
<1>10. type \in EventTypes /\ k \in Nat
  BY <1>4 DEF EventTypes, FillEvents
<1>11. QED
  <2> HIDE DEF type
  <2>1. QED
    BY <1>5, <1>7, <1>8, <1>9, <1>10, EmitGenuine

LEMMA QueueOKStep == ASSUME TypeInv, VenueOK, QueueOK, [Next]_vars PROVE QueueOK'
<1>1. CASE queue' = queue
  BY <1>1, ShortenGenuine
<1>2. CASE VenueNext
  BY <1>2, ExecuteGenuine, EndsGenuine, AcceptGenuine DEF VenueNext, ForeignOrder
<1>3. CASE SubmitterNext
  <2>1. queue' = queue \/ \E o \in Orders : Accept(o)
    BY <1>3 DEF SubmitterNext, Submit, RestAccepts, RestRefuses, RestServerError,
                RestTimeout, RecordSubmitted, RecordRejected, Cancel, CancelFails,
                RecordCanceled, SubmitterCrash, MaybeAccept, stream
  <2>2. QED
    BY <1>1, <2>1, AcceptGenuine
<1>4. CASE StreamNext
  <2>1. \/ queue' = queue
        \/ queue' = << >>
        \/ queue # << >> /\ queue' = <<Head(queue)>>
        \/ Redeliver
    BY <1>4 DEF StreamNext, Connect, LinkDrops, LinkCloses, TypeInv, TypeOK
  <2>2. QED
    BY <2>1, ShortenGenuine, RedeliverGenuine
<1>5. CASE HandlerNext
  <2>1. queue' = queue \/ (queue # << >> /\ queue' = Tail(queue))
    BY <1>5 DEF HandlerNext, EnsureOrder, BindOrder, PersistFill, SetStatus, RebuildPosition,
                HandlerRaises, HandlerStep, TypeInv, TypeOK
  <2>2. QED
    BY <2>1, ShortenGenuine
<1>6. CASE ExecutorNext
  <2>1. queue' = queue \/ queue' = << >>
    BY <1>6 DEF ExecutorNext, ExecutorStart, ExecutorCrash, CliReconcile, stream
  <2>2. QED
    BY <2>1, ShortenGenuine
<1>7. CASE ReconcileNext
  BY <1>1, <1>7, ReconcileFrame
<1>8. CASE UNCHANGED vars
  BY <1>1, <1>8 DEF vars, stream
<1>9. QED
  BY <1>2, <1>3, <1>4, <1>5, <1>6, <1>7, <1>8 DEF Next

-----------------------------------------------------------------------------
(* Nothing a reconciler or a submitter holds is made up *)

HeldOK ==
  /\ \A r \in Reconcilers : snapOpen[r] \cup aliens[r] \subseteq Accepted
  /\ \A o \in Orders : spc[o] = "mark" => o \in Accepted

LEMMA HeldOKStep == ASSUME TypeInv, HeldOK, [Next]_vars PROVE HeldOK'
<1>1. Accepted \subseteq Accepted'
  BY VenueMonotone
<1>2. CASE UNCHANGED <<snapOpen, aliens, spc>>
  BY <1>1, <1>2 DEF HeldOK
<1>3. CASE VenueNext
  BY <1>2, <1>3 DEF VenueNext, VenueExecute, VenueEnds, ForeignOrder, recon
<1>4. CASE SubmitterNext
  <2>1. PICK o \in Orders :
          \/ Submit(o) \/ RestAccepts(o) \/ RestRefuses(o) \/ RestServerError(o)
          \/ RestTimeout(o) \/ RecordSubmitted(o) \/ RecordRejected(o)
          \/ Cancel(o) \/ CancelFails(o) \/ RecordCanceled(o)
          \/ SubmitterCrash(o)
    BY <1>4 DEF SubmitterNext
  <2>2. UNCHANGED <<snapOpen, aliens>>
    BY <2>1 DEF Submit, RestAccepts, RestRefuses, RestServerError, RestTimeout,
                RecordSubmitted, RecordRejected, Cancel, CancelFails,
                RecordCanceled, SubmitterCrash, recon
  <2>3. \/ RestAccepts(o)
        \/ \E s \in SubmitterStates \ {"mark"} : spc' = [spc EXCEPT ![o] = s]
    BY <2>1 DEF Submit, RestRefuses, RestServerError, RestTimeout,
                RecordSubmitted, RecordRejected, Cancel, CancelFails,
                RecordCanceled, SubmitterCrash, SubmitterStates
  <2>4. spc \in [Orders -> SubmitterStates] /\ vstatus \in [Orders -> VenueStatuses]
    BY DEF TypeInv, TypeOK
  <2>5. \A p \in Orders : spc'[p] = "mark" => p \in Accepted'
    <3>1. CASE RestAccepts(o)
      BY <1>1, <2>4, <3>1 DEF RestAccepts, Accept, Accepted, HeldOK
    <3>2. ASSUME NEW s \in SubmitterStates \ {"mark"}, spc' = [spc EXCEPT ![o] = s]
          PROVE  \A p \in Orders : spc'[p] = "mark" => p \in Accepted'
      BY <1>1, <2>4, <3>2 DEF HeldOK
    <3>3. QED
      BY <2>3, <3>1, <3>2
  <2>6. QED
    BY <1>1, <2>2, <2>5 DEF HeldOK
<1>5. CASE StreamNext
  BY <1>2, <1>5 DEF StreamNext, Connect, LinkDrops, LinkCloses, Redeliver, recon
<1>6. CASE HandlerNext
  BY <1>2, <1>6 DEF HandlerNext, EnsureOrder, BindOrder, PersistFill, SetStatus, RebuildPosition,
                    HandlerRaises, recon
<1>7. CASE ExecutorNext
  BY <1>1, <1>7 DEF ExecutorNext, ExecutorStart, ExecutorCrash, CliReconcile,
                    Forget, HeldOK, TypeInv, TypeOK
<1>8. CASE ReconcileNext
  <2>1. spc' = spc
    BY <1>8, ReconcileFrame
  <2>2. VenueOpen \subseteq Accepted
    BY DEF VenueOpen, Accepted, OpenAtVenue
  <2>3. PICK r \in Reconcilers : ReconcilerStep(r)
    BY <1>8 DEF ReconcileNext, ReconcilerStep
  <2>4. /\ snapOpen \in [Reconcilers -> SUBSET Orders]
        /\ aliens \in [Reconcilers -> SUBSET Orders]
    BY DEF TypeInv, TypeOK
  <2>5. \/ UNCHANGED <<snapOpen, aliens>>
        \/ \E S \in SUBSET Accepted : UNCHANGED aliens /\ snapOpen' = [snapOpen EXCEPT ![r] = S]
        \/ \E S \in SUBSET (snapOpen[r] \cup aliens[r]) :
             UNCHANGED snapOpen /\ aliens' = [aliens EXCEPT ![r] = S]
        \/ snapOpen' = [snapOpen EXCEPT ![r] = {}] /\ aliens' = [aliens EXCEPT ![r] = {}]
    <3>1. CASE GetOrders(r)
      BY <2>2, <3>1 DEF GetOrders
    <3>2. CASE GetPositions(r) \/ ReadPositions(r)
      BY <3>2 DEF GetPositions, ReadPositions
    <3>3. CASE ReadOpenOrders(r)
      BY <3>3 DEF ReadOpenOrders
    <3>4. CASE FinishReconcile(r) \/ ReconcileFails(r)
      BY <3>4 DEF FinishReconcile, ReconcileFails, Abort, Forget
    <3>5. ASSUME NEW o \in Orders, AdoptAlien(r, o) PROVE <2>5!:
      BY <3>5 DEF AdoptAlien
    <3>6. ASSUME NEW o \in Orders, AdoptionCollides(r, o) PROVE <2>5!:
      BY <3>6 DEF AdoptionCollides, Abort, Forget
    <3>7. ASSUME NEW o \in Orders, QueryGhost(r, o) \/ GhostUnresolved(r, o) \/ RejectStray(r, o)
          PROVE  <2>5!:
      BY <3>7 DEF QueryGhost, GhostUnresolved, RejectStray
    <3>8. CASE BindAlien(r) \/ ResolveGhost(r)
      BY <3>8 DEF BindAlien, ResolveGhost
    <3>9. QED
      BY <2>3, <3>1, <3>2, <3>3, <3>4, <3>5, <3>6, <3>7, <3>8 DEF ReconcilerStep
  <2>6. QED
    BY <1>1, <2>1, <2>4, <2>5 DEF HeldOK
<1>9. CASE UNCHANGED vars
  BY <1>2, <1>9 DEF vars, recon
<1>10. QED
  BY <1>3, <1>4, <1>5, <1>6, <1>7, <1>8, <1>9 DEF Next

\* A row a reconciler is about to bind is that of an order the venue has taken,
\* and one it is about to call FILLED is filled.
WritesOK ==
  \A r \in Reconcilers : \A w \in writes[r] :
    /\ w[2] # Absent
    /\ w[2] = "filled" => vstatus[w[1]] = "filled"
    /\ rpc[r] = "adopt" => w[1] \in Accepted

\* How a reconciler comes to hold a write.
ReconcilerWrites(r) ==
  \/ writes' = [writes EXCEPT ![r] = {}] /\ \E s : rpc' = [rpc EXCEPT ![r] = s]
  \/ writes' = writes /\ rpc' = rpc
  \/ writes' = writes /\ \E s \in ReconcileStates \ {"adopt"} : rpc' = [rpc EXCEPT ![r] = s]
  \/ \E o \in Accepted : /\ writes' = [writes EXCEPT ![r] = {<<o, "submitted">>}]
                         /\ rpc' = [rpc EXCEPT ![r] = "adopt"]
  \/ \E o \in Orders : /\ writes' = [writes EXCEPT ![r] = {<<o, GhostStatus(o)>>}]
                       /\ rpc' = [rpc EXCEPT ![r] = "resolve"]

LEMMA ReconcilerWritesOK ==
  ASSUME TypeInv, WritesOK, [Next]_vars, NEW r \in Reconcilers, ReconcilerWrites(r),
         vstatus' = vstatus
  PROVE  WritesOK'
<1>1. /\ writes \in [Reconcilers -> SUBSET (Orders \X RowStatuses)]
      /\ rpc \in [Reconcilers -> ReconcileStates]
      /\ Accepted' = Accepted
  BY DEF TypeInv, TypeOK, Accepted
<1>2. \A o \in Orders : /\ GhostStatus(o) # Absent
                        /\ GhostStatus(o) = "filled" => vstatus[o] = "filled"
  BY DEF GhostStatus, Absent
<1>3. CASE writes' = [writes EXCEPT ![r] = {}] /\ \E s : rpc' = [rpc EXCEPT ![r] = s]
  BY <1>1, <1>3 DEF WritesOK
<1>4. CASE writes' = writes /\ rpc' = rpc
  BY <1>1, <1>4 DEF WritesOK
<1>5. ASSUME NEW s \in ReconcileStates \ {"adopt"},
             writes' = writes, rpc' = [rpc EXCEPT ![r] = s]
      PROVE  WritesOK'
  BY <1>1, <1>5 DEF WritesOK
<1>6. ASSUME NEW o \in Accepted, writes' = [writes EXCEPT ![r] = {<<o, "submitted">>}],
             rpc' = [rpc EXCEPT ![r] = "adopt"]
      PROVE  WritesOK'
  BY <1>1, <1>6 DEF WritesOK, Absent
<1>7. ASSUME NEW o \in Orders, writes' = [writes EXCEPT ![r] = {<<o, GhostStatus(o)>>}],
             rpc' = [rpc EXCEPT ![r] = "resolve"]
      PROVE  WritesOK'
  BY <1>1, <1>2, <1>7 DEF WritesOK
<1>8. QED
  BY <1>3, <1>4, <1>5, <1>6, <1>7 DEF ReconcilerWrites

LEMMA WritesOKStep == ASSUME TypeInv, HeldOK, WritesOK, [Next]_vars PROVE WritesOK'
<1>1. CASE UNCHANGED <<writes, rpc>>
  <2>1. /\ Accepted \subseteq Accepted'
        /\ \A o \in Orders : vstatus[o] = "filled" => vstatus'[o] = "filled"
    BY VenueMonotone
  <2>2. writes \in [Reconcilers -> SUBSET (Orders \X RowStatuses)]
    BY DEF TypeInv, TypeOK
  <2>3. QED
    BY <1>1, <2>1, <2>2 DEF WritesOK
<1>2. CASE VenueNext
  BY <1>1, <1>2 DEF VenueNext, VenueExecute, VenueEnds, ForeignOrder, recon
<1>3. CASE SubmitterNext
  BY <1>1, <1>3 DEF SubmitterNext, Submit, RestAccepts, RestRefuses, RestServerError,
                    RestTimeout, RecordSubmitted, RecordRejected, Cancel, CancelFails,
                    RecordCanceled, SubmitterCrash, recon
<1>4. CASE StreamNext
  BY <1>1, <1>4 DEF StreamNext, Connect, LinkDrops, LinkCloses, Redeliver, recon
<1>5. CASE HandlerNext
  BY <1>1, <1>5 DEF HandlerNext, EnsureOrder, BindOrder, PersistFill, SetStatus,
                    RebuildPosition, HandlerRaises, recon
<1>6. CASE ExecutorNext
  <2>1. vstatus' = vstatus /\ {"startup", "cli"} \subseteq Reconcilers
    BY <1>6 DEF ExecutorNext, ExecutorStart, ExecutorCrash, CliReconcile, venue, Reconcilers
  <2>2. ReconcilerWrites("startup") \/ ReconcilerWrites("cli")
    BY <1>6 DEF ExecutorNext, ExecutorStart, ExecutorCrash, CliReconcile, Forget,
                ReconcilerWrites, ReconcileStates
  <2>3. QED
    BY <2>1, <2>2, ReconcilerWritesOK
<1>7. CASE ReconcileNext
  <2>1. vstatus' = vstatus
    BY <1>7, ReconcileFrame
  <2>2. PICK r \in Reconcilers : ReconcilerStep(r)
    BY <1>7 DEF ReconcileNext, ReconcilerStep
  <2>3. ReconcilerWrites(r)
    <3>1. CASE GetOrders(r) \/ GetPositions(r) \/ ReadOpenOrders(r) \/ ReadPositions(r)
      BY <3>1 DEF GetOrders, GetPositions, ReadOpenOrders, ReadPositions, ReconcileStep,
                  ReconcileStates, ReconcilerWrites
    <3>2. CASE FinishReconcile(r) \/ ReconcileFails(r)
      BY <3>2 DEF FinishReconcile, ReconcileFails, Abort, Forget, ReconcilerWrites
    <3>3. CASE BindAlien(r) \/ ResolveGhost(r)
      BY <3>3 DEF BindAlien, ResolveGhost, ReconcileStep, ReconcilerWrites
    <3>4. ASSUME NEW o \in Orders, AdoptAlien(r, o) PROVE ReconcilerWrites(r)
      BY <3>4 DEF AdoptAlien, HeldOK, ReconcileStep, ReconcilerWrites
    <3>5. ASSUME NEW o \in Orders, QueryGhost(r, o) PROVE ReconcilerWrites(r)
      BY <3>5 DEF QueryGhost, ReconcileStep, ReconcilerWrites
    <3>6. ASSUME NEW o \in Orders,
                 AdoptionCollides(r, o) \/ GhostUnresolved(r, o) \/ RejectStray(r, o)
          PROVE  ReconcilerWrites(r)
      BY <3>6 DEF AdoptionCollides, Abort, Forget, GhostUnresolved, RejectStray,
                  ReconcilerWrites
    <3>7. QED
      BY <2>2, <3>1, <3>2, <3>3, <3>4, <3>5, <3>6 DEF ReconcilerStep
  <2>4. QED
    BY <2>1, <2>3, ReconcilerWritesOK
<1>8. CASE UNCHANGED vars
  BY <1>1, <1>8 DEF vars, recon
<1>9. QED
  BY <1>2, <1>3, <1>4, <1>5, <1>6, <1>7, <1>8 DEF Next

-----------------------------------------------------------------------------
(* What a step does to the orders table *)

\* A row is inserted unbound, or bound for an order the venue has taken, or
\* given a status that is FILLED only if the order is.
RowStep ==
  \/ orders' = orders
  \/ \E o \in Orders : orders' = SaveIntent(orders, o)
  \/ \E o \in Accepted : orders' = MarkSubmitted(orders, o)
  \/ \E o \in Orders : \E s \in RowStatuses \ {Absent} :
       /\ orders' = UpdateStatus(orders, o, s)
       /\ s = "filled" => vstatus[o] = "filled"

\* The event in hand is genuine.
LEMMA EventGenuine ==
  ASSUME QueueOK, queue # << >>
  PROVE  Event \in Genuine
BY HeadTailProperties DEF QueueOK, Event

LEMMA HandlerRows == ASSUME TypeInv, QueueOK, HandlerNext PROVE RowStep
<1>1. queue # << >>
  BY DEF TypeInv, TypeOK, HandlerNext, EnsureOrder, BindOrder, PersistFill, SetStatus,
         RebuildPosition, HandlerRaises, HandlerStep
<1>2. /\ Event \in Events /\ Event.order \in Accepted /\ Event.order \in Orders
      /\ Event.type \in EventTypes
      /\ Event.type = "fill" => vstatus[Event.order] = "filled"
  BY <1>1, EventGenuine DEF Genuine, Events
<1>3. CASE EnsureOrder
  BY <1>2, <1>3 DEF EnsureOrder, RowStep
<1>9. CASE BindOrder
  BY <1>2, <1>9 DEF BindOrder, RowStep
<1>4. CASE PersistFill
  BY <1>4 DEF PersistFill, RowStep
<1>5. CASE SetStatus
  <2>1. EventStatus(Event.type) \in RowStatuses \ {Absent}
    BY <1>2 DEF EventStatus, EventTypes, FillEvents, EndEvents, RowStatuses, Absent,
                OpenStatuses, TerminalStatuses
  <2>2. EventStatus(Event.type) = "filled" => Event.type = "fill"
    BY <1>2 DEF EventStatus, EventTypes, FillEvents, EndEvents
  <2>3. orders' = UpdateStatus(orders, Event.order, EventStatus(Event.type))
    BY <1>5 DEF SetStatus
  <2>4. QED
    BY <1>2, <2>1, <2>2, <2>3 DEF RowStep
<1>6. CASE RebuildPosition
  BY <1>6 DEF RebuildPosition, RowStep
<1>7. CASE HandlerRaises
  BY <1>7 DEF HandlerRaises, RowStep, store
<1>8. QED
  BY <1>3, <1>4, <1>5, <1>6, <1>7, <1>9 DEF HandlerNext

LEMMA ReconcileRows == ASSUME TypeInv, WritesOK, ReconcileNext PROVE RowStep
<1>1. PICK r \in Reconcilers : ReconcilerStep(r)
  BY DEF ReconcileNext, ReconcilerStep
<1>2. CASE \/ GetOrders(r) \/ GetPositions(r) \/ ReadOpenOrders(r) \/ ReadPositions(r)
           \/ FinishReconcile(r) \/ ReconcileFails(r)
  BY <1>2 DEF GetOrders, GetPositions, ReadOpenOrders, ReadPositions, FinishReconcile,
              ReconcileFails, store, RowStep
<1>3. ASSUME NEW o \in Orders,
             \/ AdoptAlien(r, o) \/ AdoptionCollides(r, o)
             \/ QueryGhost(r, o) \/ GhostUnresolved(r, o)
      PROVE  RowStep
  BY <1>3 DEF AdoptAlien, AdoptionCollides, QueryGhost, GhostUnresolved, store, RowStep
<1>4. CASE BindAlien(r)
  BY <1>4 DEF BindAlien, ReconcileStep, WritesOK, RowStep
<1>5. CASE ResolveGhost(r)
  <2>1. PICK w \in writes[r] : orders' = UpdateStatus(orders, w[1], w[2])
    BY <1>5 DEF ResolveGhost
  <2>2. w[1] \in Orders /\ w[2] \in RowStatuses
    BY DEF TypeInv, TypeOK
  <2>3. QED
    BY <2>1, <2>2 DEF WritesOK, RowStep
<1>6. ASSUME NEW o \in Orders, RejectStray(r, o) PROVE RowStep
  BY <1>6 DEF RejectStray, RowStep, RowStatuses, Absent, TerminalStatuses
<1>7. QED
  BY <1>1, <1>2, <1>3, <1>4, <1>5, <1>6 DEF ReconcilerStep

LEMMA SubmitterRows == ASSUME HeldOK, SubmitterNext PROVE RowStep
<1>1. PICK o \in Orders :
        \/ Submit(o) \/ RestAccepts(o) \/ RestRefuses(o) \/ RestServerError(o)
        \/ RestTimeout(o) \/ RecordSubmitted(o) \/ RecordRejected(o)
        \/ Cancel(o) \/ CancelFails(o) \/ RecordCanceled(o)
        \/ SubmitterCrash(o)
  BY DEF SubmitterNext
<1>2. CASE Submit(o)
  BY <1>2 DEF Submit, RowStep
<1>3. CASE RecordSubmitted(o)
  BY <1>3 DEF RecordSubmitted, HeldOK, RowStep
<1>4. CASE RecordRejected(o) \/ RecordCanceled(o)
  BY <1>4 DEF RecordRejected, RecordCanceled, RowStep, RowStatuses, Absent, TerminalStatuses
<1>5. CASE \/ RestAccepts(o) \/ RestRefuses(o) \/ RestServerError(o) \/ RestTimeout(o)
           \/ Cancel(o) \/ CancelFails(o) \/ SubmitterCrash(o)
  BY <1>5 DEF RestAccepts, RestRefuses, RestServerError, RestTimeout, Cancel,
              CancelFails, SubmitterCrash, store, RowStep
<1>6. QED
  BY <1>1, <1>2, <1>3, <1>4, <1>5

LEMMA RowFrame == ASSUME TypeInv, QueueOK, HeldOK, WritesOK, [Next]_vars PROVE RowStep
<1>1. CASE orders' = orders
  BY <1>1 DEF RowStep
<1>2. CASE VenueNext
  BY <1>1, <1>2 DEF VenueNext, VenueExecute, VenueEnds, ForeignOrder, store
<1>3. CASE StreamNext
  BY <1>1, <1>3 DEF StreamNext, Connect, LinkDrops, LinkCloses, Redeliver, store
<1>4. CASE ExecutorNext
  BY <1>1, <1>4 DEF ExecutorNext, ExecutorStart, ExecutorCrash, CliReconcile, store
<1>5. CASE UNCHANGED vars
  BY <1>1, <1>5 DEF vars, store
<1>6. QED
  BY <1>2, <1>3, <1>4, <1>5, SubmitterRows, HandlerRows, ReconcileRows DEF Next

\* A row is bound, or FILLED, only for an order the venue has taken, or filled,
\* and stays so.
LEMMA RowsOKStep ==
  ASSUME TypeInv, QueueOK, HeldOK, WritesOK, BoundOnlyIfAccepted, FilledIsTrue, [Next]_vars
  PROVE  BoundOnlyIfAccepted' /\ FilledIsTrue'
<1>1. RowStep /\ orders \in [Orders -> OrderRow]
  BY RowFrame DEF TypeInv, TypeOK
<1>2. /\ Accepted \subseteq Accepted' /\ Accepted \subseteq Orders
      /\ \A o \in Orders : vstatus[o] = "filled" => vstatus'[o] = "filled"
  BY VenueMonotone DEF Accepted
<1>3. \A o \in Orders : orders'[o].bound => orders[o].bound \/ o \in Accepted
  BY <1>1, <1>2 DEF RowStep, OrderRow, SaveIntent, MarkSubmitted, UpdateStatus
<1>4. \A o \in Orders : orders'[o].status = "filled"
                          => orders[o].status = "filled" \/ vstatus[o] = "filled"
  BY <1>1, <1>2 DEF RowStep, OrderRow, SaveIntent, MarkSubmitted, UpdateStatus, Absent
<1>5. QED
  BY <1>2, <1>3, <1>4 DEF BoundOnlyIfAccepted, FilledIsTrue

\* No step removes a row.
LEMMA RowsStay ==
  ASSUME TypeInv, QueueOK, HeldOK, WritesOK, [Next]_vars
  PROVE  \A o \in Orders : HasRow(orders, o) => HasRow(orders', o)
<1>1. RowStep /\ orders \in [Orders -> OrderRow] /\ Accepted \subseteq Orders
  BY RowFrame DEF TypeInv, TypeOK, Accepted
<1>2. QED
  BY <1>1 DEF RowStep, OrderRow, HasRow, SaveIntent, MarkSubmitted, UpdateStatus, Absent

-----------------------------------------------------------------------------
(* Persist, then submit *)

\* Our orders reach the venue only from a submitter that has left "idle", and
\* that one has written the row.
PersistedFirst ==
  \A o \in Orders \ Foreign : /\ o \in Accepted => spc[o] # "idle"
                              /\ spc[o] # "idle" => HasRow(orders, o)

LEMMA PersistedFirstStep ==
  ASSUME TypeInv, QueueOK, HeldOK, WritesOK, PersistedFirst, [Next]_vars
  PROVE  PersistedFirst'
<1>1. /\ spc \in [Orders -> SubmitterStates] /\ vstatus \in [Orders -> VenueStatuses]
      /\ orders \in [Orders -> OrderRow]
  BY DEF TypeInv, TypeOK
<1>2. \A o \in Orders : HasRow(orders, o) => HasRow(orders', o)
  BY RowsStay
<1>3. CASE SubmitterNext
  <2>1. PICK o \in Orders :
          \/ Submit(o) \/ RestAccepts(o) \/ RestRefuses(o) \/ RestServerError(o)
          \/ RestTimeout(o) \/ RecordSubmitted(o) \/ RecordRejected(o)
          \/ Cancel(o) \/ CancelFails(o) \/ RecordCanceled(o)
          \/ SubmitterCrash(o)
    BY <1>3 DEF SubmitterNext
  <2>2. CASE Submit(o)
    BY <1>1, <1>2, <2>2 DEF Submit, PersistedFirst, HasRow, SaveIntent, Absent, OrderRow,
                            Accepted, venue
  <2>3. CASE \/ RestAccepts(o) \/ RestRefuses(o) \/ RestServerError(o)
             \/ RestTimeout(o) \/ RecordSubmitted(o) \/ RecordRejected(o)
             \/ Cancel(o) \/ CancelFails(o) \/ RecordCanceled(o)
             \/ SubmitterCrash(o)
    <3>1. \E s \in SubmitterStates \ {"idle"} : spc' = [spc EXCEPT ![o] = s]
      BY <2>3 DEF RestAccepts, RestRefuses, RestServerError, RestTimeout, RecordSubmitted,
                  RecordRejected, Cancel, CancelFails, RecordCanceled, SubmitterCrash,
                  SubmitterStates
    <3>2. spc[o] # "idle"
      BY <2>3 DEF RestAccepts, RestRefuses, RestServerError, RestTimeout, RecordSubmitted,
                  RecordRejected, Cancel, CancelFails, RecordCanceled, SubmitterCrash, AtRest
    <3>3. vstatus' = vstatus \/ Accept(o)
      BY <2>3 DEF RestAccepts, RestRefuses, RestServerError, RestTimeout, RecordSubmitted,
                  RecordRejected, Cancel, CancelFails, RecordCanceled, SubmitterCrash,
                  MaybeAccept, venue
    <3>4. \A p \in Orders : vstatus'[p] # "none" => vstatus[p] # "none" \/ p = o
      BY <1>1, <3>3 DEF Accept
    <3>5. QED
      BY <1>1, <1>2, <3>1, <3>2, <3>4 DEF PersistedFirst, Accepted
  <2>4. QED
    BY <2>1, <2>2, <2>3
<1>4. ASSUME spc' = spc,
             \A o \in Orders \ Foreign : vstatus'[o] # "none" => vstatus[o] # "none"
      PROVE  PersistedFirst'
  BY <1>2, <1>4 DEF PersistedFirst, Accepted
<1>5. CASE VenueNext
  BY <1>1, <1>4, <1>5 DEF VenueNext, VenueExecute, VenueEnds, ForeignOrder, Accept, OpenAtVenue
<1>6. CASE StreamNext
  BY <1>4, <1>6 DEF StreamNext, Connect, LinkDrops, LinkCloses, Redeliver, venue
<1>7. CASE HandlerNext
  BY <1>4, <1>7 DEF HandlerNext, EnsureOrder, BindOrder, PersistFill, SetStatus, RebuildPosition,
                    HandlerRaises, venue
<1>8. CASE ExecutorNext
  BY <1>4, <1>8 DEF ExecutorNext, ExecutorStart, ExecutorCrash, CliReconcile, venue
<1>9. CASE ReconcileNext
  BY <1>4, <1>9, ReconcileFrame
<1>10. CASE UNCHANGED vars
  BY <1>4, <1>10 DEF vars, venue
<1>11. QED
  BY <1>3, <1>5, <1>6, <1>7, <1>8, <1>9, <1>10 DEF Next

-----------------------------------------------------------------------------
(* Fills *)

\* The handler persists only fills, and it has persisted the fill in hand before
\* it goes on to the status and the position.
HandOK ==
  /\ hpc = "persist" => Event.type \in FillEvents
  /\ hpc \in {"status", "rebuild"} /\ Event.type \in FillEvents
       => <<Event.order, Event.stamp>> \in fills

\* An event appended behind the one in hand leaves it in hand.
LEMMA EmitBehind ==
  ASSUME NEW type \in EventTypes, NEW o \in Orders, NEW stamp \in Nat,
         queue \in Seq(Events), queue # << >>, Emit(type, o, stamp)
  PROVE  Head(queue') = Head(queue)
<1> DEFINE e == [type |-> type, order |-> o, stamp |-> stamp]
<1>1. e \in Events
  BY DEF Events
<1>2. Head(Append(queue, e)) = Head(queue)
  <2> HIDE DEF e
  <2>1. QED
    BY <1>1, HeadTailAppend
<1>3. QED
  BY <1>2 DEF Emit

\* Only the handler itself and a crash put another event in hand.
LEMMA HandFrame ==
  ASSUME TypeInv, [Next]_vars
  PROVE  \/ HandlerNext
         \/ hpc' = "idle"
         \/ hpc' = hpc /\ (hpc # "idle" => Event' = Event)
<1> DEFINE Same == hpc' = hpc /\ (hpc # "idle" => Event' = Event)
<1>1. queue \in Seq(Events) /\ (hpc # "idle" => queue # << >>)
  BY DEF TypeInv, TypeOK
<1>2. ASSUME queue' = queue, hpc' = hpc PROVE Same
  BY <1>2 DEF Event
<1>3. ASSUME NEW o \in Orders, Accept(o), hpc' = hpc PROVE Same
  BY <1>1, <1>3, EmitBehind DEF Accept, EventTypes, Event
<1>4. CASE VenueNext
  <2>1. PICK o \in Orders : \/ VenueExecute(o)
                            \/ \E type \in EndEvents : VenueEnds(o, type)
                            \/ ForeignOrder(o)
    BY <1>4 DEF VenueNext
  <2>2. CASE VenueExecute(o)
    <3> DEFINE k == filled[o] + 1
    <3>1. PICK stamp \in {k} \cup ({k - 1} \ {0}) :
            Emit(IF k = Qty[o] THEN "fill" ELSE "partial_fill", o, stamp)
      BY <2>2 DEF VenueExecute
    <3>2. stamp \in Nat
      BY DEF TypeInv, TypeOK
    <3>3. (IF k = Qty[o] THEN "fill" ELSE "partial_fill") \in EventTypes
      BY DEF EventTypes, FillEvents
    <3>4. hpc' = hpc
      BY <2>2 DEF VenueExecute
    <3>5. QED
      BY <1>1, <3>1, <3>2, <3>3, <3>4, EmitBehind DEF Event
  <2>3. ASSUME NEW type \in EndEvents, VenueEnds(o, type) PROVE Same
    BY <1>1, <2>3, EmitBehind DEF VenueEnds, EventTypes, Event
  <2>4. CASE ForeignOrder(o)
    BY <1>3, <2>4 DEF ForeignOrder
  <2>5. QED
    BY <2>1, <2>2, <2>3, <2>4
<1>5. CASE SubmitterNext
  <2>1. hpc' = hpc /\ (queue' = queue \/ \E o \in Orders : Accept(o))
    BY <1>5 DEF SubmitterNext, Submit, RestAccepts, RestRefuses, RestServerError,
                RestTimeout, RecordSubmitted, RecordRejected, Cancel, CancelFails,
                RecordCanceled, SubmitterCrash, MaybeAccept, stream
  <2>2. QED
    BY <1>2, <1>3, <2>1
<1>6. CASE StreamNext
  <2>1. CASE Connect \/ LinkCloses
    BY <1>2, <2>1 DEF Connect, LinkCloses
  <2>2. CASE LinkDrops
    BY <1>1, <2>2, HeadTailProperties DEF LinkDrops, Event
  <2>3. CASE Redeliver
    <3>1. PICK x \in Executions :
            Emit(IF x[2] = Qty[x[1]] THEN "fill" ELSE "partial_fill", x[1], x[2])
      BY <2>3 DEF Redeliver
    <3>2. x[1] \in Orders /\ x[2] \in Nat
      BY ExecutionsMember DEF TypeInv, TypeOK
    <3>3. (IF x[2] = Qty[x[1]] THEN "fill" ELSE "partial_fill") \in EventTypes
      BY DEF EventTypes, FillEvents
    <3>4. hpc' = hpc
      BY <2>3 DEF Redeliver
    <3>5. QED
      BY <1>1, <3>1, <3>2, <3>3, <3>4, EmitBehind DEF Event
  <2>4. QED
    BY <1>6, <2>1, <2>2, <2>3 DEF StreamNext
<1>7. CASE ExecutorNext
  BY <1>2, <1>7 DEF ExecutorNext, ExecutorStart, ExecutorCrash, CliReconcile, stream
<1>8. CASE ReconcileNext
  <2>1. PICK r \in Reconcilers : ReconcilerStep(r)
    BY <1>8 DEF ReconcileNext, ReconcilerStep
  <2>2. hpc' = hpc /\ queue' = queue
    BY <2>1 DEF ReconcilerStep, GetOrders, GetPositions, ReadOpenOrders, ReadPositions,
                FinishReconcile, ReconcileFails, AdoptAlien, AdoptionCollides,
                BindAlien, QueryGhost, ResolveGhost, GhostUnresolved, RejectStray, stream
  <2>3. QED
    BY <1>2, <2>2
<1>9. CASE UNCHANGED vars
  BY <1>2, <1>9 DEF vars, stream
<1>10. QED
  BY <1>4, <1>5, <1>6, <1>7, <1>8, <1>9 DEF Next

LEMMA HandOKStep == ASSUME TypeInv, HandOK, [Next]_vars PROVE HandOK'
<1>1. CASE hpc' = "idle"
  BY <1>1 DEF HandOK
<1>2. CASE hpc' = hpc /\ (hpc # "idle" => Event' = Event)
  <2>1. fills \subseteq fills'
    BY FillsFrame DEF PersistFill, SaveFill
  <2>2. hpc = "idle" => HandOK'
    BY <1>2 DEF HandOK
  <2>3. hpc # "idle" => HandOK'
    BY <1>2, <2>1 DEF HandOK
  <2>4. QED
    BY <2>2, <2>3
<1>3. CASE HandlerNext
  <2>1. CASE EnsureOrder
    <3>1. Event' = Event
      BY <2>1 DEF EnsureOrder, Event
    <3>2. QED
      BY <2>1, <3>1 DEF EnsureOrder, AfterBind, HandlerStep, HandOK
  <2>6. CASE BindOrder
    <3>1. Event' = Event
      BY <2>6 DEF BindOrder, Event
    <3>2. QED
      BY <2>6, <3>1 DEF BindOrder, AfterBind, HandlerStep, HandOK
  <2>2. CASE PersistFill
    <3>1. Event' = Event
      BY <2>2 DEF PersistFill, Event
    <3>2. QED
      BY <2>2, <3>1 DEF PersistFill, SaveFill, HandlerStep, HandOK
  <2>3. CASE SetStatus
    <3>1. hpc' = "idle" \/ (hpc' = "rebuild" /\ queue' = queue /\ fills' = fills)
      BY <2>3 DEF SetStatus, HandlerStep
    <3>2. hpc' = "rebuild" /\ queue' = queue => Event' = Event
      BY DEF Event
    <3>3. hpc = "status"
      BY <2>3 DEF SetStatus, HandlerStep
    <3>4. QED
      BY <1>1, <3>1, <3>2, <3>3 DEF HandOK
  <2>4. CASE RebuildPosition \/ HandlerRaises
    BY <1>1, <2>4 DEF RebuildPosition, HandlerRaises, HandlerStep
  <2>5. QED
    BY <1>3, <2>1, <2>2, <2>3, <2>4, <2>6 DEF HandlerNext
<1>4. QED
  BY <1>1, <1>2, <1>3, HandFrame

LEMMA FillsOKStep ==
  ASSUME TypeInv, QueueOK, HandOK, FillsAreExecutions, [Next]_vars
  PROVE  FillsAreExecutions'
<1>1. Executions \subseteq Executions'
  BY VenueMonotone
<1>2. CASE fills' = fills
  BY <1>1, <1>2 DEF FillsAreExecutions
<1>3. CASE PersistFill
  <2>1. queue # << >> /\ hpc = "persist"
    BY <1>3 DEF TypeInv, TypeOK, PersistFill, HandlerStep
  <2>2. Event \in Genuine /\ Event.type \in FillEvents
    BY <2>1, EventGenuine DEF HandOK
  <2>3. QED
    BY <1>1, <1>3, <2>2 DEF PersistFill, SaveFill, FillsAreExecutions, Genuine
<1>4. QED
  BY <1>2, <1>3, FillsFrame


\* What it is to be reported.
LEMMA ReportedMember ==
  ASSUME NEW q \in Seq(Events), NEW x
  PROVE  x \in Reported(q) <=> \E i \in 1..Len(q) : /\ q[i].type \in FillEvents
                                                    /\ x = <<q[i].order, q[i].stamp>>
<1>1. DOMAIN q = 1..Len(q)
  BY LenProperties
<1>2. QED
  BY <1>1 DEF Reported

\* An appended event takes nothing away and reports its own execution.
LEMMA ReportedAppend ==
  ASSUME NEW q \in Seq(Events), NEW e \in Events
  PROVE  /\ Reported(q) \subseteq Reported(Append(q, e))
         /\ e.type \in FillEvents => <<e.order, e.stamp>> \in Reported(Append(q, e))
<1>1. /\ Append(q, e) \in Seq(Events)
      /\ Len(Append(q, e)) = Len(q) + 1
      /\ \A i \in 1..Len(q) : Append(q, e)[i] = q[i]
      /\ Append(q, e)[Len(q) + 1] = e
      /\ Len(q) \in Nat
  BY AppendProperties, LenProperties
<1>2. ASSUME NEW x \in Reported(q) PROVE x \in Reported(Append(q, e))
  <2>1. PICK i \in 1..Len(q) : q[i].type \in FillEvents /\ x = <<q[i].order, q[i].stamp>>
    BY ReportedMember
  <2>2. i \in 1..Len(Append(q, e)) /\ Append(q, e)[i] = q[i]
    BY <1>1
  <2>3. QED
    BY <1>1, <2>1, <2>2, ReportedMember
<1>3. ASSUME e.type \in FillEvents PROVE <<e.order, e.stamp>> \in Reported(Append(q, e))
  <2>1. Len(q) + 1 \in 1..Len(Append(q, e))
    BY <1>1
  <2>2. QED
    BY <1>1, <1>3, <2>1, ReportedMember
<1>4. QED
  BY <1>2, <1>3

\* One event reports at most its own execution.
LEMMA ReportedOne ==
  ASSUME NEW e \in Events
  PROVE  Reported(<<e>>) = IF e.type \in FillEvents THEN {<<e.order, e.stamp>>} ELSE {}
<1> DEFINE q == <<e>>
<1>1. q \in Seq(Events) /\ Len(q) = 1 /\ q[1] = e
  OBVIOUS
<1>2. ASSUME NEW x
      PROVE  x \in Reported(q) <=> e.type \in FillEvents /\ x = <<e.order, e.stamp>>
  <2> HIDE DEF q
  <2>1. x \in Reported(q) <=> \E k \in 1..Len(q) : /\ q[k].type \in FillEvents
                                                   /\ x = <<q[k].order, q[k].stamp>>
    BY <1>1, ReportedMember
  <2>2. QED
    BY <1>1, <2>1
<1>3. QED
  BY <1>2

\* The head's report and the tail's are all the queue reports.
LEMMA ReportedHeadTail ==
  ASSUME NEW q \in Seq(Events), q # << >>
  PROVE  Reported(q) \subseteq Reported(<<Head(q)>>) \cup Reported(Tail(q))
<1>1. /\ Head(q) \in Events /\ Head(q) = q[1]
      /\ Tail(q) \in Seq(Events) /\ Len(Tail(q)) = Len(q) - 1
      /\ \A i \in 1..Len(Tail(q)) : Tail(q)[i] = q[i + 1]
      /\ Len(q) \in Nat
  BY HeadTailProperties, LenProperties
<1>2. q[1].type \in FillEvents => <<q[1].order, q[1].stamp>> \in Reported(<<Head(q)>>)
  BY <1>1, ReportedOne
<1>3. ASSUME NEW x \in Reported(q), x \notin Reported(<<Head(q)>>)
      PROVE  x \in Reported(Tail(q))
  <2>1. PICK i \in 1..Len(q) : q[i].type \in FillEvents /\ x = <<q[i].order, q[i].stamp>>
    BY ReportedMember
  <2>2. i # 1
    BY <1>2, <1>3, <2>1
  <2>3. i - 1 \in 1..Len(Tail(q)) /\ Tail(q)[i - 1] = q[i]
    BY <1>1, <2>2
  <2>4. QED
    BY <1>1, <2>1, <2>3, ReportedMember
<1>4. QED
  BY <1>3

\* What the venue sends takes no report away.
LEMMA EmitReports ==
  ASSUME NEW type \in EventTypes, NEW o \in Orders, NEW stamp \in Nat,
         queue \in Seq(Events), Emit(type, o, stamp)
  PROVE  /\ Reported(queue) \subseteq Reported(queue')
         /\ link = "up" /\ type \in FillEvents => <<o, stamp>> \in Reported(queue')
<1> DEFINE e == [type |-> type, order |-> o, stamp |-> stamp]
<1>1. e \in Events /\ e.type = type /\ <<e.order, e.stamp>> = <<o, stamp>>
  BY DEF Events
<1>2. queue' = IF link = "up" THEN Append(queue, e) ELSE queue
  BY DEF Emit
<1>3. QED
  <2> HIDE DEF e
  <2>1. QED
    BY <1>1, <1>2, ReportedAppend

\* Where an execution may be.
Traces == fills \cup Reported(queue) \cup lost

\* A step that only sends, or touches none of the three, keeps every trace.
LEMMA SendKeepsTraces ==
  ASSUME fills' = fills, lost \subseteq lost',
         \/ queue' = queue
         \/ Reported(queue) \subseteq Reported(queue')
  PROVE  Traces \subseteq Traces'
BY DEF Traces

LEMMA VenueKeepsTraces ==
  ASSUME TypeInv, NoFillVanishes, VenueNext
  PROVE  NoFillVanishes'
<1>1. PICK o \in Orders : \/ VenueExecute(o)
                          \/ \E type \in EndEvents : VenueEnds(o, type)
                          \/ ForeignOrder(o)
  BY DEF VenueNext
<1>2. queue \in Seq(Events) /\ filled \in [Orders -> Nat]
  BY DEF TypeInv, TypeOK
<1>3. CASE VenueExecute(o)
  <2> DEFINE k == filled[o] + 1
  <2> DEFINE type == IF k = Qty[o] THEN "fill" ELSE "partial_fill"
  <2>1. PICK stamp \in {k} \cup ({k - 1} \ {0}) :
          /\ Emit(type, o, stamp)
          /\ lost' = IF link = "up" /\ stamp = k THEN lost ELSE lost \cup {<<o, k>>}
    BY <1>3 DEF VenueExecute
  <2>2. stamp \in Nat /\ type \in EventTypes /\ type \in FillEvents
    BY <1>2 DEF EventTypes, FillEvents
  <2>3. Reported(queue) \subseteq Reported(queue')
    <3> HIDE DEF type, k
    <3>1. QED
      BY <1>2, <2>1, <2>2, EmitReports
  <2>4. link = "up" => <<o, stamp>> \in Reported(queue')
    <3> HIDE DEF type, k
    <3>1. QED
      BY <1>2, <2>1, <2>2, EmitReports
  <2>5. <<o, k>> \in Reported(queue') \cup lost'
    BY <2>1, <2>4
  <2>6. fills' = fills /\ lost \subseteq lost'
    BY <1>3, <2>1 DEF VenueExecute, store
  <2>7. Executions' = Executions \cup {<<o, k>>}
    BY <1>3, ExecuteAdds
  <2>8. QED
    <3> HIDE DEF type, k
    <3>1. QED
      BY <2>3, <2>5, <2>6, <2>7 DEF NoFillVanishes
<1>4. ASSUME NEW type \in EndEvents, VenueEnds(o, type) PROVE NoFillVanishes'
  <2>1. Reported(queue) \subseteq Reported(queue')
    BY <1>2, <1>4, EmitReports DEF VenueEnds, EventTypes
  <2>2. Executions' = Executions /\ fills' = fills /\ lost' = lost
    BY <1>4 DEF VenueEnds, Executions, store, history
  <2>3. QED
    BY <2>1, <2>2 DEF NoFillVanishes
<1>5. CASE ForeignOrder(o)
  <2>1. Reported(queue) \subseteq Reported(queue')
    BY <1>2, <1>5, EmitReports DEF ForeignOrder, Accept, EventTypes
  <2>2. Executions' = Executions /\ fills' = fills /\ lost' = lost
    BY <1>5 DEF ForeignOrder, Executions, store, history
  <2>3. QED
    BY <2>1, <2>2 DEF NoFillVanishes
<1>6. QED
  BY <1>1, <1>3, <1>4, <1>5

LEMMA SubmitterKeepsTraces == ASSUME TypeInv, SubmitterNext PROVE Traces \subseteq Traces'
<1>1. /\ fills' = fills /\ lost' = lost
      /\ queue' = queue \/ \E o \in Orders : Accept(o)
  BY DEF SubmitterNext, Submit, RestAccepts, RestRefuses, RestServerError,
         RestTimeout, RecordSubmitted, RecordRejected, Cancel, CancelFails,
         RecordCanceled, SubmitterCrash, MaybeAccept, store, stream, history
<1>2. ASSUME NEW o \in Orders, Accept(o) PROVE Reported(queue) \subseteq Reported(queue')
  BY <1>2, EmitReports DEF Accept, EventTypes, TypeInv, TypeOK
<1>3. QED
  BY <1>1, <1>2, SendKeepsTraces

LEMMA StreamKeepsTraces == ASSUME TypeInv, StreamNext PROVE Traces \subseteq Traces'
<1>1. CASE Connect \/ LinkCloses
  BY <1>1, SendKeepsTraces DEF Connect, LinkCloses, store, history
<1>2. CASE LinkDrops
  BY <1>2 DEF LinkDrops, Traces, store
<1>3. CASE Redeliver
  <2>1. PICK x \in Executions :
          Emit(IF x[2] = Qty[x[1]] THEN "fill" ELSE "partial_fill", x[1], x[2])
    BY <1>3 DEF Redeliver
  <2>2. x[1] \in Orders /\ x[2] \in Nat
    BY ExecutionsMember DEF TypeInv, TypeOK
  <2>3. (IF x[2] = Qty[x[1]] THEN "fill" ELSE "partial_fill") \in EventTypes
    BY DEF EventTypes, FillEvents
  <2>4. Reported(queue) \subseteq Reported(queue')
    BY <2>1, <2>2, <2>3, EmitReports DEF TypeInv, TypeOK
  <2>5. QED
    BY <1>3, <2>4, SendKeepsTraces DEF Redeliver, store
<1>4. QED
  BY <1>1, <1>2, <1>3 DEF StreamNext

LEMMA HandlerKeepsTraces ==
  ASSUME TypeInv, HandOK, HandlerNext
  PROVE  Traces \subseteq Traces'
<1>1. queue \in Seq(Events) /\ queue # << >>
  BY DEF TypeInv, TypeOK, HandlerNext, EnsureOrder, BindOrder, PersistFill, SetStatus,
         RebuildPosition, HandlerRaises, HandlerStep
<1>2. Event \in Events /\ Reported(queue) \subseteq Reported(<<Event>>) \cup Reported(Tail(queue))
  BY <1>1, QueueTypes, ReportedHeadTail DEF Event
<1>3. CASE EnsureOrder \/ BindOrder
  BY <1>3, SendKeepsTraces DEF EnsureOrder, BindOrder, history
<1>4. CASE PersistFill
  BY <1>4 DEF PersistFill, SaveFill, Traces, history
<1>5. CASE SetStatus
  <2>1. CASE queue' = queue
    BY <1>5, <2>1, SendKeepsTraces DEF SetStatus, history
  <2>2. CASE Event.type \notin FillEvents /\ queue' = Tail(queue)
    <3>1. Reported(<<Event>>) = {}
      BY <1>2, <2>2, ReportedOne
    <3>2. QED
      BY <1>2, <1>5, <2>2, <3>1 DEF SetStatus, Traces, history
  <2>3. QED
    BY <1>5, <2>1, <2>2 DEF SetStatus
<1>6. CASE RebuildPosition
  <2>1. Reported(<<Event>>) \subseteq fills
    BY <1>2, <1>6, ReportedOne DEF RebuildPosition, HandlerStep, HandOK
  <2>2. QED
    BY <1>2, <1>6, <2>1 DEF RebuildPosition, Traces, history
<1>7. CASE HandlerRaises
  BY <1>2, <1>7 DEF HandlerRaises, Traces, store
<1>8. QED
  BY <1>3, <1>4, <1>5, <1>6, <1>7 DEF HandlerNext

LEMMA ExecutorKeepsTraces == ASSUME ExecutorNext PROVE Traces \subseteq Traces'
<1>1. CASE ExecutorStart \/ CliReconcile
  BY <1>1, SendKeepsTraces DEF ExecutorStart, CliReconcile, store, stream
<1>2. CASE ExecutorCrash
  BY <1>2 DEF ExecutorCrash, Traces, store
<1>3. QED
  BY <1>1, <1>2 DEF ExecutorNext

LEMMA ReconcileKeepsTraces == ASSUME ReconcileNext PROVE Traces \subseteq Traces'
<1>1. PICK r \in Reconcilers : ReconcilerStep(r)
  BY DEF ReconcileNext, ReconcilerStep
<1>2. lost' = lost
  BY <1>1 DEF ReconcilerStep, GetOrders, GetPositions, ReadOpenOrders, ReadPositions,
              FinishReconcile, ReconcileFails, AdoptAlien, AdoptionCollides,
              BindAlien, QueryGhost, ResolveGhost, GhostUnresolved, RejectStray, history
<1>3. QED
  BY <1>2, ReconcileFrame, SendKeepsTraces

LEMMA NoFillVanishesStep ==
  ASSUME TypeInv, HandOK, NoFillVanishes, [Next]_vars
  PROVE  NoFillVanishes'
<1>1. CASE VenueNext
  BY <1>1, VenueKeepsTraces
<1>2. ASSUME ~ VenueNext PROVE NoFillVanishes'
  <2>1. Traces \subseteq Traces'
    <3>1. CASE UNCHANGED vars
      BY <3>1, SendKeepsTraces DEF vars, store, stream, history
    <3>2. QED
      BY <1>2, <3>1, SubmitterKeepsTraces, StreamKeepsTraces, HandlerKeepsTraces,
         ExecutorKeepsTraces, ReconcileKeepsTraces DEF Next
  <2>2. filled' = filled
    <3>1. ~ \E o \in Orders : VenueExecute(o)
      BY <1>2 DEF VenueNext
    <3>2. QED
      BY <3>1, FilledFrame
  <2>3. Executions' = Executions
    BY <2>2 DEF Executions
  <2>4. QED
    BY <2>1, <2>3 DEF NoFillVanishes, Traces
<1>3. QED
  BY <1>1, <1>2

-----------------------------------------------------------------------------
(* The inductive invariant *)

Inv ==
  /\ TypeInv
  /\ VenueOK
  /\ QueueOK
  /\ HeldOK
  /\ WritesOK
  /\ HandOK
  /\ PersistedFirst
  /\ BoundOnlyIfAccepted
  /\ FilledIsTrue
  /\ FillsAreExecutions
  /\ NoFillVanishes

LEMMA InvInit == Init => Inv
<1> SUFFICES ASSUME Init PROVE Inv
  OBVIOUS
<1>1. TypeInv /\ VenueOK
  BY TypeInit, VenueOKInit
<1>2. QueueOK
  BY EmptySeq DEF Init, QueueOK
<1>3. HeldOK
  BY DEF Init, HeldOK
<1>10. WritesOK
  BY DEF Init, WritesOK
<1>4. HandOK
  BY DEF Init, HandOK
<1>5. PersistedFirst
  BY DEF Init, PersistedFirst, Accepted
<1>6. BoundOnlyIfAccepted /\ FilledIsTrue
  BY DEF Init, BoundOnlyIfAccepted, FilledIsTrue, Absent
<1>7. FillsAreExecutions
  BY DEF Init, FillsAreExecutions
<1>8. NoFillVanishes
  <2>1. Executions = {}
    BY ExecutionsMember DEF Init
  <2>2. QED
    BY <2>1 DEF NoFillVanishes
<1>9. QED
  BY <1>1, <1>2, <1>3, <1>4, <1>5, <1>6, <1>7, <1>8, <1>10 DEF Inv

LEMMA InvStep == Inv /\ [Next]_vars => Inv'
<1> SUFFICES ASSUME Inv, [Next]_vars PROVE Inv'
  OBVIOUS
<1>1. TypeInv'
  BY TypeStep DEF Inv
<1>2. VenueOK'
  BY VenueOKStep DEF Inv
<1>3. QueueOK'
  BY QueueOKStep DEF Inv
<1>4. HeldOK'
  BY HeldOKStep DEF Inv
<1>11. WritesOK'
  BY WritesOKStep DEF Inv
<1>5. HandOK'
  BY HandOKStep DEF Inv
<1>6. PersistedFirst'
  BY PersistedFirstStep DEF Inv
<1>7. BoundOnlyIfAccepted' /\ FilledIsTrue'
  BY RowsOKStep DEF Inv
<1>8. FillsAreExecutions'
  BY FillsOKStep DEF Inv
<1>9. NoFillVanishes'
  BY NoFillVanishesStep DEF Inv
<1>10. QED
  BY <1>1, <1>2, <1>3, <1>4, <1>5, <1>6, <1>7, <1>8, <1>9, <1>11 DEF Inv

LEMMA InvInvariance == Spec => []Inv
BY InvInit, InvStep, PTL DEF Spec

\* Persist-then-submit: however submitters, handler and reconcilers interleave
\* and wherever a process dies, an order of ours that Alpaca has taken is in the
\* orders table.
THEOREM NothingStranded == Spec => []NoStrandedOrder
<1>1. Inv => NoStrandedOrder
  BY DEF Inv, PersistedFirst, NoStrandedOrder
<1>2. QED
  BY InvInvariance, <1>1, PTL

\* Submitter, fill handler and both reconcilers bind an alpaca id only to an
\* order the venue has taken.
THEOREM BindingIsSound == Spec => []BoundOnlyIfAccepted
<1>1. Inv => BoundOnlyIfAccepted
  BY DEF Inv
<1>2. QED
  BY InvInvariance, <1>1, PTL

\* No process, whatever it read before, calls an order FILLED that the venue
\* has not filled completely.
THEOREM FilledRowsAreTrue == Spec => []FilledIsTrue
<1>1. Inv => FilledIsTrue
  BY DEF Inv
<1>2. QED
  BY InvInvariance, <1>1, PTL

\* However often an event is delivered, the fills table holds only executions
\* of the venue, each once.
THEOREM FillsAreSound == Spec => []FillsAreExecutions
<1>1. Inv => FillsAreExecutions
  BY DEF Inv
<1>2. QED
  BY InvInvariance, <1>1, PTL

\* Every execution is stored, or its event is queued, or it was lost to a gap,
\* a crash, a failed store call or a repeated timestamp.
THEOREM FillsAreComplete == Spec => []NoFillVanishes
<1>1. Inv => NoFillVanishes
  BY DEF Inv
<1>2. QED
  BY InvInvariance, <1>1, PTL
-----------------------------------------------------------------------------
(* The position *)

\* The stream delivers and the handler works only while the executor runs, and
\* only a start-up reconcile brings it up.
StreamOK ==
  /\ exec # "running" => link = "down" /\ queue = << >> /\ hpc = "idle"
  /\ rpc["startup"] # "off" <=> exec = "reconciling"

Undisturbed == lost = {} /\ rpc["cli"] = "unused"

\* A fill that is stored and not in the position row yet.
Applying == hpc \in {"status", "rebuild"} /\ Event.type \in FillEvents

PositionOK == Undisturbed => Applying \/ position = NetQuantity(fills)

\* What start-up reconcile has read is still so: with the stream down, whatever
\* trades is lost.
SnapshotOK ==
  Undisturbed =>
    /\ rpc["startup"] \in {"open_orders", "all_positions", "repair", "adopt", "resolve"}
         => snapPos["startup"] = VenuePosition
    /\ rpc["startup"] \in {"repair", "adopt", "resolve"} => localPos["startup"] = position

\* A loss is for good.
LEMMA LostGrows == ASSUME [Next]_vars PROVE lost \subseteq lost'
<1>1. CASE VenueNext
  BY <1>1 DEF VenueNext, VenueExecute, VenueEnds, ForeignOrder, history
<1>2. CASE SubmitterNext
  BY <1>2 DEF SubmitterNext, Submit, RestAccepts, RestRefuses, RestServerError,
              RestTimeout, RecordSubmitted, RecordRejected, Cancel, CancelFails,
              RecordCanceled, SubmitterCrash, history
<1>3. CASE StreamNext
  BY <1>3 DEF StreamNext, Connect, LinkDrops, LinkCloses, Redeliver, history
<1>4. CASE HandlerNext
  BY <1>4 DEF HandlerNext, EnsureOrder, BindOrder, PersistFill, SetStatus,
              RebuildPosition, HandlerRaises, history
<1>5. CASE ExecutorNext
  BY <1>5 DEF ExecutorNext, ExecutorStart, CliReconcile, ExecutorCrash
<1>6. CASE ReconcileNext
  <2>1. PICK r \in Reconcilers : ReconcilerStep(r)
    BY <1>6 DEF ReconcileNext, ReconcilerStep
  <2>2. QED
    BY <2>1 DEF ReconcilerStep, GetOrders, GetPositions, ReadOpenOrders, ReadPositions,
                FinishReconcile, ReconcileFails, AdoptAlien, AdoptionCollides,
                BindAlien, QueryGhost, ResolveGhost, GhostUnresolved, RejectStray, history
<1>7. CASE UNCHANGED vars
  BY <1>7 DEF vars, history
<1>8. QED
  BY <1>1, <1>2, <1>3, <1>4, <1>5, <1>6, <1>7 DEF Next

\* What a reconciler holds, and where it stands.
Held(r) == <<rpc[r], snapOpen[r], snapPos[r], aliens[r], ghosts[r], strays[r],
             localPos[r], writes[r]>>

\* A reconciler's own steps change what it holds, and so do start, crash and
\* the reconcile command.
LEMMA HeldFrame ==
  ASSUME TypeInv, [Next]_vars, NEW p \in Reconcilers
  PROVE  UNCHANGED Held(p) \/ ReconcilerStep(p) \/ ExecutorStart \/ ExecutorCrash \/ CliReconcile
<1>1. CASE VenueNext
  BY <1>1 DEF VenueNext, VenueExecute, VenueEnds, ForeignOrder, recon, Held
<1>2. CASE SubmitterNext
  BY <1>2 DEF SubmitterNext, Submit, RestAccepts, RestRefuses, RestServerError,
              RestTimeout, RecordSubmitted, RecordRejected, Cancel, CancelFails,
              RecordCanceled, SubmitterCrash, recon, Held
<1>3. CASE StreamNext
  BY <1>3 DEF StreamNext, Connect, LinkDrops, LinkCloses, Redeliver, recon, Held
<1>4. CASE HandlerNext
  BY <1>4 DEF HandlerNext, EnsureOrder, BindOrder, PersistFill, SetStatus,
              RebuildPosition, HandlerRaises, recon, Held
<1>5. CASE ExecutorNext
  BY <1>5 DEF ExecutorNext
<1>6. CASE ReconcileNext
  <2>1. PICK r \in Reconcilers : ReconcilerStep(r)
    BY <1>6 DEF ReconcileNext, ReconcilerStep
  <2>2. CASE r # p
    BY <2>1, <2>2 DEF ReconcilerStep, GetOrders, GetPositions, ReadOpenOrders, ReadPositions,
                FinishReconcile, ReconcileFails, AdoptAlien, AdoptionCollides, Abort, Forget,
                BindAlien, QueryGhost, ResolveGhost, GhostUnresolved, RejectStray,
                ReconcileStep, Held, TypeInv, TypeOK
  <2>3. QED
    BY <2>1, <2>2
<1>7. CASE UNCHANGED vars
  BY <1>7 DEF vars, recon, Held
<1>8. QED
  BY <1>1, <1>2, <1>3, <1>4, <1>5, <1>6, <1>7 DEF Next

\* A reconciler that steps has begun, and is not new afterwards.
LEMMA StepsBegun ==
  ASSUME TypeInv, NEW r \in Reconcilers, ReconcilerStep(r)
  PROVE  rpc[r] \notin {"unused", "off"} /\ rpc'[r] # "unused"
BY DEF ReconcilerStep, GetOrders, GetPositions, ReadOpenOrders, ReadPositions,
       FinishReconcile, ReconcileFails, AdoptAlien, AdoptionCollides, Abort, Forget,
       BindAlien, QueryGhost, ResolveGhost, GhostUnresolved, RejectStray,
       ReconcileStep, TypeInv, TypeOK

\* The reconcile command runs once.
LEMMA UnusedBefore ==
  ASSUME TypeInv, [Next]_vars, rpc'["cli"] = "unused"
  PROVE  rpc["cli"] = "unused"
<1>1. "cli" \in Reconcilers /\ rpc \in [Reconcilers -> ReconcileStates]
  BY DEF TypeInv, TypeOK, Reconcilers
<1>2. CASE UNCHANGED Held("cli")
  BY <1>2 DEF Held
<1>3. CASE ExecutorStart \/ ExecutorCrash \/ CliReconcile
  BY <1>1, <1>3 DEF ExecutorStart, ExecutorCrash, Forget, CliReconcile
<1>4. QED
  BY <1>1, <1>2, <1>3, HeldFrame, StepsBegun

LEMMA UndisturbedBefore ==
  ASSUME TypeInv, [Next]_vars, Undisturbed'
  PROVE  Undisturbed
BY LostGrows, UnusedBefore DEF Undisturbed

LEMMA StreamOKInit == Init => StreamOK
BY DEF Init, StreamOK, Reconcilers

LEMMA StreamOKStep == ASSUME TypeInv, StreamOK, [Next]_vars PROVE StreamOK'
<1>1. /\ "startup" \in Reconcilers /\ rpc \in [Reconcilers -> ReconcileStates]
      /\ hpc # "idle" => queue # << >>
  BY DEF TypeInv, TypeOK, Reconcilers
<1>2. ASSUME UNCHANGED <<exec, link, hpc, rpc>>, queue' = queue \/ link = "up"
      PROVE  StreamOK'
  BY <1>2 DEF StreamOK
<1>3. CASE VenueNext
  BY <1>2, <1>3 DEF VenueNext, VenueExecute, VenueEnds, ForeignOrder, Accept, Emit, recon
<1>4. CASE SubmitterNext
  BY <1>2, <1>4 DEF SubmitterNext, Submit, RestAccepts, RestRefuses, RestServerError,
              RestTimeout, RecordSubmitted, RecordRejected, Cancel, CancelFails,
              RecordCanceled, SubmitterCrash, MaybeAccept, Accept, Emit, recon, stream
<1>5. CASE StreamNext
  BY <1>5 DEF StreamNext, Connect, LinkDrops, LinkCloses, Redeliver, recon, StreamOK
<1>6. CASE HandlerNext
  <2>1. exec = "running" /\ UNCHANGED <<exec, rpc>>
    BY <1>1, <1>6 DEF HandlerNext, EnsureOrder, BindOrder, PersistFill, SetStatus,
              RebuildPosition, HandlerRaises, HandlerStep, recon, StreamOK
  <2>2. QED
    BY <2>1 DEF StreamOK
<1>7. CASE ExecutorNext
  <2>1. CASE ExecutorStart
    BY <1>1, <2>1 DEF ExecutorStart, stream, StreamOK
  <2>2. CASE CliReconcile
    BY <1>1, <2>2 DEF CliReconcile, stream, StreamOK
  <2>3. CASE ExecutorCrash
    BY <1>1, <2>3 DEF ExecutorCrash, Forget, StreamOK
  <2>4. QED
    BY <1>7, <2>1, <2>2, <2>3 DEF ExecutorNext
<1>8. CASE ReconcileNext
  <2>1. PICK r \in Reconcilers : ReconcilerStep(r)
    BY <1>8 DEF ReconcileNext, ReconcilerStep
  <2>2. UNCHANGED <<link, queue, hpc>>
    BY <2>1 DEF ReconcilerStep, GetOrders, GetPositions, ReadOpenOrders, ReadPositions,
                FinishReconcile, ReconcileFails, AdoptAlien, AdoptionCollides,
                BindAlien, QueryGhost, ResolveGhost, GhostUnresolved, RejectStray, stream
  <2>3. CASE FinishReconcile(r)
    <3>1. r = "startup" => exec = "reconciling"
      BY <2>3 DEF FinishReconcile, StreamOK
    <3>2. QED
      BY <1>1, <2>2, <2>3, <3>1 DEF FinishReconcile, Forget, StreamOK, Reconcilers
  <2>4. ASSUME Abort(r), r = "startup" => rpc["startup"] # "off" PROVE StreamOK'
    BY <1>1, <2>2, <2>4 DEF Abort, Forget, StreamOK, Reconcilers
  <2>5. CASE ReconcileFails(r) \/ \E o \in Orders : AdoptionCollides(r, o)
    BY <2>4, <2>5 DEF ReconcileFails, AdoptionCollides
  <2>6. CASE \/ GetOrders(r) \/ GetPositions(r) \/ ReadOpenOrders(r) \/ ReadPositions(r)
             \/ BindAlien(r) \/ ResolveGhost(r)
             \/ \E o \in Orders : \/ AdoptAlien(r, o) \/ QueryGhost(r, o)
                                  \/ GhostUnresolved(r, o) \/ RejectStray(r, o)
    <3>1. exec' = exec
      BY <2>6 DEF GetOrders, GetPositions, ReadOpenOrders, ReadPositions, AdoptAlien,
                  BindAlien, QueryGhost, ResolveGhost, GhostUnresolved, RejectStray
    <3>2. rpc' = rpc \/ \E from, to : from # "off" /\ to # "off" /\ ReconcileStep(r, from, to)
      BY <2>6 DEF GetOrders, GetPositions, ReadOpenOrders, ReadPositions, AdoptAlien,
                  BindAlien, QueryGhost, ResolveGhost, GhostUnresolved, RejectStray
    <3>3. QED
      BY <1>1, <2>2, <3>1, <3>2 DEF ReconcileStep, StreamOK
  <2>7. QED
    BY <2>1, <2>3, <2>5, <2>6 DEF ReconcilerStep
<1>9. CASE UNCHANGED vars
  BY <1>2, <1>9 DEF vars, stream, recon
<1>10. QED
  BY <1>3, <1>4, <1>5, <1>6, <1>7, <1>8, <1>9 DEF Next

\* What executions are stored, when none is lost and none is on its way.
LEMMA SettledFills ==
  ASSUME FillsAreExecutions, NoFillVanishes, lost = {}, queue = << >>
  PROVE  NetQuantity(fills) = VenuePosition
<1>1. Reported(queue) = {}
  BY DEF Reported
<1>2. fills = Executions
  BY <1>1 DEF FillsAreExecutions, NoFillVanishes
<1>3. QED
  BY <1>2 DEF VenuePosition


\* A trade while the executor reconciles is lost.
LEMMA VenuePositionStays ==
  ASSUME StreamOK, [Next]_vars, Undisturbed', exec = "reconciling"
  PROVE  VenuePosition' = VenuePosition
<1>1. ~ \E o \in Orders : VenueExecute(o)
  BY DEF VenueExecute, StreamOK, Undisturbed
<1>2. filled' = filled
  BY <1>1, FilledFrame
<1>3. QED
  BY <1>2 DEF VenuePosition, Executions, NetQuantity

\* Handler and reconcilers write the position row, nobody else.
LEMMA PositionFrame ==
  ASSUME [Next]_vars
  PROVE  \/ position' = position
         \/ RebuildPosition
         \/ \E r \in Reconcilers : FinishReconcile(r)
<1>1. CASE VenueNext
  BY <1>1 DEF VenueNext, VenueExecute, VenueEnds, ForeignOrder, store
<1>2. CASE SubmitterNext
  BY <1>2 DEF SubmitterNext, Submit, RestAccepts, RestRefuses, RestServerError,
              RestTimeout, RecordSubmitted, RecordRejected, Cancel, CancelFails,
              RecordCanceled, SubmitterCrash, store
<1>3. CASE StreamNext
  BY <1>3 DEF StreamNext, Connect, LinkDrops, LinkCloses, Redeliver, store
<1>4. CASE HandlerNext
  BY <1>4 DEF HandlerNext, EnsureOrder, BindOrder, PersistFill, SetStatus, HandlerRaises, store
<1>5. CASE ExecutorNext
  BY <1>5 DEF ExecutorNext, ExecutorStart, ExecutorCrash, CliReconcile, store
<1>6. CASE ReconcileNext
  <2>1. PICK r \in Reconcilers : ReconcilerStep(r)
    BY <1>6 DEF ReconcileNext, ReconcilerStep
  <2>2. QED
    BY <2>1 DEF ReconcilerStep, GetOrders, GetPositions, ReadOpenOrders, ReadPositions,
                ReconcileFails, AdoptAlien, AdoptionCollides,
                BindAlien, QueryGhost, ResolveGhost, GhostUnresolved, RejectStray, store
<1>7. CASE UNCHANGED vars
  BY <1>7 DEF vars, store
<1>8. QED
  BY <1>1, <1>2, <1>3, <1>4, <1>5, <1>6, <1>7 DEF Next

\* What the position rests on.
PositionInv == Inv /\ StreamOK /\ PositionOK /\ SnapshotOK

\* With nothing lost, the row start-up reconcile could zero is zero already.
LEMMA FinishKeepsPosition ==
  ASSUME PositionInv, [Next]_vars, Undisturbed', NEW r \in Reconcilers, FinishReconcile(r)
  PROVE  position' = position
<1>1. Undisturbed
  BY UndisturbedBefore DEF PositionInv, Inv
<1>2. r = "startup" /\ rpc["startup"] = "repair"
  BY <1>1 DEF FinishReconcile, Undisturbed, Reconcilers
<1>3. exec = "reconciling" /\ queue = << >> /\ ~Applying
  BY <1>2 DEF PositionInv, StreamOK, Applying
<1>4. position = VenuePosition
  BY <1>1, <1>3, SettledFills DEF PositionInv, Inv, PositionOK, Undisturbed
<1>5. snapPos["startup"] = VenuePosition /\ localPos["startup"] = position
  BY <1>1, <1>2 DEF PositionInv, SnapshotOK
<1>6. QED
  BY <1>2, <1>4, <1>5 DEF FinishReconcile

LEMMA PositionOKStep == ASSUME PositionInv, [Next]_vars PROVE PositionOK'
<1> SUFFICES ASSUME Undisturbed' PROVE Applying' \/ position' = NetQuantity(fills')
  BY DEF PositionOK
<1>1. Undisturbed /\ TypeInv /\ HandOK
  BY UndisturbedBefore DEF PositionInv, Inv
<1>2. queue \in Seq(Events) /\ (hpc # "idle" => queue # << >>)
  BY <1>1 DEF TypeInv, TypeOK
<1>3. CASE RebuildPosition
  BY <1>3 DEF RebuildPosition, NetQuantity
<1>4. CASE PersistFill
  <2>1. Event' = Event /\ Event.type \in FillEvents
    BY <1>1, <1>4 DEF PersistFill, HandlerStep, HandOK, Event
  <2>2. QED
    BY <1>4, <2>1 DEF PersistFill, HandlerStep, Applying
<1>5. ASSUME ~RebuildPosition, ~PersistFill PROVE Applying' \/ position' = NetQuantity(fills')
  <2>1. fills' = fills /\ position' = position
    BY <1>5, FillsFrame, PositionFrame, FinishKeepsPosition
  <2>2. CASE position = NetQuantity(fills)
    BY <2>1, <2>2 DEF NetQuantity
  <2>3. CASE Applying
    <3>1. hpc \in {"status", "rebuild"} /\ Event.type \in FillEvents /\ queue # << >>
      BY <1>2, <2>3 DEF Applying
    <3>2. Event \in Events /\ Event = queue[1] /\ Len(queue) \in Nat /\ 1 \in 1..Len(queue)
      BY <1>2, <3>1, HeadTailProperties, LenProperties DEF Event
    <3>3. Reported(<<Event>>) # {} /\ Reported(queue) # {}
      BY <1>2, <3>1, <3>2, ReportedOne, ReportedMember
    <3>4. CASE SetStatus
      <4>1. hpc' = "rebuild" /\ queue' = queue
        BY <3>1, <3>4 DEF SetStatus, HandlerStep
      <4>2. QED
        BY <3>1, <4>1 DEF Applying, Event
    <3>5. ~HandlerRaises /\ ~ExecutorCrash
      BY <3>3 DEF HandlerRaises, ExecutorCrash, Undisturbed
    <3>6. ~EnsureOrder /\ ~BindOrder
      BY <3>1 DEF EnsureOrder, BindOrder, HandlerStep
    <3>7. CASE ~HandlerNext
      <4>1. hpc' = hpc
        <5>1. CASE VenueNext
          BY <5>1 DEF VenueNext, VenueExecute, VenueEnds, ForeignOrder
        <5>2. CASE SubmitterNext
          BY <5>2 DEF SubmitterNext, Submit, RestAccepts, RestRefuses, RestServerError,
                      RestTimeout, RecordSubmitted, RecordRejected, Cancel, CancelFails,
                      RecordCanceled, SubmitterCrash, stream
        <5>3. CASE StreamNext
          BY <5>3 DEF StreamNext, Connect, LinkDrops, LinkCloses, Redeliver
        <5>4. CASE ExecutorNext
          BY <3>5, <5>4 DEF ExecutorNext, ExecutorStart, CliReconcile, stream
        <5>5. CASE ReconcileNext
          <6>1. PICK r \in Reconcilers : ReconcilerStep(r)
            BY <5>5 DEF ReconcileNext, ReconcilerStep
          <6>2. QED
            BY <6>1 DEF ReconcilerStep, GetOrders, GetPositions, ReadOpenOrders,
                        ReadPositions, FinishReconcile, ReconcileFails, AdoptAlien,
                        AdoptionCollides, BindAlien, QueryGhost, ResolveGhost,
                        GhostUnresolved, RejectStray, stream
        <5>6. CASE UNCHANGED vars
          BY <5>6 DEF vars, stream
        <5>7. QED
          BY <3>7, <5>1, <5>2, <5>3, <5>4, <5>5, <5>6 DEF Next
      <4>2. Event' = Event
        BY <1>1, <3>1, <3>7, <4>1, HandFrame
      <4>3. QED
        BY <3>1, <4>1, <4>2 DEF Applying
    <3>8. QED
      BY <1>5, <3>4, <3>5, <3>6, <3>7 DEF HandlerNext
  <2>4. QED
    BY <1>1, <2>2, <2>3 DEF PositionInv, PositionOK
<1>6. QED
  BY <1>3, <1>4, <1>5

LEMMA SnapshotOKStep == ASSUME PositionInv, [Next]_vars PROVE SnapshotOK'
<1> DEFINE Read == {"open_orders", "all_positions", "repair", "adopt", "resolve"}
           Compared == {"repair", "adopt", "resolve"}
<1> SUFFICES ASSUME Undisturbed'
             PROVE  /\ rpc'["startup"] \in Read => snapPos'["startup"] = VenuePosition'
                    /\ rpc'["startup"] \in Compared => localPos'["startup"] = position'
  BY DEF SnapshotOK
<1>1. Undisturbed /\ TypeInv /\ StreamOK
  BY UndisturbedBefore DEF PositionInv, Inv
<1>2. /\ "startup" \in Reconcilers /\ Reconcilers = {"startup", "cli"}
      /\ rpc \in [Reconcilers -> ReconcileStates]
      /\ snapPos \in [Reconcilers -> Int] /\ localPos \in [Reconcilers -> Int]
  BY <1>1 DEF TypeInv, TypeOK, Reconcilers
<1>3. exec = "reconciling" => VenuePosition' = VenuePosition /\ position' = position
  <2>1. exec = "reconciling" => ~RebuildPosition
    BY <1>1 DEF StreamOK, RebuildPosition, HandlerStep
  <2>2. QED
    BY <1>1, <2>1, VenuePositionStays, PositionFrame, FinishKeepsPosition
<1>4. /\ rpc["startup"] \in Read => snapPos["startup"] = VenuePosition
      /\ rpc["startup"] \in Compared => localPos["startup"] = position
      /\ rpc["startup"] # "off" => exec = "reconciling"
  BY <1>1 DEF PositionInv, SnapshotOK, StreamOK
<1>5. ASSUME rpc' = rpc, snapPos' = snapPos, localPos' = localPos PROVE SnapshotOK'
  BY <1>3, <1>4, <1>5 DEF SnapshotOK
<1>6. CASE ReconcileNext
  <2>1. PICK r \in Reconcilers : ReconcilerStep(r)
    BY <1>6 DEF ReconcileNext, ReconcilerStep
  <2>2. r = "startup" /\ rpc[r] # "off" => exec = "reconciling"
    BY <1>4
  <2>3. rpc[r] # "unused"
    BY <2>1 DEF ReconcilerStep, GetOrders, GetPositions, ReadOpenOrders, ReadPositions,
                FinishReconcile, ReconcileFails, AdoptAlien, AdoptionCollides, BindAlien,
                QueryGhost, ResolveGhost, GhostUnresolved, RejectStray, ReconcileStep
  <2>4. r = "startup"
    BY <1>1, <1>2, <2>3 DEF Undisturbed
  <2>5. CASE GetOrders(r)
    BY <1>2, <2>4, <2>5 DEF GetOrders, ReconcileStep
  <2>6. CASE GetPositions(r)
    BY <1>2, <1>3, <1>4, <2>4, <2>6 DEF GetPositions, ReconcileStep
  <2>7. CASE ReadOpenOrders(r)
    BY <1>2, <1>3, <1>4, <2>4, <2>7 DEF ReadOpenOrders, ReconcileStep
  <2>8. CASE ReadPositions(r)
    BY <1>2, <1>3, <1>4, <2>4, <2>8 DEF ReadPositions, ReconcileStep
  <2>9. CASE BindAlien(r) \/ ResolveGhost(r)
             \/ \E o \in Orders : \/ AdoptAlien(r, o) \/ QueryGhost(r, o)
                                  \/ GhostUnresolved(r, o) \/ RejectStray(r, o)
    <3>1. rpc[r] \in Compared /\ UNCHANGED <<snapPos, localPos>>
      BY <2>9 DEF AdoptAlien, BindAlien, QueryGhost, ResolveGhost, GhostUnresolved,
                  RejectStray, ReconcileStep
    <3>2. QED
      BY <1>3, <1>4, <2>4, <3>1
  <2>10. CASE FinishReconcile(r) \/ ReconcileFails(r) \/ \E o \in Orders : AdoptionCollides(r, o)
    <3>1. rpc'["startup"] = "off"
      BY <1>2, <2>4, <2>10 DEF FinishReconcile, ReconcileFails, AdoptionCollides, Abort, Forget
    <3>2. QED
      BY <3>1
  <2>11. QED
    BY <2>1, <2>5, <2>6, <2>7, <2>8, <2>9, <2>10 DEF ReconcilerStep
<1>7. CASE ExecutorNext
  <2>1. ~CliReconcile
    BY <1>1, <1>2 DEF CliReconcile, Undisturbed, TypeInv, TypeOK
  <2>2. rpc'["startup"] \in {"get_orders", "off"}
    BY <1>2, <1>7, <2>1 DEF ExecutorNext, ExecutorStart, ExecutorCrash, Forget
  <2>3. QED
    BY <2>2
<1>8. ASSUME ~ReconcileNext, ~ExecutorNext
      PROVE  rpc' = rpc /\ snapPos' = snapPos /\ localPos' = localPos
  <2>1. CASE VenueNext
    BY <2>1 DEF VenueNext, VenueExecute, VenueEnds, ForeignOrder, recon
  <2>2. CASE SubmitterNext
    BY <2>2 DEF SubmitterNext, Submit, RestAccepts, RestRefuses, RestServerError,
                RestTimeout, RecordSubmitted, RecordRejected, Cancel, CancelFails,
                RecordCanceled, SubmitterCrash, recon
  <2>3. CASE StreamNext
    BY <2>3 DEF StreamNext, Connect, LinkDrops, LinkCloses, Redeliver, recon
  <2>4. CASE HandlerNext
    BY <2>4 DEF HandlerNext, EnsureOrder, BindOrder, PersistFill, SetStatus,
                RebuildPosition, HandlerRaises, recon
  <2>5. CASE UNCHANGED vars
    BY <2>5 DEF vars, recon
  <2>6. QED
    BY <1>8, <2>1, <2>2, <2>3, <2>4, <2>5 DEF Next
<1>9. QED
  BY <1>3, <1>4, <1>6, <1>7, <1>8

LEMMA PositionInit == Init => PositionInv
<1> SUFFICES ASSUME Init PROVE PositionInv
  OBVIOUS
<1>1. Inv /\ StreamOK
  BY InvInit, StreamOKInit
<1>2. queue = << >> /\ lost = {} /\ position = 0 /\ fills = {}
  BY DEF Init
<1>3. NetQuantity({}) = 0
  <2>1. {x \in {} : Side[x[1]] = "buy"} = {} /\ {x \in {} : Side[x[1]] = "sell"} = {}
    OBVIOUS
  <2>2. QED
    BY <2>1, FS_EmptySet DEF NetQuantity
<1>4. PositionOK
  BY <1>2, <1>3 DEF PositionOK
<1>5. SnapshotOK
  BY DEF Init, SnapshotOK, Reconcilers
<1>6. QED
  BY <1>1, <1>4, <1>5 DEF PositionInv

\* The position row is the venue's net position whenever the events are applied,
\* nothing was lost and no second reconcile ran: for every number of orders,
\* partial fills, redeliveries and restarts of the executor.
THEOREM SettledPositions == Spec => []SettledPositionMatchesVenue
<1>1. PositionInv /\ [Next]_vars => PositionInv'
  BY InvStep, StreamOKStep, PositionOKStep, SnapshotOKStep DEF PositionInv, Inv
<1>2. PositionInv => SettledPositionMatchesVenue
  <2> SUFFICES ASSUME PositionInv, queue = << >>, Undisturbed PROVE position = VenuePosition
    BY DEF SettledPositionMatchesVenue, Undisturbed
  <2>1. ~Applying
    BY DEF PositionInv, Inv, TypeInv, TypeOK, Applying
  <2>2. QED
    BY <2>1, SettledFills DEF PositionInv, Inv, PositionOK, Undisturbed
<1>3. QED
  BY PositionInit, <1>1, <1>2, PTL DEF Spec

-----------------------------------------------------------------------------
(* Ghosts *)

\* Where a submitter stands that has got past its request and its outcome.
Settled == {"ok", "cancel", "done", "failed", "dead"}

\* A quiet order is at the venue already, or its submitter will not send it.
QuietOK ==
  /\ \A o \in Foreign : spc[o] = "idle"
  /\ \A o \in quiet : IF o \in Foreign THEN o \in Accepted ELSE spc[o] \in Settled

\* Start-up reconcile was told of every quiet order that is open: none opens later.
ListOK ==
  rpc["startup"] \notin {"unused", "off", "get_orders"}
    => quiet \cap VenueOpen \subseteq snapOpen["startup"]

\* What start-up reconcile adopts is listed open, and what it is about to write
\* makes no ghost.
WriteOK ==
  /\ rpc["startup"] \in {"all_positions", "repair", "adopt", "resolve"}
       => aliens["startup"] \subseteq snapOpen["startup"]
  /\ rpc["startup"] \notin {"adopt", "resolve"} => writes["startup"] = {}
  /\ \A v, w \in writes["startup"] : v = w
  /\ \A w \in writes["startup"] :
       /\ rpc["startup"] = "adopt" => w[1] \in snapOpen["startup"]
       /\ rpc["startup"] = "resolve" /\ w[1] \in quiet
            => w[1] \in snapOpen["startup"] \/ w[2] \notin OpenStatuses

\* The orders of the rows it is about to write.
Written == {w[1] : w \in writes["startup"]}

\* From its diff on, every quiet open row is listed open or in its hands.
RepairOK ==
  rpc["startup"] \in {"all_positions", "repair", "adopt", "resolve"} /\ rpc["cli"] = "unused" =>
    quiet \cap OpenRows(orders)
      \subseteq snapOpen["startup"] \cup ghosts["startup"] \cup strays["startup"] \cup Written

GhostInv == TypeInv /\ StreamOK /\ QuietOK /\ ListOK /\ WriteOK /\ RepairOK

\* Only a start-up makes orders quiet.
LEMMA QuietFrame == ASSUME [Next]_vars PROVE quiet' \subseteq quiet \/ ExecutorStart
<1>1. CASE VenueNext
  BY <1>1 DEF VenueNext, VenueExecute, VenueEnds, ForeignOrder, history
<1>2. CASE SubmitterNext
  BY <1>2 DEF SubmitterNext, Submit, RestAccepts, RestRefuses, RestServerError,
              RestTimeout, RecordSubmitted, RecordRejected, Cancel, CancelFails,
              RecordCanceled, SubmitterCrash, history
<1>3. CASE StreamNext
  BY <1>3 DEF StreamNext, Connect, LinkDrops, LinkCloses, Redeliver, history
<1>4. CASE HandlerNext
  BY <1>4 DEF HandlerNext, EnsureOrder, BindOrder, PersistFill, SetStatus,
              RebuildPosition, HandlerRaises, history
<1>5. CASE ExecutorNext
  BY <1>5 DEF ExecutorNext, CliReconcile, ExecutorCrash
<1>6. CASE ReconcileNext
  <2>1. PICK r \in Reconcilers : ReconcilerStep(r)
    BY <1>6 DEF ReconcileNext, ReconcilerStep
  <2>2. QED
    BY <2>1 DEF ReconcilerStep, GetOrders, GetPositions, ReadOpenOrders, ReadPositions,
                FinishReconcile, ReconcileFails, AdoptAlien, AdoptionCollides, Abort,
                BindAlien, QueryGhost, ResolveGhost, GhostUnresolved, RejectStray, history
<1>7. CASE UNCHANGED vars
  BY <1>7 DEF vars, history
<1>8. QED
  BY <1>1, <1>2, <1>3, <1>4, <1>5, <1>6, <1>7 DEF Next

\* Only submitters move, each with an order of ours, and one that has settled
\* stays so.
LEMMA SubmittersMove ==
  ASSUME TypeInv, QuietOK, [Next]_vars
  PROVE  /\ \A o \in Foreign : spc'[o] = "idle"
         /\ \A o \in Orders : spc[o] \in Settled => spc'[o] \in Settled
<1>1. spc \in [Orders -> SubmitterStates] /\ \A o \in Foreign : spc[o] = "idle"
  BY DEF TypeInv, TypeOK, QuietOK
<1>2. CASE spc' = spc
  BY <1>1, <1>2
<1>3. CASE SubmitterNext
  <2>1. PICK o \in Orders :
          \/ Submit(o) \/ RestAccepts(o) \/ RestRefuses(o) \/ RestServerError(o)
          \/ RestTimeout(o) \/ RecordSubmitted(o) \/ RecordRejected(o)
          \/ Cancel(o) \/ CancelFails(o) \/ RecordCanceled(o)
          \/ SubmitterCrash(o)
    BY <1>3 DEF SubmitterNext
  <2>2. o \notin Foreign /\ \E s : /\ spc' = [spc EXCEPT ![o] = s]
                                   /\ spc[o] \in Settled => s \in Settled
    BY <1>1, <2>1 DEF Submit, RestAccepts, RestRefuses, RestServerError, RestTimeout,
                RecordSubmitted, RecordRejected, Cancel, CancelFails, RecordCanceled,
                SubmitterCrash, AtRest, Settled
  <2>3. QED
    BY <1>1, <2>2, ForeignAssumption
<1>4. CASE VenueNext
  BY <1>2, <1>4 DEF VenueNext, VenueExecute, VenueEnds, ForeignOrder
<1>5. CASE StreamNext
  BY <1>2, <1>5 DEF StreamNext, Connect, LinkDrops, LinkCloses, Redeliver
<1>6. CASE HandlerNext
  BY <1>2, <1>6 DEF HandlerNext, EnsureOrder, BindOrder, PersistFill, SetStatus,
                    RebuildPosition, HandlerRaises
<1>7. CASE ExecutorNext
  BY <1>2, <1>7 DEF ExecutorNext, ExecutorStart, ExecutorCrash, CliReconcile
<1>8. CASE ReconcileNext
  BY <1>2, <1>8, ReconcileFrame
<1>9. CASE UNCHANGED vars
  BY <1>2, <1>9 DEF vars
<1>10. QED
  BY <1>3, <1>4, <1>5, <1>6, <1>7, <1>8, <1>9 DEF Next

LEMMA QuietOKStep == ASSUME TypeInv, QuietOK, [Next]_vars PROVE QuietOK'
<1>1. Accepted \subseteq Accepted' /\ quiet \subseteq Orders
  BY VenueMonotone DEF TypeInv, TypeOK
<1>2. CASE quiet' \subseteq quiet
  BY <1>1, <1>2, SubmittersMove DEF QuietOK
<1>3. CASE ExecutorStart
  <2>1. \A o \in quiet' : IF o \in Foreign THEN o \in Accepted ELSE spc[o] \in Settled
    BY <1>3 DEF ExecutorStart, AtRest, Settled
  <2>2. quiet' \subseteq Orders
    BY <1>3 DEF ExecutorStart
  <2>3. QED
    BY <1>1, <2>1, <2>2, SubmittersMove DEF QuietOK
<1>4. QED
  BY <1>2, <1>3, QuietFrame

\* No quiet order opens at the venue.
LEMMA NoQuietOpens ==
  ASSUME TypeInv, QuietOK, [Next]_vars
  PROVE  quiet \cap VenueOpen' \subseteq VenueOpen
<1>1. vstatus \in [Orders -> VenueStatuses] /\ quiet \subseteq Orders
  BY DEF TypeInv, TypeOK
<1>2. ASSUME NEW o \in Orders, Accept(o), o \in Foreign \/ spc[o] = "rest"
      PROVE  quiet \cap VenueOpen' \subseteq VenueOpen
  <2>1. o \notin quiet
    BY <1>2 DEF Accept, Accepted, QuietOK, Settled
  <2>2. QED
    BY <1>1, <1>2, <2>1 DEF Accept, VenueOpen
<1>3. CASE vstatus' = vstatus
  BY <1>3 DEF VenueOpen
<1>4. CASE SubmitterNext
  <2>1. PICK o \in Orders :
          \/ Submit(o) \/ RestAccepts(o) \/ RestRefuses(o) \/ RestServerError(o)
          \/ RestTimeout(o) \/ RecordSubmitted(o) \/ RecordRejected(o)
          \/ Cancel(o) \/ CancelFails(o) \/ RecordCanceled(o)
          \/ SubmitterCrash(o)
    BY <1>4 DEF SubmitterNext
  <2>2. vstatus' = vstatus \/ (Accept(o) /\ spc[o] = "rest")
    BY <2>1 DEF Submit, RestAccepts, RestRefuses, RestServerError, RestTimeout,
                RecordSubmitted, RecordRejected, Cancel, CancelFails, RecordCanceled,
                SubmitterCrash, MaybeAccept, venue
  <2>3. QED
    BY <1>2, <1>3, <2>2
<1>5. CASE VenueNext
  <2>1. PICK o \in Orders : \/ VenueExecute(o)
                            \/ \E type \in EndEvents : VenueEnds(o, type)
                            \/ ForeignOrder(o)
    BY <1>5 DEF VenueNext
  <2>2. CASE ForeignOrder(o)
    BY <1>2, <2>2 DEF ForeignOrder
  <2>3. CASE VenueExecute(o) \/ \E type \in EndEvents : VenueEnds(o, type)
    BY <1>1, <2>3 DEF VenueExecute, VenueEnds, VenueOpen
  <2>4. QED
    BY <2>1, <2>2, <2>3
<1>6. CASE StreamNext
  BY <1>3, <1>6 DEF StreamNext, Connect, LinkDrops, LinkCloses, Redeliver, venue
<1>7. CASE HandlerNext
  BY <1>3, <1>7 DEF HandlerNext, EnsureOrder, BindOrder, PersistFill, SetStatus,
                    RebuildPosition, HandlerRaises, venue
<1>8. CASE ExecutorNext
  BY <1>3, <1>8 DEF ExecutorNext, ExecutorStart, ExecutorCrash, CliReconcile, venue
<1>9. CASE ReconcileNext
  BY <1>3, <1>9, ReconcileFrame
<1>10. CASE UNCHANGED vars
  BY <1>3, <1>10 DEF vars, venue
<1>11. QED
  BY <1>4, <1>5, <1>6, <1>7, <1>8, <1>9, <1>10 DEF Next

\* While start-up reconciles, nobody else opens the row of a quiet order.
LEMMA QuietRows ==
  ASSUME TypeInv, StreamOK, QuietOK, [Next]_vars, rpc["startup"] # "off",
         rpc["cli"] = "unused", ~ReconcilerStep("startup")
  PROVE  quiet \cap OpenRows(orders') \subseteq OpenRows(orders)
<1>1. orders \in [Orders -> OrderRow] /\ quiet \subseteq Orders
  BY DEF TypeInv, TypeOK
<1>2. hpc = "idle" /\ queue = << >>
  BY DEF StreamOK
<1>3. CASE orders' = orders
  BY <1>3
<1>4. CASE SubmitterNext
  <2>1. PICK o \in Orders :
          \/ Submit(o) \/ RestAccepts(o) \/ RestRefuses(o) \/ RestServerError(o)
          \/ RestTimeout(o) \/ RecordSubmitted(o) \/ RecordRejected(o)
          \/ Cancel(o) \/ CancelFails(o) \/ RecordCanceled(o)
          \/ SubmitterCrash(o)
    BY <1>4 DEF SubmitterNext
  <2>2. CASE Submit(o) \/ RecordSubmitted(o)
    <3>1. o \notin quiet
      BY <2>2 DEF Submit, RecordSubmitted, QuietOK, Settled
    <3>2. QED
      BY <1>1, <2>2, <3>1 DEF Submit, RecordSubmitted, SaveIntent, MarkSubmitted, OpenRows
  <2>3. CASE RecordRejected(o) \/ RecordCanceled(o)
    BY <1>1, <2>3 DEF RecordRejected, RecordCanceled, UpdateStatus, OpenRows, OrderRow,
                      OpenStatuses, Absent
  <2>4. CASE \/ RestAccepts(o) \/ RestRefuses(o) \/ RestServerError(o) \/ RestTimeout(o)
             \/ Cancel(o) \/ CancelFails(o) \/ SubmitterCrash(o)
    BY <1>3, <2>4 DEF RestAccepts, RestRefuses, RestServerError, RestTimeout, Cancel,
                      CancelFails, SubmitterCrash, store
  <2>5. QED
    BY <2>1, <2>2, <2>3, <2>4
<1>5. CASE VenueNext
  BY <1>3, <1>5 DEF VenueNext, VenueExecute, VenueEnds, ForeignOrder, store
<1>6. CASE StreamNext
  BY <1>3, <1>6 DEF StreamNext, Connect, LinkDrops, LinkCloses, Redeliver, store
<1>7. CASE HandlerNext
  BY <1>2, <1>7 DEF HandlerNext, EnsureOrder, BindOrder, PersistFill, SetStatus,
                    RebuildPosition, HandlerRaises, HandlerStep
<1>8. CASE ExecutorNext
  BY <1>3, <1>8 DEF ExecutorNext, ExecutorStart, ExecutorCrash, CliReconcile, store
<1>9. CASE ReconcileNext
  <2>1. PICK r \in Reconcilers : ReconcilerStep(r)
    BY <1>9 DEF ReconcileNext, ReconcilerStep
  <2>2. r = "cli" /\ rpc[r] # "unused"
    BY <2>1, StepsBegun DEF Reconcilers
  <2>3. QED
    BY <2>2
<1>10. CASE UNCHANGED vars
  BY <1>3, <1>10 DEF vars, store
<1>11. QED
  BY <1>4, <1>5, <1>6, <1>7, <1>8, <1>9, <1>10 DEF Next

LEMMA ListOKStep == ASSUME TypeInv, StreamOK, QuietOK, ListOK, [Next]_vars PROVE ListOK'
<1>1. /\ "startup" \in Reconcilers /\ rpc \in [Reconcilers -> ReconcileStates]
      /\ snapOpen \in [Reconcilers -> SUBSET Orders] /\ quiet \subseteq Orders
  BY DEF TypeInv, TypeOK, Reconcilers
<1>2. CASE ExecutorStart \/ ExecutorCrash
  BY <1>1, <1>2 DEF ExecutorStart, ExecutorCrash, Forget, ListOK
<1>3. quiet' \subseteq quiet \/ ExecutorStart
  BY QuietFrame
<1>4. CASE CliReconcile \/ UNCHANGED Held("startup")
  <2>1. rpc'["startup"] = rpc["startup"] /\ snapOpen'["startup"] = snapOpen["startup"]
    BY <1>1, <1>4 DEF CliReconcile, Held
  <2>2. QED
    BY <1>2, <1>3, <2>1, NoQuietOpens DEF ListOK
<1>5. CASE GetOrders("startup")
  <2>1. snapOpen'["startup"] = VenueOpen
    BY <1>1, <1>5 DEF GetOrders
  <2>2. QED
    BY <1>2, <1>3, <2>1, NoQuietOpens DEF ListOK
<1>6. ASSUME NEW from, NEW to, from \notin {"unused", "off", "get_orders"},
             rpc["startup"] = from, snapOpen' = snapOpen, ~ExecutorStart
      PROVE  ListOK'
  BY <1>3, <1>6, NoQuietOpens DEF ListOK
<1>7. CASE /\ ReconcilerStep("startup") /\ ~GetOrders("startup")
  <2>1. CASE \/ FinishReconcile("startup") \/ ReconcileFails("startup")
             \/ \E o \in Orders : AdoptionCollides("startup", o)
    <3>1. rpc'["startup"] = "off"
      BY <1>1, <2>1 DEF FinishReconcile, ReconcileFails, AdoptionCollides, Abort, Forget
    <3>2. QED
      BY <3>1 DEF ListOK
  <2>2. CASE \/ GetPositions("startup") \/ ReadOpenOrders("startup")
             \/ ReadPositions("startup") \/ BindAlien("startup") \/ ResolveGhost("startup")
             \/ \E o \in Orders : \/ AdoptAlien("startup", o) \/ QueryGhost("startup", o)
                                  \/ GhostUnresolved("startup", o) \/ RejectStray("startup", o)
    <3>1. snapOpen' = snapOpen /\ rpc["startup"] \notin {"unused", "off", "get_orders"}
      BY <2>2 DEF GetPositions, ReadOpenOrders, ReadPositions, AdoptAlien, BindAlien,
                  QueryGhost, ResolveGhost, GhostUnresolved, RejectStray, ReconcileStep
    <3>2. ~ExecutorStart
      BY <3>1 DEF ExecutorStart, StreamOK
    <3>3. QED
      BY <1>6, <3>1, <3>2
  <2>3. QED
    BY <1>7, <2>1, <2>2 DEF ReconcilerStep
<1>8. QED
  BY <1>1, <1>2, <1>4, <1>5, <1>7, HeldFrame

\* A ghost that is quiet is closed by what the venue says of it.
LEMMA GhostCloses ==
  ASSUME TypeInv, ListOK, NEW o \in quiet \ snapOpen["startup"],
         rpc["startup"] \notin {"unused", "off", "get_orders"}
  PROVE  GhostStatus(o) \notin OpenStatuses
<1>1. o \notin VenueOpen /\ o \in Orders
  BY DEF ListOK, TypeInv, TypeOK
<1>2. QED
  BY <1>1 DEF VenueOpen, OpenAtVenue, GhostStatus, OpenStatuses

LEMMA RepairStep ==
  ASSUME GhostInv, [Next]_vars, ReconcilerStep("startup"), ~ExecutorStart
  PROVE  WriteOK' /\ RepairOK'
<1>1. /\ "startup" \in Reconcilers /\ "cli" \in Reconcilers
      /\ rpc \in [Reconcilers -> ReconcileStates]
      /\ orders \in [Orders -> OrderRow] /\ quiet \subseteq Orders
      /\ snapOpen \in [Reconcilers -> SUBSET Orders] /\ aliens \in [Reconcilers -> SUBSET Orders]
      /\ ghosts \in [Reconcilers -> SUBSET Orders] /\ strays \in [Reconcilers -> SUBSET Orders]
      /\ writes \in [Reconcilers -> SUBSET (Orders \X RowStatuses)]
  BY DEF GhostInv, TypeInv, TypeOK, Reconcilers
<1>2. quiet' \subseteq quiet /\ WriteOK /\ RepairOK /\ ListOK
  BY QuietFrame DEF GhostInv
<1>3. CASE \/ FinishReconcile("startup") \/ ReconcileFails("startup")
           \/ \E o \in Orders : AdoptionCollides("startup", o)
  <2>1. rpc'["startup"] = "off" /\ writes'["startup"] = {}
    BY <1>1, <1>3 DEF FinishReconcile, ReconcileFails, AdoptionCollides, Abort, Forget
  <2>2. QED
    BY <2>1 DEF WriteOK, RepairOK
<1>4. CASE GetOrders("startup") \/ GetPositions("startup")
  <2>1. /\ rpc["startup"] \in {"get_orders", "get_positions"} /\ writes' = writes
        /\ rpc'["startup"] \in {"get_positions", "open_orders"}
    BY <1>1, <1>4 DEF GetOrders, GetPositions, ReconcileStep
  <2>2. QED
    BY <1>2, <2>1 DEF WriteOK, RepairOK
<1>5. CASE ReadOpenOrders("startup")
  <2>1. /\ rpc["startup"] = "open_orders" /\ rpc'["startup"] = "all_positions"
        /\ UNCHANGED <<orders, snapOpen, writes, quiet>>
        /\ aliens'["startup"] = snapOpen["startup"] \ OpenRows(orders)
        /\ ghosts'["startup"] = {o \in OpenRows(orders) \ snapOpen["startup"] : orders[o].bound}
        /\ strays'["startup"] = {o \in OpenRows(orders) : ~orders[o].bound}
    BY <1>1, <1>5 DEF ReadOpenOrders, ReconcileStep, store, history
  <2>2. QED
    BY <1>1, <1>2, <2>1 DEF WriteOK, RepairOK
<1>6. CASE ReadPositions("startup")
  <2>1. /\ rpc["startup"] = "all_positions" /\ rpc'["startup"] = "repair"
        /\ rpc'["cli"] = rpc["cli"]
        /\ UNCHANGED <<orders, snapOpen, aliens, ghosts, strays, writes, quiet>>
    BY <1>1, <1>6 DEF ReadPositions, ReconcileStep, store, history
  <2>2. QED
    BY <1>1, <1>2, <2>1 DEF WriteOK, RepairOK, Written
<1>7. ASSUME NEW o \in Orders, AdoptAlien("startup", o) PROVE WriteOK' /\ RepairOK'
  <2>1. /\ rpc["startup"] = "repair" /\ rpc'["startup"] = "adopt" /\ rpc'["cli"] = rpc["cli"]
        /\ UNCHANGED <<snapOpen, ghosts, strays, quiet>>
        /\ o \in aliens["startup"] /\ aliens'["startup"] \subseteq aliens["startup"]
        /\ writes'["startup"] = {<<o, "submitted">>} /\ writes["startup"] = {}
        /\ orders' = SaveIntent(orders, o)
    BY <1>1, <1>2, <1>7 DEF AdoptAlien, ReconcileStep, history, WriteOK
  <2>2. OpenRows(orders') \subseteq OpenRows(orders) \cup {o}
    BY <1>1, <2>1 DEF OpenRows, SaveIntent
  <2>3. Written = {} /\ Written' = {o}
    BY <2>1 DEF Written
  <2>4. RepairOK'
    BY <1>1, <1>2, <2>1, <2>2, <2>3 DEF RepairOK
  <2>5. QED
    BY <1>1, <1>2, <2>1, <2>4 DEF WriteOK
<1>8. CASE BindAlien("startup") \/ ResolveGhost("startup")
  <2>1. PICK w \in writes["startup"] :
          \/ BindAlien("startup") /\ orders' = MarkSubmitted(orders, w[1])
          \/ ResolveGhost("startup") /\ orders' = UpdateStatus(orders, w[1], w[2])
    BY <1>8 DEF BindAlien, ResolveGhost
  <2>2. /\ rpc'["startup"] = "repair" /\ rpc'["cli"] = rpc["cli"]
        /\ UNCHANGED <<snapOpen, aliens, ghosts, strays, quiet>>
        /\ writes'["startup"] = {} /\ w[1] \in Orders /\ w[2] \in RowStatuses
        /\ rpc["startup"] \in {"adopt", "resolve"}
    BY <1>1, <1>8 DEF BindAlien, ResolveGhost, ReconcileStep, history
  <2>3. Written = {w[1]} /\ Written' = {}
    BY <1>2, <2>2 DEF Written, WriteOK
  <2>4. OpenRows(orders') \subseteq OpenRows(orders) \cup {w[1]}
    BY <1>1, <2>1, <2>2 DEF OpenRows, MarkSubmitted, UpdateStatus
  <2>5. w[1] \in quiet /\ w[1] \in OpenRows(orders') => w[1] \in snapOpen["startup"]
    <3>1. CASE BindAlien("startup")
      <4>1. rpc["startup"] = "adopt"
        BY <3>1 DEF BindAlien, ReconcileStep
      <4>2. QED
        BY <1>2, <4>1 DEF WriteOK
    <3>2. CASE ResolveGhost("startup") /\ orders' = UpdateStatus(orders, w[1], w[2])
      <4>1. rpc["startup"] = "resolve"
        BY <3>2 DEF ResolveGhost, ReconcileStep
      <4>2. w[1] \in OpenRows(orders') => w[2] \in OpenStatuses
        BY <1>1, <2>2, <3>2 DEF OpenRows, UpdateStatus, OpenStatuses, Absent
      <4>3. QED
        BY <1>2, <4>1, <4>2 DEF WriteOK
    <3>3. QED
      BY <2>1, <3>1, <3>2
  <2>6. RepairOK'
    BY <1>1, <1>2, <2>2, <2>3, <2>4, <2>5 DEF RepairOK
  <2>7. QED
    BY <1>2, <2>2, <2>6 DEF WriteOK
<1>9. ASSUME NEW o \in Orders, QueryGhost("startup", o) PROVE WriteOK' /\ RepairOK'
  <2>1. /\ rpc["startup"] = "repair" /\ rpc'["startup"] = "resolve" /\ rpc'["cli"] = rpc["cli"]
        /\ UNCHANGED <<orders, snapOpen, aliens, strays, quiet>>
        /\ ghosts'["startup"] = ghosts["startup"] \ {o}
        /\ writes'["startup"] = {<<o, GhostStatus(o)>>} /\ writes["startup"] = {}
    BY <1>1, <1>2, <1>9 DEF QueryGhost, ReconcileStep, store, history, WriteOK
  <2>2. Written = {} /\ Written' = {o}
    BY <2>1 DEF Written
  <2>3. RepairOK'
    BY <1>1, <1>2, <2>1, <2>2 DEF RepairOK
  <2>4. o \in quiet => o \in snapOpen["startup"] \/ GhostStatus(o) \notin OpenStatuses
    BY <1>2, <2>1, GhostCloses DEF GhostInv
  <2>5. QED
    BY <1>2, <2>1, <2>3, <2>4 DEF WriteOK
<1>10. ASSUME NEW o \in Orders, GhostUnresolved("startup", o) PROVE WriteOK' /\ RepairOK'
  <2>1. /\ rpc["startup"] = "repair"
        /\ UNCHANGED <<orders, rpc, snapOpen, aliens, strays, writes>>
        /\ ghosts'["startup"] = ghosts["startup"] \ {o} /\ quiet' = quiet \ {o}
    BY <1>1, <1>10 DEF GhostUnresolved, store
  <2>2. Written' = Written
    BY <2>1 DEF Written
  <2>3. QED
    BY <1>1, <1>2, <2>1, <2>2 DEF WriteOK, RepairOK
<1>11. ASSUME NEW o \in Orders, RejectStray("startup", o) PROVE WriteOK' /\ RepairOK'
  <2>1. /\ rpc["startup"] = "repair"
        /\ UNCHANGED <<rpc, snapOpen, aliens, ghosts, writes, quiet>>
        /\ strays'["startup"] = strays["startup"] \ {o}
        /\ orders' = UpdateStatus(orders, o, "rejected")
    BY <1>1, <1>11 DEF RejectStray, history
  <2>2. OpenRows(orders') \subseteq OpenRows(orders) \ {o}
    BY <1>1, <2>1 DEF OpenRows, UpdateStatus, OpenStatuses, Absent
  <2>3. Written' = Written
    BY <2>1 DEF Written
  <2>4. QED
    BY <1>1, <1>2, <2>1, <2>2, <2>3 DEF WriteOK, RepairOK
<1>12. QED
  BY <1>3, <1>4, <1>5, <1>6, <1>7, <1>8, <1>9, <1>10, <1>11 DEF ReconcilerStep

LEMMA GhostStep == ASSUME GhostInv, [Next]_vars PROVE GhostInv'
<1>1. TypeInv' /\ StreamOK' /\ QuietOK' /\ ListOK'
  BY TypeStep, StreamOKStep, QuietOKStep, ListOKStep DEF GhostInv
<1>2. /\ "startup" \in Reconcilers /\ "cli" \in Reconcilers
      /\ rpc \in [Reconcilers -> ReconcileStates]
      /\ writes \in [Reconcilers -> SUBSET (Orders \X RowStatuses)]
      /\ snapOpen \in [Reconcilers -> SUBSET Orders] /\ aliens \in [Reconcilers -> SUBSET Orders]
  BY DEF GhostInv, TypeInv, TypeOK, Reconcilers
<1>3. CASE ExecutorStart
  <2>1. rpc["startup"] = "off" /\ rpc'["startup"] = "get_orders" /\ writes' = writes
    BY <1>2, <1>3 DEF ExecutorStart, GhostInv, StreamOK
  <2>2. WriteOK' /\ RepairOK'
    BY <2>1 DEF GhostInv, WriteOK, RepairOK
  <2>3. QED
    BY <1>1, <2>2 DEF GhostInv
<1>4. CASE ExecutorCrash
  <2>1. rpc'["startup"] = "off" /\ writes'["startup"] = {}
    BY <1>2, <1>4 DEF ExecutorCrash, Forget
  <2>2. WriteOK' /\ RepairOK'
    BY <2>1 DEF WriteOK, RepairOK
  <2>3. QED
    BY <1>1, <2>2 DEF GhostInv
<1>5. CASE CliReconcile
  <2>1. /\ rpc'["startup"] = rpc["startup"] /\ rpc'["cli"] # "unused"
        /\ UNCHANGED <<snapOpen, aliens, writes, quiet>>
    BY <1>2, <1>5 DEF CliReconcile
  <2>2. WriteOK' /\ RepairOK'
    BY <2>1 DEF GhostInv, WriteOK, RepairOK
  <2>3. QED
    BY <1>1, <2>2 DEF GhostInv
<1>6. CASE ReconcilerStep("startup") /\ ~ExecutorStart
  BY <1>1, <1>6, RepairStep DEF GhostInv
<1>7. CASE UNCHANGED Held("startup") /\ ~ReconcilerStep("startup") /\ ~ExecutorStart
  <2>1. quiet' \subseteq quiet
    BY <1>7, QuietFrame
  <2>2. /\ rpc'["startup"] = rpc["startup"] /\ snapOpen'["startup"] = snapOpen["startup"]
        /\ aliens'["startup"] = aliens["startup"] /\ ghosts'["startup"] = ghosts["startup"]
        /\ strays'["startup"] = strays["startup"] /\ writes'["startup"] = writes["startup"]
    BY <1>7 DEF Held
  <2>3. WriteOK'
    BY <2>1, <2>2 DEF GhostInv, WriteOK
  <2>4. RepairOK'
    <3> SUFFICES ASSUME rpc["startup"] \in {"all_positions", "repair", "adopt", "resolve"},
                        rpc'["cli"] = "unused"
                 PROVE  quiet' \cap OpenRows(orders') \subseteq OpenRows(orders)
      BY <2>1, <2>2, UnusedBefore DEF GhostInv, RepairOK, Written
    <3>1. QED
      BY <1>7, <2>1, QuietRows, UnusedBefore DEF GhostInv
  <2>5. QED
    BY <1>1, <2>3, <2>4 DEF GhostInv
<1>8. QED
  BY <1>2, <1>3, <1>4, <1>5, <1>6, <1>7, HeldFrame DEF GhostInv

\* Start-up reconcile is what sets the executor running.
LEMMA HandsOver ==
  ASSUME [Next]_vars, exec = "reconciling", exec' = "running"
  PROVE  FinishReconcile("startup")
<1>1. CASE VenueNext
  BY <1>1 DEF VenueNext, VenueExecute, VenueEnds, ForeignOrder
<1>2. CASE SubmitterNext
  BY <1>2 DEF SubmitterNext, Submit, RestAccepts, RestRefuses, RestServerError,
              RestTimeout, RecordSubmitted, RecordRejected, Cancel, CancelFails,
              RecordCanceled, SubmitterCrash
<1>3. CASE StreamNext
  BY <1>3 DEF StreamNext, Connect, LinkDrops, LinkCloses, Redeliver
<1>4. CASE HandlerNext
  BY <1>4 DEF HandlerNext, EnsureOrder, BindOrder, PersistFill, SetStatus,
              RebuildPosition, HandlerRaises
<1>5. CASE ExecutorNext
  BY <1>5 DEF ExecutorNext, ExecutorStart, ExecutorCrash, CliReconcile
<1>6. CASE ReconcileNext
  <2>1. PICK r \in Reconcilers : ReconcilerStep(r)
    BY <1>6 DEF ReconcileNext, ReconcilerStep
  <2>2. QED
    BY <2>1 DEF ReconcilerStep, GetOrders, GetPositions, ReadOpenOrders, ReadPositions,
                FinishReconcile, ReconcileFails, AdoptAlien, AdoptionCollides, Abort,
                BindAlien, QueryGhost, ResolveGhost, GhostUnresolved, RejectStray,
                Reconcilers
<1>7. CASE UNCHANGED vars
  BY <1>7 DEF vars
<1>8. QED
  BY <1>1, <1>2, <1>3, <1>4, <1>5, <1>6, <1>7 DEF Next

LEMMA GhostInit == Init => GhostInv
<1> SUFFICES ASSUME Init PROVE GhostInv
  OBVIOUS
<1>1. TypeInv /\ StreamOK
  BY TypeInit, StreamOKInit
<1>2. QuietOK
  BY ForeignAssumption DEF Init, QuietOK
<1>3. rpc["startup"] = "off" /\ writes["startup"] = {}
  BY DEF Init, Reconcilers
<1>4. QED
  BY <1>1, <1>2, <1>3 DEF GhostInv, ListOK, WriteOK, RepairOK

\* However the repairs of start-up reconcile interleave with cancels, fills at
\* the venue and submitters still at work, it hands over no quiet open row that
\* Alpaca did not list: for every set of orders and every number of faults.
THEOREM NoGhostSurvives == Spec => ReconcileResolvesGhosts
<1>1. GhostInv /\ [Next]_vars
        => [exec = "reconciling" /\ exec' = "running" /\ rpc["cli"] = "unused"
              => OpenRows(orders') \cap quiet \subseteq snapOpen["startup"]]_vars
  <2> SUFFICES ASSUME GhostInv, [Next]_vars, exec = "reconciling", exec' = "running",
                      rpc["cli"] = "unused"
               PROVE  OpenRows(orders') \cap quiet \subseteq snapOpen["startup"]
    OBVIOUS
  <2>1. FinishReconcile("startup")
    BY HandsOver
  <2>2. /\ rpc["startup"] = "repair" /\ orders' = orders
        /\ ghosts["startup"] = {} /\ strays["startup"] = {}
    BY <2>1 DEF FinishReconcile
  <2>3. Written = {}
    BY <2>2 DEF GhostInv, WriteOK, Written
  <2>4. QED
    BY <2>2, <2>3 DEF GhostInv, RepairOK
<1>2. QED
  BY GhostInit, GhostStep, <1>1, PTL DEF Spec, ReconcileResolvesGhosts
=============================================================================
