--------------------------- MODULE OrderLifecycle ---------------------------
(***************************************************************************)
(* The life of an order across every process that touches it:              *)
(*                                                                         *)
(*   submitters   OrderAdapter.submit / cancel, run by the ladder, the     *)
(*                command-line tools and the bracket supervisor            *)
(*   venue        Alpaca (external): accepts, executes, ends orders        *)
(*   stream       the trade_updates websocket: in order while it is up,    *)
(*                nothing replayed after a gap                             *)
(*   handler      FillHandler.handle in the executor, one event at a time  *)
(*   reconcilers  reconcile_once, at executor start-up and once outside it *)
(*                (the reconcile command, or the one a signal tick runs    *)
(*                first), against the same store                           *)
(*                                                                         *)
(* The store is shared by processes, so each write to it is a step of its  *)
(* own, and so is each request; a handler is split there.  A read that one *)
(* thread follows up with its write is one step with it.  Crashes, dropped *)
(* and closed connections, timeouts, failed calls, redelivered events and  *)
(* the second reconcile are faults; MaxFaults bounds how many happen in    *)
(* one behaviour.                                                          *)
(***************************************************************************)
EXTENDS StateStore, Sequences

CONSTANTS
  Foreign,    \* orders nobody here submits (by hand, or a watchdog liquidation)
  Qty,        \* Qty[o]: lots ordered
  MaxFaults   \* bound on the faults of one behaviour

ASSUME ForeignAssumption == Foreign \subseteq Orders
ASSUME QtyAssumption == Qty \in [Orders -> Nat \ {0}]
ASSUME MaxFaultsAssumption == MaxFaults \in Nat

VARIABLES
  \* the store
  orders,     \* the orders table
  fills,      \* the fills table: set of <<order, timestamp>>
  position,   \* the positions row of the symbol
  \* Alpaca
  vstatus,    \* the venue's status of each order, "none" before it is accepted
  filled,     \* lots the venue has executed of each order
  \* the trade_updates stream and the handler of its events
  link,       \* "down" (retrying), "up", or "ended" (run() has returned)
  queue,      \* events delivered and not fully applied; the head is in hand
  hpc,        \* where FillHandler.handle stands
  \* processes
  exec,       \* the executor: "down", "reconciling" or "running"
  spc,        \* spc[o]: where the submitter of o stands
  rpc,        \* rpc[r]: where reconcile_once stands
  snapOpen,   \* snapOpen[r]: the open orders reconciler r got from Alpaca
  snapPos,    \* snapPos[r]: the position it got from Alpaca
  aliens,     \* aliens[r]: orders it has still to adopt
  ghosts,     \* ghosts[r]: bound open rows it has still to resolve
  strays,     \* strays[r]: open rows without an alpaca id it has still to reject
  localPos,   \* localPos[r]: the position it read from the store
  writes,     \* writes[r]: <<order, status>> of the row it is about to write
  \* history
  lost,       \* executions whose event was not applied to the end
  quiet,      \* orders whose submitter was at rest when start-up reconcile began
  faults

store == <<orders, fills, position>>
venue == <<vstatus, filled>>
stream == <<link, queue, hpc>>
recon == <<rpc, snapOpen, snapPos, aliens, ghosts, strays, localPos, writes>>
history == <<lost, quiet, faults>>
vars == <<store, venue, stream, exec, spc, recon, history>>

Reconcilers == {"startup", "cli"}

OpenAtVenue == {"new", "partially_filled"}
VenueStatuses == {"none", "filled", "canceled", "rejected"} \cup OpenAtVenue
FillEvents == {"fill", "partial_fill"}
EndEvents == {"canceled", "expired", "rejected"}
EventTypes == {"new"} \cup FillEvents \cup EndEvents
Events == [type : EventTypes, order : Orders, stamp : Nat]

SubmitterStates == {"idle", "rest", "mark", "reject", "ok", "cancel",
                    "done", "failed", "dead"}
AtRest == {"idle", "ok", "done", "failed", "dead"}
HandlerStates == {"idle", "bind", "persist", "status", "rebuild"}
ReconcileStates == {"unused", "off", "get_orders", "get_positions", "open_orders",
                    "all_positions", "repair", "adopt", "resolve"}

Executions == UNION {{o} \X (1..filled[o]) : o \in Orders}
VenuePosition == NetQuantity(Executions)
VenueOpen == {o \in Orders : vstatus[o] \in OpenAtVenue}
Accepted == {o \in Orders : vstatus[o] # "none"}

\* The executions the events of q report.
Reported(q) == {<<q[i].order, q[i].stamp>> :
                  i \in {j \in DOMAIN q : q[j].type \in FillEvents}}

Init ==
  /\ orders = [o \in Orders |-> [status |-> Absent, bound |-> FALSE]]
  /\ fills = {}
  /\ position = 0
  /\ vstatus = [o \in Orders |-> "none"]
  /\ filled = [o \in Orders |-> 0]
  /\ link = "down"
  /\ queue = << >>
  /\ hpc = "idle"
  /\ exec = "down"
  /\ spc = [o \in Orders |-> "idle"]
  /\ rpc = [r \in Reconcilers |-> IF r = "cli" THEN "unused" ELSE "off"]
  /\ snapOpen = [r \in Reconcilers |-> {}]
  /\ snapPos = [r \in Reconcilers |-> 0]
  /\ aliens = [r \in Reconcilers |-> {}]
  /\ ghosts = [r \in Reconcilers |-> {}]
  /\ strays = [r \in Reconcilers |-> {}]
  /\ localPos = [r \in Reconcilers |-> 0]
  /\ writes = [r \in Reconcilers |-> {}]
  /\ lost = {}
  /\ quiet = {}
  /\ faults = 0

Fault == faults < MaxFaults /\ faults' = faults + 1

-----------------------------------------------------------------------------
(* The venue *)

\* An event reaches the executor only over a connection that is up.
Emit(type, o, stamp) ==
  queue' = IF link = "up"
           THEN Append(queue, [type |-> type, order |-> o, stamp |-> stamp])
           ELSE queue

\* Spot: nothing is sold short.
CanTrade(o) == Side[o] = "sell" => VenuePosition > 0

Accept(o) ==
  /\ vstatus[o] = "none"
  /\ CanTrade(o)
  /\ vstatus' = [vstatus EXCEPT ![o] = "new"]
  /\ Emit("new", o, 0)

\* The request got through, or it did not, and the caller cannot tell.
MaybeAccept(o) == Accept(o) \/ UNCHANGED <<vstatus, queue>>

\* One lot of o trades.  The event's timestamp names the execution, unless the
\* previous execution of o carries the same one.
VenueExecute(o) ==
  LET k == filled[o] + 1 IN
  /\ vstatus[o] \in OpenAtVenue
  /\ k <= Qty[o]
  /\ CanTrade(o)
  /\ filled' = [filled EXCEPT ![o] = k]
  /\ vstatus' = [vstatus EXCEPT ![o] = IF k = Qty[o] THEN "filled" ELSE "partially_filled"]
  /\ \E stamp \in {k} \cup ({k - 1} \ {0}) :
       /\ Emit(IF k = Qty[o] THEN "fill" ELSE "partial_fill", o, stamp)
       /\ lost' = IF link = "up" /\ stamp = k THEN lost ELSE lost \cup {<<o, k>>}
  /\ UNCHANGED <<store, link, hpc, exec, spc, recon, quiet, faults>>

\* A cancel takes effect, an IOC remainder expires, or the order is rejected
\* after it was acknowledged.  Nobody here tells "expired" from "canceled" in a
\* status; the events differ.
VenueEnds(o, type) ==
  /\ vstatus[o] \in OpenAtVenue
  /\ type = "rejected" => filled[o] = 0
  /\ vstatus' = [vstatus EXCEPT ![o] = IF type = "rejected" THEN "rejected" ELSE "canceled"]
  /\ Emit(type, o, 0)
  /\ UNCHANGED <<store, filled, link, hpc, exec, spc, recon, history>>

ForeignOrder(o) ==
  /\ o \in Foreign
  /\ Accept(o)
  /\ UNCHANGED <<store, filled, link, hpc, exec, spc, recon, history>>

-----------------------------------------------------------------------------
(* OrderAdapter.submit: persist the intent, submit it, record the outcome.
   Every caller draws a fresh client order id, so an intent is submitted once
   and the 422 "already exists" branch has nothing to find. *)

\* The order goes out first and the row is written with its outcome.
SubmitUnpersisted(o) ==
  /\ o \notin Foreign
  /\ spc[o] = "idle"
  /\ spc' = [spc EXCEPT ![o] = "rest"]
  /\ UNCHANGED <<store, venue, stream, exec, recon, history>>

Submit(o) ==
  /\ o \notin Foreign
  /\ spc[o] = "idle"
  /\ ~HasRow(orders, o)
  /\ orders' = SaveIntent(orders, o)
  /\ spc' = [spc EXCEPT ![o] = "rest"]
  /\ UNCHANGED <<fills, position, venue, stream, exec, recon, history>>

RestAccepts(o) ==
  /\ spc[o] = "rest"
  /\ Accept(o)
  /\ spc' = [spc EXCEPT ![o] = "mark"]
  /\ UNCHANGED <<store, filled, link, hpc, exec, recon, history>>

\* Every failed request records an alpaca id all the same.
RestRefusesBinding(o) ==
  /\ spc[o] = "rest"
  /\ spc' = [spc EXCEPT ![o] = "mark"]
  /\ UNCHANGED <<store, venue, stream, exec, recon, history>>

\* 4xx: the venue did not take the order.
RestRefuses(o) ==
  /\ spc[o] = "rest"
  /\ spc' = [spc EXCEPT ![o] = "reject"]
  /\ UNCHANGED <<store, venue, stream, exec, recon, history>>

\* 5xx is an HTTPStatusError too: recorded as REJECTED, whatever the venue did.
RestServerError(o) ==
  /\ spc[o] = "rest"
  /\ Fault
  /\ MaybeAccept(o)
  /\ spc' = [spc EXCEPT ![o] = "reject"]
  /\ UNCHANGED <<store, filled, link, hpc, exec, recon, lost, quiet>>

\* A timeout or a transport error is not an HTTPStatusError: the row stays PENDING.
RestTimeout(o) ==
  /\ spc[o] = "rest"
  /\ Fault
  /\ MaybeAccept(o)
  /\ spc' = [spc EXCEPT ![o] = "failed"]
  /\ UNCHANGED <<store, filled, link, hpc, exec, recon, lost, quiet>>

RecordSubmitted(o) ==
  /\ spc[o] = "mark"
  /\ orders' = MarkSubmitted(orders, o)
  /\ spc' = [spc EXCEPT ![o] = "ok"]
  /\ UNCHANGED <<fills, position, venue, stream, exec, recon, history>>

RecordRejected(o) ==
  /\ spc[o] = "reject"
  /\ orders' = UpdateStatus(orders, o, "rejected")
  /\ spc' = [spc EXCEPT ![o] = "failed"]
  /\ UNCHANGED <<fills, position, venue, stream, exec, recon, history>>

(* OrderAdapter.cancel, called by the ladder on an intent it has submitted.
   The venue's answer, 204 or 422, changes nothing there at once: VenueEnds and
   VenueExecute decide how the order ends.  An unbound row skips the request. *)

Cancel(o) ==
  /\ spc[o] = "ok"
  /\ spc' = [spc EXCEPT ![o] = "cancel"]
  /\ UNCHANGED <<store, venue, stream, exec, recon, history>>

\* Another HTTP error, or none at all: cancel raises and writes nothing.
CancelFails(o) ==
  /\ spc[o] = "ok"
  /\ orders[o].bound
  /\ Fault
  /\ spc' = [spc EXCEPT ![o] = "done"]
  /\ UNCHANGED <<store, venue, stream, exec, recon, lost, quiet>>

RecordCanceled(o) ==
  /\ spc[o] = "cancel"
  /\ orders' = UpdateStatus(orders, o, "canceled")
  /\ spc' = [spc EXCEPT ![o] = "done"]
  /\ UNCHANGED <<fills, position, venue, stream, exec, recon, history>>

\* The submitting process dies between two of its steps.
SubmitterCrash(o) ==
  /\ spc[o] \notin AtRest
  /\ Fault
  /\ IF spc[o] = "rest" THEN MaybeAccept(o) ELSE UNCHANGED <<vstatus, queue>>
  /\ spc' = [spc EXCEPT ![o] = "dead"]
  /\ UNCHANGED <<store, filled, link, hpc, exec, recon, lost, quiet>>

-----------------------------------------------------------------------------
(* The trade_updates connection, TradeUpdatesClient.run: a failed connection is
   retried, a connection the server closes normally ends run() for good. *)

\* What is delivered and not in hand goes with the connection.
Connect ==
  /\ exec = "running"
  /\ link = "down"
  /\ hpc = "idle"
  /\ link' = "up"
  /\ UNCHANGED <<store, venue, queue, hpc, exec, spc, recon, history>>

LinkDrops ==
  /\ link = "up"
  /\ Fault
  /\ link' = "down"
  /\ queue' = IF hpc = "idle" THEN << >> ELSE <<Head(queue)>>
  /\ lost' = lost \cup (Reported(queue) \ Reported(queue'))
  /\ UNCHANGED <<store, venue, hpc, exec, spc, recon, quiet>>

LinkCloses ==
  /\ link = "up"
  /\ queue = << >>
  /\ Fault
  /\ link' = "ended"
  /\ UNCHANGED <<store, venue, queue, hpc, exec, spc, recon, lost, quiet>>

\* An execution already reported is reported again.
Redeliver ==
  /\ link = "up"
  /\ Fault
  /\ \E x \in Executions :
       Emit(IF x[2] = Qty[x[1]] THEN "fill" ELSE "partial_fill", x[1], x[2])
  /\ UNCHANGED <<store, venue, link, hpc, exec, spc, recon, lost, quiet>>

-----------------------------------------------------------------------------
(* FillHandler.handle, one step per store call; the event in hand is the head
   of the queue. *)

Event == Head(queue)

\* A partial fill taken for the end of the order.
EventStatusEager(type) ==
  CASE type = "new" -> "submitted"
    [] type \in FillEvents -> "filled"
    [] type \in {"canceled", "expired"} -> "canceled"
    [] type = "rejected" -> "rejected"

\* The event's name taken for the status.
EventStatusPassthrough(type) == type

\* _STATUS_MAP, on the events the venue model emits.
EventStatus(type) ==
  CASE type = "new" -> "submitted"
    [] type = "partial_fill" -> "partial"
    [] type = "fill" -> "filled"
    [] type \in {"canceled", "expired"} -> "canceled"
    [] type = "rejected" -> "rejected"

HandlerStep(from, to) == hpc = from /\ hpc' = to

AfterBind == IF Event.type \in FillEvents THEN "persist" ELSE "status"

\* An event is taken in hand.  _ensure_order inserts an order it does not know;
\* a row that has no alpaca id, that one or another, is bound next.
EnsureOrder ==
  /\ queue # << >>
  /\ HandlerStep("idle", IF orders[Event.order].bound THEN AfterBind ELSE "bind")
  /\ orders' = IF HasRow(orders, Event.order) THEN orders ELSE SaveIntent(orders, Event.order)
  /\ UNCHANGED <<fills, position, venue, link, queue, exec, spc, recon, history>>

BindOrder ==
  /\ HandlerStep("bind", AfterBind)
  /\ orders' = MarkSubmitted(orders, Event.order)
  /\ UNCHANGED <<fills, position, venue, link, queue, exec, spc, recon, history>>

\* Only a complete fill is worth a row.
PersistLastFillOnly ==
  /\ HandlerStep("persist", "status")
  /\ fills' = IF Event.type = "fill" THEN SaveFill(fills, Event.order, Event.stamp) ELSE fills
  /\ UNCHANGED <<orders, position, venue, link, queue, exec, spc, recon, history>>

PersistFill ==
  /\ HandlerStep("persist", "status")
  /\ fills' = SaveFill(fills, Event.order, Event.stamp)
  /\ UNCHANGED <<orders, position, venue, link, queue, exec, spc, recon, history>>

\* update_status by event type; an expired event moves no position, so the
\* handler is done with it here.
SetStatus ==
  LET rebuilds == Event.type \in FillEvents \cup {"canceled", "rejected"} IN
  /\ HandlerStep("status", IF rebuilds THEN "rebuild" ELSE "idle")
  /\ orders' = UpdateStatus(orders, Event.order, EventStatus(Event.type))
  /\ queue' = IF rebuilds THEN queue ELSE Tail(queue)
  /\ UNCHANGED <<fills, position, venue, link, exec, spc, recon, history>>

\* The event's own execution applied on top of the stored position.
RebuildIncrementally ==
  /\ HandlerStep("rebuild", "idle")
  /\ position' = IF Event.type \in FillEvents
                 THEN position + NetQuantity({<<Event.order, Event.stamp>>})
                 ELSE position
  /\ queue' = Tail(queue)
  /\ UNCHANGED <<orders, fills, venue, link, exec, spc, recon, history>>

\* _rebuild_position: the stored quantity is recomputed from every fill row.
RebuildPosition ==
  /\ HandlerStep("rebuild", "idle")
  /\ position' = NetQuantity(fills)
  /\ queue' = Tail(queue)
  /\ UNCHANGED <<orders, fills, venue, link, exec, spc, recon, history>>

\* A store call raises (a locked database, say): _recv_loop logs it and goes on
\* to the next event.
HandlerRaises ==
  /\ queue # << >>
  /\ Fault
  /\ hpc' = "idle"
  /\ queue' = Tail(queue)
  /\ lost' = lost \cup Reported(<<Event>>)
  /\ UNCHANGED <<store, venue, link, exec, spc, recon, quiet>>

-----------------------------------------------------------------------------
(* The executor process: reconcile, then stream; restarted when it exits. *)

ExecutorStart ==
  /\ exec = "down"
  /\ exec' = "reconciling"
  /\ rpc' = [rpc EXCEPT !["startup"] = "get_orders"]
  /\ quiet' = {o \in Orders : IF o \in Foreign THEN o \in Accepted
                              ELSE spc[o] \in AtRest \ {"idle"}}
  /\ UNCHANGED <<store, venue, stream, spc, snapOpen, snapPos, aliens, ghosts,
                 strays, localPos, writes, lost, faults>>

\* The reconcile command, or the reconcile of a signal tick, once, beside whatever
\* the executor is doing.  It counts against MaxFaults, a disturbance like others.
CliReconcile ==
  /\ rpc["cli"] = "unused"
  /\ Fault
  /\ rpc' = [rpc EXCEPT !["cli"] = "get_orders"]
  /\ UNCHANGED <<store, venue, stream, exec, spc, snapOpen, snapPos, aliens, ghosts,
                 strays, localPos, writes, lost, quiet>>

\* Reconciler r is finished and forgets what it read.
Forget(r) ==
  /\ rpc' = [rpc EXCEPT ![r] = "off"]
  /\ snapOpen' = [snapOpen EXCEPT ![r] = {}]
  /\ snapPos' = [snapPos EXCEPT ![r] = 0]
  /\ aliens' = [aliens EXCEPT ![r] = {}]
  /\ ghosts' = [ghosts EXCEPT ![r] = {}]
  /\ strays' = [strays EXCEPT ![r] = {}]
  /\ localPos' = [localPos EXCEPT ![r] = 0]
  /\ writes' = [writes EXCEPT ![r] = {}]

\* r raises: at start-up that takes the executor down with it.
Abort(r) ==
  /\ Forget(r)
  /\ exec' = IF r = "startup" THEN "down" ELSE exec
  /\ quiet' = IF r = "startup" THEN {} ELSE quiet

ExecutorCrash ==
  /\ exec # "down"
  /\ Fault
  /\ exec' = "down"
  /\ link' = "down"
  /\ queue' = << >>
  /\ hpc' = "idle"
  /\ lost' = lost \cup Reported(queue)
  /\ Forget("startup")
  /\ quiet' = {}
  /\ UNCHANGED <<store, venue, spc>>

-----------------------------------------------------------------------------
(* reconcile_once: two REST calls, two store reads, then the repairs. *)

ReconcileStep(r, from, to) == rpc[r] = from /\ rpc' = [rpc EXCEPT ![r] = to]

GetOrders(r) ==
  /\ ReconcileStep(r, "get_orders", "get_positions")
  /\ snapOpen' = [snapOpen EXCEPT ![r] = VenueOpen]
  /\ UNCHANGED <<store, venue, stream, exec, spc, snapPos, aliens, ghosts, strays,
                 localPos, writes, history>>

GetPositions(r) ==
  /\ ReconcileStep(r, "get_positions", "open_orders")
  /\ snapPos' = [snapPos EXCEPT ![r] = VenuePosition]
  /\ UNCHANGED <<store, venue, stream, exec, spc, snapOpen, aliens, ghosts, strays,
                 localPos, writes, history>>

\* A partly filled row is taken to be in order.
ReadOpenOrdersUnlessPartial(r) ==
  LET open == OpenRows(orders) IN
  /\ ReconcileStep(r, "open_orders", "all_positions")
  /\ aliens' = [aliens EXCEPT ![r] = snapOpen[r] \ open]
  /\ ghosts' = [ghosts EXCEPT ![r] = {o \in open \ snapOpen[r] : orders[o].status = "submitted"}]
  /\ strays' = [strays EXCEPT ![r] = {o \in open : ~orders[o].bound}]
  /\ UNCHANGED <<store, venue, stream, exec, spc, snapOpen, snapPos, localPos, writes,
                 history>>

\* The diff is settled here, from rows read once: an alien is open at the venue
\* and has no open row; a ghost has an open row and is not in the venue's list;
\* a stray is a PENDING row without an alpaca id, listed at the venue or not.
ReadOpenOrders(r) ==
  LET open == OpenRows(orders) IN
  /\ ReconcileStep(r, "open_orders", "all_positions")
  /\ aliens' = [aliens EXCEPT ![r] = snapOpen[r] \ open]
  /\ ghosts' = [ghosts EXCEPT ![r] = {o \in open \ snapOpen[r] : orders[o].bound}]
  /\ strays' = [strays EXCEPT ![r] = {o \in open : ~orders[o].bound}]
  /\ UNCHANGED <<store, venue, stream, exec, spc, snapOpen, snapPos, localPos, writes,
                 history>>

ReadPositions(r) ==
  /\ ReconcileStep(r, "all_positions", "repair")
  /\ localPos' = [localPos EXCEPT ![r] = position]
  /\ UNCHANGED <<store, venue, stream, exec, spc, snapOpen, snapPos, aliens, ghosts,
                 strays, writes, history>>

\* _adopt_alien_order inserts a row and binds it.  The insert raises if any row,
\* open or not, has the id.
AdoptAlien(r, o) ==
  /\ ReconcileStep(r, "repair", "adopt")
  /\ o \in aliens[r]
  /\ ~HasRow(orders, o)
  /\ orders' = SaveIntent(orders, o)
  /\ aliens' = [aliens EXCEPT ![r] = @ \ {o}]
  /\ writes' = [writes EXCEPT ![r] = {<<o, "submitted">>}]
  /\ UNCHANGED <<fills, position, venue, stream, exec, spc, snapOpen, snapPos,
                 ghosts, strays, localPos, history>>

BindAlien(r) ==
  /\ ReconcileStep(r, "adopt", "repair")
  /\ \E w \in writes[r] : orders' = MarkSubmitted(orders, w[1])
  /\ writes' = [writes EXCEPT ![r] = {}]
  /\ UNCHANGED <<fills, position, venue, stream, exec, spc, snapOpen, snapPos,
                 aliens, ghosts, strays, localPos, history>>

AdoptionCollides(r, o) ==
  /\ rpc[r] = "repair"
  /\ o \in aliens[r]
  /\ HasRow(orders, o)
  /\ Abort(r)
  /\ UNCHANGED <<store, venue, stream, spc, lost, faults>>

\* _resolve_ghost_order's status_map; a status it does not name means CANCELED.
GhostStatus(o) ==
  CASE vstatus[o] = "filled" -> "filled"
    [] vstatus[o] = "partially_filled" -> "partial"
    [] vstatus[o] = "rejected" -> "rejected"
    [] OTHER -> "canceled"

QueryGhost(r, o) ==
  /\ ReconcileStep(r, "repair", "resolve")
  /\ aliens[r] = {}
  /\ o \in ghosts[r]
  /\ ghosts' = [ghosts EXCEPT ![r] = @ \ {o}]
  /\ writes' = [writes EXCEPT ![r] = {<<o, GhostStatus(o)>>}]
  /\ UNCHANGED <<store, venue, stream, exec, spc, snapOpen, snapPos, aliens, strays,
                 localPos, history>>

ResolveGhost(r) ==
  /\ ReconcileStep(r, "resolve", "repair")
  /\ \E w \in writes[r] : orders' = UpdateStatus(orders, w[1], w[2])
  /\ writes' = [writes EXCEPT ![r] = {}]
  /\ UNCHANGED <<fills, position, venue, stream, exec, spc, snapOpen, snapPos,
                 aliens, ghosts, strays, localPos, history>>

\* The query for the order's status fails with an HTTP error: left as it is.
GhostUnresolved(r, o) ==
  /\ rpc[r] = "repair"
  /\ aliens[r] = {}
  /\ o \in ghosts[r]
  /\ Fault
  /\ ghosts' = [ghosts EXCEPT ![r] = @ \ {o}]
  /\ quiet' = quiet \ {o}
  /\ UNCHANGED <<store, venue, stream, exec, spc, rpc, snapOpen, snapPos, aliens,
                 strays, localPos, writes, lost>>

RejectStray(r, o) ==
  /\ rpc[r] = "repair"
  /\ aliens[r] = {}
  /\ o \in strays[r]
  /\ orders' = UpdateStatus(orders, o, "rejected")
  /\ strays' = [strays EXCEPT ![r] = @ \ {o}]
  /\ UNCHANGED <<fills, position, venue, stream, exec, spc, rpc, snapOpen, snapPos,
                 aliens, ghosts, localPos, writes, history>>

\* Positions last.  A position only Alpaca knows is critical and repairs
\* nothing: at start-up the executor exits.  One only the store knows is zeroed.
FinishReconcile(r) ==
  LET critical == snapPos[r] # 0 /\ localPos[r] = 0 IN
  /\ rpc[r] = "repair"
  /\ aliens[r] \cup ghosts[r] \cup strays[r] = {}
  /\ position' = IF snapPos[r] = 0 /\ localPos[r] # 0 THEN 0 ELSE position
  /\ exec' = IF r = "cli" THEN exec ELSE IF critical THEN "down" ELSE "running"
  /\ quiet' = IF r = "startup" THEN {} ELSE quiet
  /\ Forget(r)
  /\ UNCHANGED <<orders, fills, venue, stream, spc, lost, faults>>

\* A REST call or a store call raises.
ReconcileFails(r) ==
  /\ rpc[r] \notin {"unused", "off"}
  /\ Fault
  /\ Abort(r)
  /\ UNCHANGED <<store, venue, stream, spc, lost>>

-----------------------------------------------------------------------------
VenueNext ==
  \E o \in Orders :
    \/ VenueExecute(o)
    \/ \E type \in EndEvents : VenueEnds(o, type)
    \/ ForeignOrder(o)

SubmitterNext ==
  \E o \in Orders :
    \/ Submit(o) \/ RestAccepts(o) \/ RestRefuses(o) \/ RestServerError(o)
    \/ RestTimeout(o) \/ RecordSubmitted(o) \/ RecordRejected(o)
    \/ Cancel(o) \/ CancelFails(o) \/ RecordCanceled(o)
    \/ SubmitterCrash(o)

StreamNext == Connect \/ LinkDrops \/ LinkCloses \/ Redeliver

HandlerNext ==
  EnsureOrder \/ BindOrder \/ PersistFill \/ SetStatus \/ RebuildPosition \/ HandlerRaises

ExecutorNext == ExecutorStart \/ ExecutorCrash \/ CliReconcile

ReconcileNext ==
  \E r \in Reconcilers :
    \/ GetOrders(r) \/ GetPositions(r) \/ ReadOpenOrders(r) \/ ReadPositions(r)
    \/ BindAlien(r) \/ ResolveGhost(r)
    \/ FinishReconcile(r) \/ ReconcileFails(r)
    \/ \E o \in Orders : \/ AdoptAlien(r, o) \/ AdoptionCollides(r, o)
                         \/ QueryGhost(r, o) \/ GhostUnresolved(r, o)
                         \/ RejectStray(r, o)

Next == VenueNext \/ SubmitterNext \/ StreamNext \/ HandlerNext \/ ExecutorNext \/ ReconcileNext

Spec == Init /\ [][Next]_vars

-----------------------------------------------------------------------------
(* Properties *)

\* Every variable holds a value of its kind.
TypeOK ==
  /\ orders \in [Orders -> OrderRow]
  /\ fills \subseteq Orders \X Nat
  /\ position \in Int
  /\ vstatus \in [Orders -> VenueStatuses]
  /\ filled \in [Orders -> Nat]
  /\ link \in {"down", "up", "ended"}
  /\ queue \in Seq(Events)
  /\ hpc \in HandlerStates
  /\ hpc # "idle" => queue # << >>
  /\ exec \in {"down", "reconciling", "running"}
  /\ spc \in [Orders -> SubmitterStates]
  /\ rpc \in [Reconcilers -> ReconcileStates]
  /\ snapOpen \in [Reconcilers -> SUBSET Orders]
  /\ snapPos \in [Reconcilers -> Int]
  /\ aliens \in [Reconcilers -> SUBSET Orders]
  /\ ghosts \in [Reconcilers -> SUBSET Orders]
  /\ strays \in [Reconcilers -> SUBSET Orders]
  /\ localPos \in [Reconcilers -> Int]
  /\ writes \in [Reconcilers -> SUBSET (Orders \X RowStatuses)]
  /\ lost \subseteq Orders \X Nat
  /\ quiet \subseteq Orders
  /\ faults \in 0..MaxFaults

\* Persist-then-submit (orders.py): whatever crashes, an order of ours that
\* Alpaca has taken is in the orders table.
NoStrandedOrder == \A o \in Orders \ Foreign : o \in Accepted => HasRow(orders, o)

\* A row with an alpaca id, whoever wrote it (submitter, handler or
\* reconciler), names an order Alpaca has taken: cancel never goes astray.
BoundOnlyIfAccepted == \A o \in Orders : orders[o].bound => o \in Accepted

\* Every fill row is an execution of the venue, and no execution is counted
\* twice, however often its event is delivered.
FillsAreExecutions == fills \subseteq Executions

\* An execution is in the fills table, or its event is still to be applied, or
\* that event was lost: nothing else makes a fill disappear.
NoFillVanishes == Executions \subseteq fills \cup Reported(queue) \cup lost

\* Once the events are applied and none was lost, the stored position is the
\* venue's, whatever partial fills, cancels and restarts lie behind it.  A
\* reconcile command beside the executor voids this: it may zero the row from
\* positions it fetched before the fill.
SettledPositionMatchesVenue ==
  queue = << >> /\ lost = {} /\ rpc["cli"] = "unused" => position = VenuePosition

\* A row says FILLED only of an order the venue has filled completely, in
\* whatever order the handler, a canceller and a reconciler wrote it.
FilledIsTrue == \A o \in Orders : orders[o].status = "filled" => vstatus[o] = "filled"

\* When start-up reconcile hands over to the executor, every open row whose
\* submitter was at rest is an order Alpaca listed as open: no ghost survives.
ReconcileResolvesGhosts ==
  [][exec = "reconciling" /\ exec' = "running" /\ rpc["cli"] = "unused"
       => OpenRows(orders') \cap quiet \subseteq snapOpen["startup"]]_vars

(* What the repository says and the code does not do: each is refuted by a run. *)

\* orders.py: after a crash between persisting and recording, reconciliation
\* "sees a PENDING order and can either resubmit ... or cancel out to a clean
\* state".  Either way an order live at Alpaca is never closed in the store.
CrashedSubmitStaysOpen ==
  \A o \in VenueOpen : spc[o] = "dead" => o \in OpenRows(orders)

\* reconcile.py: "if diff: alert + repair, do not trade until clean".  An
\* executor that starts trading holds the position Alpaca reported.
StartsFromVenuePosition ==
  [][exec = "reconciling" /\ exec' = "running" => position' = snapPos["startup"]]_vars
=============================================================================
