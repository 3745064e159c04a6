------------------------------ MODULE Protection ------------------------------
(***************************************************************************)
(* Client-side brackets: who sets them, who acts on them, who removes them.*)
(*                                                                         *)
(*   entries      place-test-order --with-bracket, one process per entry:  *)
(*                the ladder buys a lot, then the brackets row is set      *)
(*   supervisor   BracketSupervisor in the executor: every tick reads the  *)
(*                bracket, the position row and the last trade, and closes *)
(*                the position with an IOC when a threshold is breached    *)
(*   handler      FillHandler in the executor: stores a fill, then rebuilds*)
(*                the position row                                         *)
(*   closer       the close-position command                               *)
(*   sellers      anything else that sells the symbol (the signal daemon)  *)
(*   venue        Alpaca (external): holding, last price, resting legs     *)
(*                                                                         *)
(* One symbol, quantities in lots, an entry buys one lot.  A bracket is    *)
(* the entry price it was computed from: stop K below it, target M above.  *)
(* The ladder is reduced to its contract (PassiveLadder): it reports a     *)
(* fill only once the fill is stored, and may miss one that comes late.    *)
(* Everything between two awaits or two writes is one step.  A failing     *)
(* call, a lost event, a dying process is a fault; MaxFaults bounds them.  *)
(***************************************************************************)
EXTENDS Integers, Sequences

CONSTANTS
  Entries,    \* the bracketed entries that may be placed
  Prices,     \* prices the symbol may trade at
  K, M,       \* k_stop * ATR and m_target * ATR
  MaxFaults   \* bound on the faults of one behaviour

ASSUME PricesAssumption == Prices \subseteq Nat \ {0}
ASSUME WidthAssumption == K \in Nat /\ M \in Nat
ASSUME MaxFaultsAssumption == MaxFaults \in Nat

VARIABLES
  \* the store
  bracket,    \* the brackets row: its entry price, or None
  position,   \* the positions row
  stored,     \* signed sum of the stored fills
  seen,       \* entries whose fill is stored
  \* Alpaca
  held,       \* the position the venue holds
  price,      \* last trade price
  \* the executor
  exec,       \* "up" or "down"
  inbox,      \* executions reported and not yet handled
  handling,   \* "idle", or "rebuild": the head's fill is stored, its row is not
  spc,        \* where the supervisor's tick stands
  sbracket,   \* the bracket the tick read
  sqty,       \* the position it read
  todo,       \* resting legs it has still to cancel
  \* the other processes
  epc,        \* epc[e]: where the entry e stands
  paid,       \* paid[e]: the price its lot was bought at
  cpc,        \* where the close-position command stands
  \* history
  sets,       \* brackets set
  exits,      \* exit orders the venue took
  missed,     \* some execution was not applied to the end
  faults

None == 0

store == <<bracket, position, stored, seen>>
venue == <<held, price>>
handler == <<inbox, handling>>
tick == <<spc, sbracket, sqty, todo>>
vars == <<store, venue, exec, handler, tick, epc, paid, cpc, sets, exits, missed, faults>>

EntryStates == {"idle", "resting", "canceled", "filled", "atr", "done"}
\* In these states the tick carries a bracket it has not dealt with yet.
Armed == {"position", "price", "orders", "cancel", "quote", "submit"}
TickStates == {"sleep", "stale", "delete"} \cup Armed
CloserStates == {"idle", "close", "delete", "done"}

Report == [lots : Int, of : Entries \cup {"other"}]
Resting == {e \in Entries : epc[e] = "resting"}

Init ==
  /\ bracket = None /\ position = 0 /\ stored = 0 /\ seen = {}
  /\ held = 0 /\ price \in Prices
  /\ exec = "up" /\ inbox = << >> /\ handling = "idle"
  /\ spc = "sleep" /\ sbracket = None /\ sqty = 0 /\ todo = {}
  /\ epc = [e \in Entries |-> "idle"]
  /\ paid = [e \in Entries |-> None]
  /\ cpc = "idle"
  /\ sets = 0 /\ exits = 0 /\ missed = FALSE /\ faults = 0

Fault == faults < MaxFaults /\ faults' = faults + 1

-----------------------------------------------------------------------------
(* The venue *)

\* The position changes by n lots; a listening executor is told.
Execute(n, e) ==
  /\ held' = held + n
  /\ IF exec = "up"
     THEN /\ inbox' = IF n = 0 THEN inbox ELSE Append(inbox, [lots |-> n, of |-> e])
          /\ UNCHANGED missed
     ELSE /\ missed' = (missed \/ n # 0)
          /\ UNCHANGED inbox

PriceMoves ==
  /\ \E p \in Prices : p # price /\ price' = p
  /\ UNCHANGED <<store, held, exec, handler, tick, epc, paid, cpc, sets, exits, missed, faults>>

LegFills(e) ==
  /\ epc[e] = "resting"
  /\ epc' = [epc EXCEPT ![e] = "filled"]
  /\ paid' = [paid EXCEPT ![e] = price]
  /\ Execute(1, e)
  /\ UNCHANGED <<store, price, exec, handling, tick, cpc, sets, exits, faults>>

OtherSell ==
  /\ held > 0
  /\ Execute(-1, "other")
  /\ UNCHANGED <<store, price, exec, handling, tick, epc, paid, cpc, sets, exits, faults>>

-----------------------------------------------------------------------------
(* Entries: place_order._run *)

\* The first leg, or the next one: the ladder polls fills, never the leg's
\* status, so a leg canceled under it is followed by another all the same.
LegSubmitted(e) ==
  /\ epc[e] \in {"idle", "canceled"}
  /\ epc' = [epc EXCEPT ![e] = "resting"]
  /\ UNCHANGED <<store, venue, exec, handler, tick, paid, cpc, sets, exits, missed, faults>>

\* Nothing bought, or nothing it knows of: the command ends without a bracket.
EntryEnds(e) ==
  /\ epc[e] \in {"resting", "canceled", "filled"}
  /\ epc' = [epc EXCEPT ![e] = "done"]
  /\ UNCHANGED <<store, venue, exec, handler, tick, paid, cpc, sets, exits, missed, faults>>

LadderReports(e) ==
  /\ epc[e] = "filled"
  /\ e \in seen
  /\ epc' = [epc EXCEPT ![e] = "atr"]
  /\ UNCHANGED <<store, venue, exec, handler, tick, paid, cpc, sets, exits, missed, faults>>

\* A bracket set from the target instead of the entry price.
SetBracketFromTarget(e) ==
  /\ epc[e] = "atr"
  /\ epc' = [epc EXCEPT ![e] = "done"]
  /\ bracket' = paid[e] + M
  /\ sets' = sets + 1
  /\ UNCHANGED <<position, stored, seen, venue, exec, handler, tick, paid, cpc, exits, missed, faults>>

SetBracket(e) ==
  /\ epc[e] = "atr"
  /\ epc' = [epc EXCEPT ![e] = "done"]
  /\ bracket' = paid[e]
  /\ sets' = sets + 1
  /\ UNCHANGED <<position, stored, seen, venue, exec, handler, tick, paid, cpc, exits, missed, faults>>

\* Too little trade history for an ATR.
NoAtr(e) ==
  /\ epc[e] = "atr"
  /\ epc' = [epc EXCEPT ![e] = "done"]
  /\ UNCHANGED <<store, venue, exec, handler, tick, paid, cpc, sets, exits, missed, faults>>

-----------------------------------------------------------------------------
(* The executor: fills *)

PersistFill ==
  /\ exec = "up" /\ handling = "idle" /\ inbox # << >>
  /\ stored' = stored + Head(inbox).lots
  /\ seen' = seen \cup ({Head(inbox).of} \ {"other"})
  /\ handling' = "rebuild"
  /\ UNCHANGED <<bracket, position, venue, exec, inbox, tick, epc, paid, cpc, sets, exits, missed, faults>>

RebuildPosition ==
  /\ handling = "rebuild"
  /\ position' = stored
  /\ inbox' = Tail(inbox)
  /\ handling' = "idle"
  /\ UNCHANGED <<bracket, stored, seen, venue, exec, tick, epc, paid, cpc, sets, exits, missed, faults>>

\* A locked database raises out of the handler, which drops the event; so does
\* a gap in the stream.
EventLost ==
  /\ Fault
  /\ exec = "up" /\ inbox # << >>
  /\ inbox' = Tail(inbox)
  /\ handling' = "idle"
  /\ missed' = TRUE
  /\ UNCHANGED <<store, venue, exec, tick, epc, paid, cpc, sets, exits>>

-----------------------------------------------------------------------------
(* The executor: BracketSupervisor *)

Goto(s) == spc' = s
supervisorOnly == <<venue, exec, handler, epc, paid, cpc, sets, missed>>

TickStarts ==
  /\ exec = "up" /\ spc = "sleep" /\ bracket # None
  /\ sbracket' = bracket
  /\ Goto("position")
  /\ UNCHANGED <<store, supervisorOnly, sqty, todo, exits, faults>>

\* A tick that skips a flat symbol without removing its bracket.
ReadPositionSkips ==
  /\ spc = "position"
  /\ sqty' = position
  /\ Goto(IF position = 0 THEN "sleep" ELSE "price")
  /\ UNCHANGED <<store, supervisorOnly, sbracket, todo, exits, faults>>

ReadPosition ==
  /\ spc = "position"
  /\ sqty' = position
  /\ Goto(IF position = 0 THEN "stale" ELSE "price")
  /\ UNCHANGED <<store, supervisorOnly, sbracket, todo, exits, faults>>

RemoveStale ==
  /\ spc = "stale"
  /\ bracket' = None
  /\ Goto("sleep")
  /\ UNCHANGED <<position, stored, seen, supervisorOnly, sbracket, sqty, todo, exits, faults>>

\* Thresholds that must be crossed, not met.
TriggeredBeyond(b, q, p) ==
  \/ q > 0 /\ (p < b - K \/ p > b + M)
  \/ q < 0 /\ (p > b - K \/ p < b + M)

\* _decide_trigger, for the sign of the position.
Triggered(b, q, p) ==
  \/ q > 0 /\ (p <= b - K \/ p >= b + M)
  \/ q < 0 /\ (p >= b - K \/ p <= b + M)

LatestTrade ==
  /\ spc = "price"
  /\ Goto(IF Triggered(sbracket, sqty, price) THEN "orders" ELSE "sleep")
  /\ UNCHANGED <<store, supervisorOnly, sbracket, sqty, todo, exits, faults>>

\* Symbols are compared as they are spelled, and Alpaca spells a pair in two
\* ways; a failed query counts as no open orders.
GetOrders ==
  /\ spc = "orders"
  /\ todo' \in {Resting, {}}
  /\ Goto("cancel")
  /\ UNCHANGED <<store, supervisorOnly, sbracket, sqty, exits, faults>>

CancelLeg(e) ==
  /\ spc = "cancel" /\ e \in todo
  /\ todo' = todo \ {e}
  /\ epc' = [epc EXCEPT ![e] = IF @ = "resting" THEN "canceled" ELSE @]
  /\ UNCHANGED <<store, venue, exec, handler, spc, sbracket, sqty, paid, cpc, sets, exits, missed, faults>>

CancelsDone ==
  /\ spc = "cancel" /\ todo = {}
  /\ Goto("quote")
  /\ UNCHANGED <<store, supervisorOnly, sbracket, sqty, todo, exits, faults>>

LatestQuote ==
  /\ spc = "quote"
  /\ Goto("submit")
  /\ UNCHANGED <<store, supervisorOnly, sbracket, sqty, todo, exits, faults>>

\* An exit on the side of the position instead of the opposite one.
VenueTakesWrongSide ==
  /\ spc = "submit"
  /\ exits' = exits + 1
  /\ \/ sqty < 0 /\ -sqty <= held /\ \E n \in 0..-sqty : Execute(-n, "other")
     \/ sqty > 0 /\ \E n \in 0..sqty : Execute(n, "other")

\* The venue takes the IOC and fills what it can of it: a sell is covered by the
\* holding, a buy has no such limit.
VenueTakesExit ==
  /\ spc = "submit"
  /\ exits' = exits + 1
  /\ \/ sqty > 0 /\ sqty <= held /\ \E n \in 0..sqty : Execute(-n, "other")
     \/ sqty < 0 /\ \E n \in 0..-sqty : Execute(n, "other")

SubmitExit ==
  /\ VenueTakesExit
  /\ Goto("delete")
  /\ UNCHANGED <<store, price, exec, handling, sbracket, sqty, todo, epc, paid, cpc, sets, faults>>

\* The answer is lost: submit raises and the row stays.
ExitUnanswered ==
  /\ Fault
  /\ VenueTakesExit
  /\ Goto("sleep")
  /\ UNCHANGED <<store, price, exec, handling, sbracket, sqty, todo, epc, paid, cpc, sets>>

\* More than the account holds: refused, submit raises, the row stays.
ExitRefused ==
  /\ spc = "submit" /\ sqty > held
  /\ Goto("sleep")
  /\ UNCHANGED <<store, supervisorOnly, sbracket, sqty, todo, exits, faults>>

\* A row kept until the position is gone: the next tick triggers again.
KeepBracket ==
  /\ spc = "delete"
  /\ Goto("sleep")
  /\ UNCHANGED <<store, supervisorOnly, sbracket, sqty, todo, exits, faults>>

DropBracket ==
  /\ spc = "delete"
  /\ bracket' = None
  /\ Goto("sleep")
  /\ UNCHANGED <<position, stored, seen, supervisorOnly, sbracket, sqty, todo, exits, faults>>

\* No trade, no quote, a refused request, a locked database: until the next tick.
TickFails ==
  /\ Fault
  /\ spc \in TickStates \ {"sleep", "orders", "cancel"}
  /\ Goto("sleep")
  /\ UNCHANGED <<store, supervisorOnly, sbracket, sqty, todo, exits>>

-----------------------------------------------------------------------------
(* The executor process *)

ExecutorDies ==
  /\ Fault
  /\ exec = "up"
  /\ exec' = "down"
  /\ inbox' = << >>
  /\ handling' = "idle"
  /\ missed' = (missed \/ inbox # << >>)
  /\ spc' = "sleep" /\ sbracket' = None /\ sqty' = 0 /\ todo' = {}
  /\ UNCHANGED <<store, venue, epc, paid, cpc, sets, exits>>

\* Start-up reconcile: halts on a position the store does not know of, zeroes
\* one the venue does not have, and compares no quantities.
ExecutorStarts ==
  /\ exec = "down"
  /\ held # 0 => position # 0
  /\ position' = IF held = 0 THEN 0 ELSE position
  /\ exec' = "up"
  /\ UNCHANGED <<bracket, stored, seen, venue, handler, tick, epc, paid, cpc, sets, exits, missed, faults>>

-----------------------------------------------------------------------------
(* The close-position command *)

CloserCancels ==
  /\ cpc = "idle"
  /\ \E legs \in {Resting, {}} :
       epc' = [e \in Entries |-> IF e \in legs THEN "canceled" ELSE epc[e]]
  /\ cpc' = "close"
  /\ UNCHANGED <<store, venue, exec, handler, tick, paid, sets, exits, missed, faults>>

CloserCloses ==
  /\ cpc = "close"
  /\ IF held = 0
     THEN cpc' = "done" /\ UNCHANGED <<held, inbox, missed>>
     ELSE cpc' = "delete" /\ Execute(-held, "other")
  /\ UNCHANGED <<store, price, exec, handling, tick, epc, paid, sets, exits, faults>>

CloserDeletes ==
  /\ cpc = "delete"
  /\ bracket' = None
  /\ cpc' = "done"
  /\ UNCHANGED <<position, stored, seen, venue, exec, handler, tick, epc, paid, sets, exits, missed, faults>>

-----------------------------------------------------------------------------

EntryNext == \E e \in Entries :
  LegSubmitted(e) \/ EntryEnds(e) \/ LadderReports(e) \/ SetBracket(e) \/ NoAtr(e)
VenueNext == PriceMoves \/ OtherSell \/ \E e \in Entries : LegFills(e)
HandlerStep == PersistFill \/ RebuildPosition
SupervisorStep ==
  \/ TickStarts \/ ReadPosition \/ RemoveStale \/ LatestTrade
  \/ GetOrders \/ CancelsDone \/ LatestQuote
  \/ SubmitExit \/ ExitRefused \/ DropBracket
  \/ \E e \in Entries : CancelLeg(e)
FaultNext == EventLost \/ ExitUnanswered \/ TickFails \/ ExecutorDies
CloserNext == CloserCancels \/ CloserCloses \/ CloserDeletes

Next ==
  EntryNext \/ VenueNext \/ HandlerStep \/ SupervisorStep
    \/ FaultNext \/ ExecutorStarts \/ CloserNext

\* The executor's event loop runs both tasks for ever; nothing obliges a
\* command, the venue or a restart.
Fairness == WF_vars(HandlerStep) /\ WF_vars(SupervisorStep)

Spec == Init /\ [][Next]_vars
FairSpec == Spec /\ Fairness

-----------------------------------------------------------------------------
(* Properties *)

\* The type invariant.
TypeOK ==
  /\ bracket \in Prices \cup {None} /\ position \in Int /\ stored \in Int
  /\ seen \subseteq Entries
  /\ held \in Nat /\ price \in Prices
  /\ exec \in {"up", "down"} /\ inbox \in Seq(Report) /\ handling \in {"idle", "rebuild"}
  /\ spc \in TickStates /\ sbracket \in Prices \cup {None} /\ sqty \in Int
  /\ todo \subseteq Entries
  /\ epc \in [Entries -> EntryStates]
  /\ paid \in [Entries -> Prices \cup {None}]
  /\ cpc \in CloserStates
  /\ sets \in Nat /\ exits \in Nat /\ missed \in BOOLEAN /\ faults \in 0..MaxFaults

\* One exit per bracket: the venue never takes more exit orders than there were
\* brackets set, except one for each fault.  The supervisor deletes the row
\* "even if the IOC fails to fully fill" so as not to "re-trigger every 2s".
OneExitPerBracket == exits <= sets + faults

\* The supervisor closes positions, it opens none: without an execution the
\* handler missed, the venue's holding grows only when an entry's leg fills.
\* (A row driven negative by a missed buy would make its exit a BUY.)
OnlyEntriesBuy ==
  [][held' > held => missed \/ \E e \in Entries : epc[e] = "resting" /\ epc'[e] = "filled"]_vars

\* A threshold breached for a position the store knows of, with the executor up
\* and no execution missed.
Breach ==
  /\ exec = "up" /\ ~missed
  /\ bracket # None /\ position > 0
  /\ price <= bracket - K \/ price >= bracket + M

\* No breach lasts for ever: stale quantities, refused exits, failed calls and
\* entries changing the bracket in mid-tick only delay the exit.
NoBreachLasts == []<>~Breach

\* A bracket without a position does not survive in a running executor.
StaleBracketGoes == []<>~(exec = "up" /\ bracket # None /\ position = 0)

\* What the comment over the check says it does: "confirm we still hold the
\* position -- bracket without position is stale".  A bracket removed as stale
\* then protects nothing.
StaleMeansFlat == [][spc = "stale" /\ bracket # None /\ bracket' = None => held = 0]_vars
=============================================================================
