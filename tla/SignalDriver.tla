----------------------------- MODULE SignalDriver -----------------------------
(***************************************************************************)
(* paper_tick, run by several processes at once: one-shot ticks, started   *)
(* at any time ("daily" mode: one a UTC day and symbol), and the daemon    *)
(* that ticks for ever ("drift" mode).  A tick refuses to trade on a critical   *)
(* reconcile, a stale executor heartbeat or a day already stamped, then    *)
(* sizes the difference between target and position and hands it to the    *)
(* ladder, many awaits after what it checked.                              *)
(*                                                                         *)
(* One symbol, quantities in lots.  The strategy, equity and price are one *)
(* number, the target, which may move at any time.  Around the ticks stand *)
(* abstractions of other modules: the executor, which alone records what   *)
(* trades (OrderLifecycle), the watchdog, which flattens the account of a  *)
(* stale executor (Failsafe), and the ladder, which buys or sells lot by   *)
(* lot and may give up at any point (PassiveLadder).                       *)
(*                                                                         *)
(* A failing call, a lost stamp, a fill the ladder does not see are faults;*)
(* MaxFaults bounds them.  MaxDay bounds the days.                         *)
(***************************************************************************)
EXTENDS Integers

CONSTANTS
  Cron,       \* the one-shot ticks that may run at once
  Targets,    \* what the strategy may want to hold
  CronGate,   \* least difference a one-shot tick trades ($10)
  DaemonGate, \* least difference the daemon trades ($50)
  MaxDay, MaxFaults

Daemon == "daemon"
Ticks == Cron \cup {Daemon}

ASSUME CronAssumption == Daemon \notin Cron
ASSUME TargetsAssumption == Targets \subseteq Nat
ASSUME GateAssumption == CronGate \in Nat \ {0} /\ DaemonGate \in Nat \ {0}
ASSUME BoundsAssumption == MaxDay \in Nat \ {0} /\ MaxFaults \in Nat

VARIABLES
  tick,       \* tick[p]: where the tick of p stands and what it remembers
  stamps,     \* the dates of the placeholder orders
  rejected,   \* those whose placeholders reconcile has all marked REJECTED
  exec,       \* "none" (no heartbeat ever), "up", "fresh" (down), "stale" (down)
  known,      \* the store has a non-zero position row
  held,       \* the position at the venue
  target, day,
  faults

store == <<stamps, rejected, known>>
world == <<exec, held, target, day>>
vars == <<tick, store, world, faults>>

States == {"idle", "reconcile", "heartbeat", "day", "bars", "decide", "stamp",
           "ladder"}

\* today: the date the tick began on; cur: the position it read, till it decides;
\* goal: the target it computed; want: what its ladder has still to trade.
\* History: closed: its date was stamped before it began; raced: somebody else
\* traded since it read the position.
Tick == [pc : States, today : 1..MaxDay, cur : Nat, goal : Nat, want : Int,
         closed : BOOLEAN, raced : BOOLEAN]

Idle == [pc |-> "idle", today |-> 1, cur |-> 0, goal |-> 0, want |-> 0,
         closed |-> FALSE, raced |-> FALSE]

Init ==
  /\ tick = [p \in Ticks |-> Idle]
  /\ stamps = {} /\ rejected = {}
  /\ exec \in {"none", "up"} /\ known = FALSE
  /\ held = 0 /\ target \in Targets /\ day = 1
  /\ faults = 0

Fault == faults < MaxFaults /\ faults' = faults + 1

Gate(p) == IF p = Daemon THEN DaemonGate ELSE CronGate
At(p, s) == tick[p].pc = s
Goto(p, s) == tick' = [tick EXCEPT ![p].pc = s]

\* A one-shot tick exits, the daemon sleeps.
TickEnds(p) == tick' = [tick EXCEPT ![p] = Idle]

GotoIf(p, ok, s) == (ok /\ Goto(p, s)) \/ (~ok /\ TickEnds(p))

\* _already_ticked_today, counting only the placeholders still open.
StampedOpen(d) == d \in stamps \ rejected

\* _already_ticked_today: a placeholder of the date, whatever its status.
Stamped(d) == d \in stamps

-----------------------------------------------------------------------------
(* A tick *)

Begin(p) ==
  /\ At(p, "idle")
  /\ tick' = [tick EXCEPT ![p].pc = "reconcile", ![p].today = day,
                          ![p].closed = Stamped(day)]
  /\ UNCHANGED <<store, world, faults>>

\* Placeholders are PENDING rows without an Alpaca id: marked REJECTED.  A
\* position the venue does not have is zeroed; one the store does not know of
\* ends the tick.
Reconcile(p) ==
  /\ At(p, "reconcile")
  /\ rejected' = stamps
  /\ known' = (known /\ held # 0)
  /\ GotoIf(p, held # 0 => known, "heartbeat")
  /\ UNCHANGED <<stamps, world, faults>>

\* A tick that trusts the account without looking at the heartbeat.
IgnoreHeartbeat(p) ==
  /\ At(p, "heartbeat")
  /\ Goto(p, "day")
  /\ UNCHANGED <<store, world, faults>>

CheckHeartbeat(p) ==
  /\ At(p, "heartbeat")
  /\ GotoIf(p, exec \in {"up", "fresh"}, "day")
  /\ UNCHANGED <<store, world, faults>>

CheckDay(p) ==
  /\ At(p, "day")
  /\ GotoIf(p, p = Daemon \/ ~Stamped(tick[p].today), "bars")
  /\ UNCHANGED <<store, world, faults>>

\* The bars, the strategy, then the position at Alpaca.
ReadPosition(p) ==
  /\ At(p, "bars")
  /\ tick' = [tick EXCEPT ![p].pc = "decide", ![p].cur = held]
  /\ UNCHANGED <<store, world, faults>>

Distance(a, b) == IF a < b THEN b - a ELSE a - b

\* A difference taken the wrong way round.
DecideInverted(p) ==
  /\ At(p, "decide")
  /\ IF Distance(tick[p].cur, target) >= Gate(p)
     THEN tick' = [tick EXCEPT
            ![p].pc = IF p = Daemon THEN "ladder" ELSE "stamp",
            ![p].cur = 0, ![p].goal = target, ![p].want = tick[p].cur - target]
     ELSE TickEnds(p)
  /\ UNCHANGED <<store, world, faults>>

\* The quote, the size and the gate.
Decide(p) ==
  /\ At(p, "decide")
  /\ IF Distance(tick[p].cur, target) >= Gate(p)
     THEN tick' = [tick EXCEPT
            ![p].pc = IF p = Daemon THEN "ladder" ELSE "stamp",
            ![p].cur = 0, ![p].goal = target, ![p].want = target - tick[p].cur]
     ELSE TickEnds(p)
  /\ UNCHANGED <<store, world, faults>>

Stamp(p) ==
  /\ At(p, "stamp")
  /\ stamps' = stamps \cup {tick[p].today}
  /\ rejected' = rejected \ {tick[p].today}
  /\ Goto(p, "ladder")
  /\ UNCHANGED <<known, world, faults>>

\* The insert fails, a warning is logged and the tick trades all the same.
StampFails(p) ==
  /\ Fault
  /\ At(p, "stamp")
  /\ Goto(p, "ladder")
  /\ UNCHANGED <<store, world>>

\* A sale not limited by what the account holds.
LotSoldShort(p) ==
  /\ At(p, "ladder")
  /\ \/ tick[p].want > 0 /\ held' = held + 1
     \/ tick[p].want < 0 /\ held' = held - 1

\* One lot in the direction of want; the venue sells nothing it does not hold.
Lot(p) ==
  /\ At(p, "ladder")
  /\ \/ tick[p].want > 0 /\ held' = held + 1
     \/ tick[p].want < 0 /\ held > 0 /\ held' = held - 1

Toward(n) == IF n > 0 THEN n - 1 ELSE n + 1

\* Marks a tick that has read the position it trades from.
Raced(q) ==
  [tick[q] EXCEPT !.raced = @ \/ tick[q].pc \in {"decide", "stamp", "ladder"}]

LotFills(p) ==
  /\ Lot(p)
  /\ tick' = [q \in Ticks |-> IF q = p THEN [tick[p] EXCEPT !.want = Toward(@)]
                                       ELSE Raced(q)]
  /\ UNCHANGED <<store, exec, target, day, faults>>

\* A fill of a leg the ladder has given up: it will trade the lot again.
UnseenFill(p) ==
  /\ Fault
  /\ Lot(p)
  /\ tick' = [q \in Ticks |-> Raced(q)]
  /\ UNCHANGED <<store, exec, target, day>>

\* Filled, out of time, or refused.
LadderEnds(p) ==
  /\ At(p, "ladder")
  /\ TickEnds(p)
  /\ UNCHANGED <<store, world, faults>>

\* No account, trading blocked, no bars, no positions, no quote.
CallFails(p) ==
  /\ Fault
  /\ tick[p].pc \in {"reconcile", "bars", "decide"}
  /\ TickEnds(p)
  /\ UNCHANGED <<store, world>>

-----------------------------------------------------------------------------
(* The rest of the system *)

RecordFills ==
  /\ exec = "up"
  /\ known' = (held # 0)
  /\ UNCHANGED <<tick, stamps, rejected, world, faults>>

ExecutorDies ==
  /\ exec = "up"
  /\ exec' = "fresh"
  /\ UNCHANGED <<tick, store, held, target, day, faults>>

HeartbeatGoesStale ==
  /\ exec = "fresh"
  /\ exec' = "stale"
  /\ UNCHANGED <<tick, store, held, target, day, faults>>

\* Start-up reconcile: as in a tick.
ExecutorStarts ==
  /\ exec # "up"
  /\ held # 0 => known
  /\ exec' = "up"
  /\ known' = (known /\ held # 0)
  /\ rejected' = stamps
  /\ UNCHANGED <<tick, stamps, held, target, day, faults>>

\* Legs it cancels are followed by others: a running ladder goes on.
WatchdogFlattens ==
  /\ exec = "stale" /\ held # 0
  /\ held' = 0
  /\ tick' = [q \in Ticks |-> Raced(q)]
  /\ UNCHANGED <<store, exec, target, day, faults>>

TargetMoves ==
  /\ \E n \in Targets : n # target /\ target' = n
  /\ UNCHANGED <<tick, store, exec, held, day, faults>>

Midnight ==
  /\ day < MaxDay
  /\ day' = day + 1
  /\ UNCHANGED <<tick, store, exec, held, target, faults>>

-----------------------------------------------------------------------------

TickStep(p) ==
  \/ Reconcile(p) \/ CheckHeartbeat(p) \/ CheckDay(p)
  \/ ReadPosition(p) \/ Decide(p) \/ Stamp(p) \/ LadderEnds(p)
TickFault(p) == StampFails(p) \/ UnseenFill(p) \/ CallFails(p)
ExecutorNext == RecordFills \/ ExecutorDies \/ HeartbeatGoesStale \/ ExecutorStarts

Next ==
  \/ \E p \in Ticks : Begin(p) \/ TickStep(p) \/ LotFills(p) \/ TickFault(p)
  \/ ExecutorNext \/ WatchdogFlattens \/ TargetMoves \/ Midnight

\* A tick under way goes on and the daemon keeps ticking; the handler keeps recording; the
\* watchdog keeps checking; a ladder that keeps being given lots to trade gets
\* some of them (it ends by crossing the spread).
Fairness ==
  /\ \A p \in Ticks : WF_vars(TickStep(p)) /\ SF_vars(LotFills(p))
  /\ WF_vars(Begin(Daemon)) /\ WF_vars(RecordFills) /\ WF_vars(WatchdogFlattens)

Spec == Init /\ [][Next]_vars
FairSpec == Spec /\ Fairness

-----------------------------------------------------------------------------
(* Properties *)

\* The type invariant.
TypeOK ==
  /\ tick \in [Ticks -> Tick]
  /\ stamps \subseteq 1..MaxDay /\ rejected \subseteq stamps
  /\ exec \in {"none", "up", "fresh", "stale"} /\ known \in BOOLEAN
  /\ held \in Nat /\ target \in Targets /\ day \in 1..MaxDay
  /\ faults \in 0..MaxFaults

\* A day that is stamped stays closed: no one-shot tick that begins later trades
\* on it, although every reconcile marks the placeholder REJECTED.
ClosedDayStaysClosed ==
  \A p \in Cron : tick[p].pc \in {"stamp", "ladder"} => ~tick[p].closed

\* A ladder heads for the target its tick computed unless somebody else traded
\* after the tick read the position: every overshoot takes a race.
OvershootNeedsRace ==
  \A p \in Ticks :
    At(p, "ladder") /\ ~tick[p].raced => held + tick[p].want = tick[p].goal

\* The account of an executor that stays dead ends up flat for good: the
\* watchdog flattens it, and no tick buys again what it sold, since a tick that
\* begins after the heartbeat went stale never trades.
FlatForGood == <>[](exec = "stale") => <>[](held = 0)

\* With an executor that stays up and a target that stops moving, the position
\* ends up at the target, within what the daemon does not trade; overlapping
\* ticks, unseen fills and failing calls only take it longer.
Converges ==
  <>[](exec = "up") /\ <>[][UNCHANGED target]_vars
    => <>[](Distance(held, target) < DaemonGate)

\* "Refuse to trade if we already submitted a signal-driven order today
\* (prevents double-trading if cron fires twice)."
OneTradePerDay ==
  \A p, q \in Cron :
    p # q /\ At(p, "ladder") /\ At(q, "ladder") => tick[p].today # tick[q].today
=============================================================================
