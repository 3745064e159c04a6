------------------------------- MODULE Failsafe -------------------------------
(***************************************************************************)
(* The dead man's switch: the executor writes a heartbeat, the watchdog, a *)
(* process of its own, reads its age and flattens the account when it is   *)
(* stale.  Time is discrete and part of the state, since the promise is    *)
(* about time: it must not fire during a restart, and must have flattened  *)
(* the account of a dead executor before long.                             *)
(*                                                                         *)
(* Tick moves every clock at once and waits for whoever is due, so a beat  *)
(* comes Beat to Beat + Jitter after the last one, the watchdog sleeps     *)
(* Check between checks, and a REST call takes at most CallMax.  Ages stop *)
(* counting at Horizon.  Failing calls and restarts of the watchdog are    *)
(* faults, MaxFaults at most; the buys of other processes are MaxBuys at   *)
(* most.  A market close executes at once (external).                      *)
(***************************************************************************)
EXTENDS Integers, FiniteSets

CONSTANTS
  Symbols,
  Beat,       \* executor_heartbeat_s
  Jitter,     \* how late a beat may be
  MaxAge,     \* heartbeat_max_age_s
  Check,      \* watchdog_check_s
  CallMax,    \* the REST client's timeout
  Horizon,    \* where ages stop counting
  MaxFaults, MaxBuys

ASSUME SymbolsAssumption == IsFiniteSet(Symbols)
ASSUME TimesAssumption ==
  /\ {Beat, Jitter, MaxAge, Check, CallMax, Horizon} \subseteq Nat
  /\ Beat + Jitter < MaxAge /\ MaxAge < Horizon
\* The longest a check can take once it finds the heartbeat stale, and the
\* sleep before it.
Round == Check + (2 + Cardinality(Symbols)) * CallMax

\* A check ends before the heartbeat of an executor that came back meanwhile can
\* be stale again: 10 s per call, a few symbols, 90 s.
ASSUME CallsAssumption == (2 + Cardinality(Symbols)) * CallMax <= MaxAge

ASSUME BoundsAssumption ==
  /\ MaxFaults \in Nat /\ MaxBuys \in Nat
  /\ Horizon > (1 + MaxFaults + MaxBuys) * Round

VARIABLES
  exec,       \* "up" or "down"
  beatAge,    \* age of the executor's heartbeat row, NoBeat if there is none
  outage,     \* how long the executor has been down
  held,       \* symbols with a position at the venue
  resting,    \* symbols with a resting buy
  wpc,        \* where check_once stands; "sleep" between two checks
  wclock,     \* time since the watchdog's sleep, or its current call, began
  wlist,      \* positions it has still to close
  faults,
  buys,       \* buys filled
  lateBuys,   \* those filled while the executor was down
  exposed     \* how long the account of a dead, stale executor has been held

NoBeat == -1

executor == <<exec, beatAge, outage>>
account == <<held, resting>>
watchdog == <<wpc, wclock, wlist>>
counters == <<faults, buys, lateBuys, exposed>>
vars == <<executor, account, watchdog, counters>>

WatchdogStates == {"sleep", "positions", "cancel", "close"}

\* A new installation, or one that lost its state: no heartbeat yet, and the
\* account as the venue has it.
Init ==
  /\ exec = "down" /\ beatAge = NoBeat /\ outage = 0
  /\ held \in SUBSET Symbols /\ resting = {}
  /\ wpc = "sleep" /\ wclock = Check /\ wlist = {}
  /\ faults = 0 /\ buys = 0 /\ lateBuys = 0 /\ exposed = 0

Fault == faults < MaxFaults /\ faults' = faults + 1

-----------------------------------------------------------------------------
(* Time *)

Older(n) == IF n < Horizon THEN n + 1 ELSE n

Tick ==
  /\ exec = "up" => beatAge < Beat + Jitter
  /\ wclock < IF wpc = "sleep" THEN Check ELSE CallMax
  /\ wpc = "close" => wlist # {}
  /\ beatAge' = IF beatAge = NoBeat THEN NoBeat ELSE Older(beatAge)
  /\ outage' = IF exec = "up" THEN 0 ELSE Older(outage)
  /\ wclock' = wclock + 1
  /\ exposed' = IF exec = "down" /\ beatAge > MaxAge /\ held # {} THEN Older(exposed) ELSE 0
  /\ UNCHANGED <<exec, account, wpc, wlist, faults, buys, lateBuys>>

-----------------------------------------------------------------------------
(* The executor *)

\* It has reconciled; _heartbeat_loop writes the first beat before it waits.
ExecutorStarts ==
  /\ exec = "down"
  /\ exec' = "up" /\ beatAge' = 0 /\ outage' = 0
  /\ UNCHANGED <<account, watchdog, counters>>

\* A beat stamped by a clock that runs ahead.
HeartbeatAhead ==
  /\ exec = "up" /\ beatAge >= Beat
  /\ beatAge' = -(Beat + Jitter)
  /\ UNCHANGED <<exec, outage, account, watchdog, counters>>

Heartbeat ==
  /\ exec = "up" /\ beatAge >= Beat
  /\ beatAge' = 0
  /\ UNCHANGED <<exec, outage, account, watchdog, counters>>

\* Stopped, crashed, or ended by an exception of one of its tasks: a heartbeat
\* that finds the database locked is enough.
ExecutorDies ==
  /\ exec = "up"
  /\ exec' = "down"
  /\ UNCHANGED <<beatAge, outage, account, watchdog, counters>>

-----------------------------------------------------------------------------
(* The account: other processes trade on it whether the executor lives or not *)

BuyRests(s) ==
  /\ s \notin resting
  /\ resting' = resting \cup {s}
  /\ UNCHANGED <<executor, held, watchdog, counters>>

BuyFills(s) ==
  /\ s \in resting /\ buys < MaxBuys
  /\ resting' = resting \ {s}
  /\ held' = held \cup {s}
  /\ buys' = buys + 1
  /\ lateBuys' = IF exec = "down" THEN lateBuys + 1 ELSE lateBuys
  /\ UNCHANGED <<executor, watchdog, faults, exposed>>

OtherSells(s) ==
  /\ s \in held
  /\ held' = held \ {s}
  /\ UNCHANGED <<executor, resting, watchdog, counters>>

-----------------------------------------------------------------------------
(* The watchdog: DeadMansSwitch.check_once, and the loop around it *)

Goto(s) == wpc' = s /\ wclock' = 0

\* A threshold that allows no beat of tolerance.
StaleEarly == beatAge # NoBeat /\ beatAge > MaxAge - (Beat + Jitter + 1)

\* A switch that fires when the threshold is passed, and not again.
StaleOnce == beatAge # NoBeat /\ beatAge > MaxAge /\ beatAge <= MaxAge + Check

Stale == beatAge # NoBeat /\ beatAge > MaxAge

CheckHeartbeat ==
  /\ wpc = "sleep" /\ wclock = Check
  /\ Goto(IF Stale THEN "positions" ELSE "sleep")
  /\ UNCHANGED <<executor, account, wlist, counters>>

\* A check that sees to one position only.
GetFirstPosition ==
  /\ wpc = "positions"
  /\ wlist' = IF held = {} THEN {} ELSE {CHOOSE s \in held : TRUE}
  /\ Goto(IF held = {} THEN "sleep" ELSE "cancel")
  /\ UNCHANGED <<executor, account, counters>>

GetPositions ==
  /\ wpc = "positions"
  /\ wlist' = held
  /\ Goto(IF held = {} THEN "sleep" ELSE "cancel")
  /\ UNCHANGED <<executor, account, counters>>

GetPositionsFails ==
  /\ Fault
  /\ wpc = "positions"
  /\ Goto("sleep")
  /\ UNCHANGED <<executor, account, wlist, buys, lateBuys, exposed>>

CancelAll ==
  /\ wpc = "cancel"
  /\ resting' = {}
  /\ Goto("close")
  /\ UNCHANGED <<executor, held, wlist, counters>>

CancelAllFails ==
  /\ Fault
  /\ wpc = "cancel"
  /\ Goto("close")
  /\ UNCHANGED <<executor, account, wlist, buys, lateBuys, exposed>>

ClosePosition(s) ==
  /\ wpc = "close" /\ s \in wlist
  /\ held' = held \ {s}
  /\ wlist' = wlist \ {s}
  /\ Goto("close")
  /\ UNCHANGED <<executor, resting, counters>>

CloseFails(s) ==
  /\ Fault
  /\ wpc = "close" /\ s \in wlist
  /\ wlist' = wlist \ {s}
  /\ Goto("close")
  /\ UNCHANGED <<executor, account, buys, lateBuys, exposed>>

\* _triggered is set and nothing reads it: the next check fires again.
CheckEnds ==
  /\ wpc = "close" /\ wlist = {}
  /\ Goto("sleep")
  /\ UNCHANGED <<executor, account, wlist, counters>>

\* A locked database under the check, or under the watchdog's own heartbeat; a
\* restart of its container is taken to cost no more than a sleep.
WatchdogDies ==
  /\ Fault
  /\ Goto("sleep")
  /\ wlist' = {}
  /\ UNCHANGED <<executor, account, buys, lateBuys, exposed>>

-----------------------------------------------------------------------------

ExecutorNext == ExecutorStarts \/ Heartbeat \/ ExecutorDies
AccountNext == \E s \in Symbols : BuyRests(s) \/ BuyFills(s) \/ OtherSells(s)
WatchdogStep ==
  \/ CheckHeartbeat \/ GetPositions \/ CancelAll \/ CheckEnds
  \/ \E s \in Symbols : ClosePosition(s)
WatchdogFault ==
  \/ GetPositionsFails \/ CancelAllFails \/ WatchdogDies
  \/ \E s \in Symbols : CloseFails(s)

Next == Tick \/ ExecutorNext \/ AccountNext \/ WatchdogStep \/ WatchdogFault

\* Time passes, the heartbeat loop and the watchdog run.
Fairness == WF_vars(Tick) /\ WF_vars(Heartbeat) /\ WF_vars(WatchdogStep)

Spec == Init /\ [][Next]_vars
FairSpec == Spec /\ Fairness

-----------------------------------------------------------------------------
(* Properties *)

\* The type invariant.
TypeOK ==
  /\ exec \in {"up", "down"}
  /\ beatAge \in 0..Horizon \cup {NoBeat} /\ outage \in 0..Horizon
  /\ held \subseteq Symbols /\ resting \subseteq Symbols
  /\ wpc \in WatchdogStates /\ wclock \in Nat /\ wlist \subseteq Symbols
  /\ faults \in 0..MaxFaults /\ buys \in 0..MaxBuys /\ lateBuys \in 0..buys
  /\ exposed \in 0..Horizon

\* "If you're intentionally restarting the executor ... the 90s threshold
\* survives that": the switch starts to fire only on an executor that has been
\* down for longer than the threshold less one beat.
SurvivesRestart ==
  [][wpc = "sleep" /\ wpc' = "positions"
       => exec = "down" /\ outage > MaxAge - (Beat + Jitter)]_vars

\* The account of a dead executor is flat within a round of its heartbeat going
\* stale, or of a buy that fills later; every failure and every late buy costs
\* at most a round more.
FlattenedInTime == exposed <= (1 + faults + lateBuys) * Round

\* A dead executor that once had a heartbeat does not hold a position for ever.
DeadMeansFlat ==
  exec = "down" /\ beatAge # NoBeat /\ held # {} ~> exec = "up" \/ held = {}
=============================================================================
