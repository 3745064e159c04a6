-------------------------- MODULE SignalDriver_proofs --------------------------
(***************************************************************************)
(* Proofs for SignalDriver: types, the day that stays closed and the       *)
(* overshoot that takes a race, for any number of ticks and any targets.   *)
(***************************************************************************)
EXTENDS SignalDriver, TLAPS

\* What a tick past the check of the day carries, from the moment it began: a
\* date stamped by then is stamped for good, so the check has ended the tick.
StampedForGood ==
  \A p \in Cron :
    /\ tick[p].closed => tick[p].today \in stamps
    /\ tick[p].pc \in {"bars", "decide", "stamp", "ladder"} => ~tick[p].closed

\* What a tick knows of the position until somebody else trades.
Aim ==
  \A p \in Ticks : ~tick[p].raced =>
    /\ At(p, "decide") => held = tick[p].cur
    /\ tick[p].pc \in {"stamp", "ladder"} => held + tick[p].want = tick[p].goal

Inv == TypeOK /\ StampedForGood /\ Aim

TickTypes == tick \in [Ticks -> Tick]

-----------------------------------------------------------------------------
(* Steps that change one tick, and steps that mark every tick as raced *)

\* What the record of one tick must satisfy for StampedForGood and Aim.
StampedOne(p, r, dates) ==
  p \in Cron =>
    /\ r.closed => r.today \in dates
    /\ r.pc \in {"bars", "decide", "stamp", "ladder"} => ~r.closed

AimOne(r, position) ==
  ~r.raced =>
    /\ r.pc = "decide" => position = r.cur
    /\ r.pc \in {"stamp", "ladder"} => position + r.want = r.goal

LEMMA OneTickMoves ==
  ASSUME Inv, NEW p \in Ticks, NEW r \in Tick,
         tick' = [tick EXCEPT ![p] = r], held' = held, stamps \subseteq stamps',
         StampedOne(p, r, stamps'), AimOne(r, held')
  PROVE  TickTypes' /\ StampedForGood' /\ Aim'
<1>1. tick \in [Ticks -> Tick] /\ tick' \in [Ticks -> Tick] /\ tick'[p] = r
  BY DEF Inv, TypeOK
<1>2. \A q \in Ticks : q # p => tick'[q] = tick[q]
  BY <1>1
<1>3. StampedForGood'
  <2>1. SUFFICES ASSUME NEW q \in Cron PROVE StampedOne(q, tick'[q], stamps')
    BY DEF StampedForGood, StampedOne
  <2>2. CASE q = p
    BY <1>1, <2>2 DEF StampedOne
  <2>3. CASE q # p
    <3>1. q \in Ticks
      BY DEF Ticks
    <3>2. tick'[q] = tick[q]
      BY <1>2, <2>3, <3>1
    <3> QED
      BY <3>2 DEF Inv, StampedForGood, StampedOne
  <2> QED
    BY <2>2, <2>3
<1>4. Aim'
  <2>1. SUFFICES ASSUME NEW q \in Ticks PROVE AimOne(tick'[q], held')
    BY DEF Aim, AimOne, At
  <2>2. CASE q = p
    BY <1>1, <2>2 DEF AimOne
  <2>3. CASE q # p
    BY <1>2, <2>3 DEF Inv, Aim, AimOne, At
  <2> QED
    BY <2>2, <2>3
<1> QED
  BY <1>1, <1>3, <1>4 DEF TickTypes

\* A tick that ends is idle, which satisfies everything.
LEMMA TickGone ==
  ASSUME Inv, NEW p \in Ticks, TickEnds(p), held' = held, stamps' = stamps
  PROVE  TickTypes' /\ StampedForGood' /\ Aim'
<1>1. Idle \in Tick /\ ~Idle.closed /\ Idle.pc = "idle"
  BY BoundsAssumption DEF Idle, Tick, States
<1>2. StampedOne(p, Idle, stamps') /\ AimOne(Idle, held')
  BY <1>1 DEF StampedOne, AimOne
<1>3. tick' = [tick EXCEPT ![p] = Idle]
  BY DEF TickEnds
<1> QED
  BY <1>1, <1>2, <1>3, OneTickMoves

\* A tick that only moves on, to a state for which Aim says nothing new.
LEMMA TickGoes ==
  ASSUME Inv, NEW p \in Ticks, NEW s \in States, Goto(p, s),
         held' = held, stamps \subseteq stamps',
         s # "decide", s \in {"stamp", "ladder"} => At(p, "stamp"),
         s = "bars" /\ p \in Cron => ~tick[p].closed
  PROVE  TickTypes' /\ StampedForGood' /\ Aim'
<1> DEFINE r == [tick[p] EXCEPT !.pc = s]
<1>1. tick[p] \in Tick
  BY DEF Inv, TypeOK
<1>2. r \in Tick
  BY <1>1 DEF Tick
<1>3. /\ r.pc = s /\ r.closed = tick[p].closed /\ r.today = tick[p].today
      /\ r.raced = tick[p].raced /\ r.want = tick[p].want /\ r.goal = tick[p].goal
  BY <1>1 DEF Tick
<1>4. StampedOne(p, r, stamps')
  BY <1>3 DEF StampedOne, Inv, StampedForGood, At
<1>5. AimOne(r, held')
  BY <1>3 DEF AimOne, Inv, Aim, At
<1>6. tick' = [tick EXCEPT ![p] = r]
  BY DEF Goto
<1> HIDE DEF r
<1> QED
  BY <1>2, <1>4, <1>5, <1>6, OneTickMoves

\* A trade marks every tick that has read the position, except perhaps one.
LEMMA OthersAreMarked ==
  ASSUME Inv, NEW q \in Ticks
  PROVE  /\ Raced(q) \in Tick
         /\ StampedOne(q, Raced(q), stamps)
         /\ Raced(q).pc \in {"decide", "stamp", "ladder"} => Raced(q).raced
<1>1. tick[q] \in Tick
  BY DEF Inv, TypeOK
<1>2. /\ Raced(q) \in Tick
      /\ Raced(q).pc = tick[q].pc /\ Raced(q).closed = tick[q].closed
      /\ Raced(q).today = tick[q].today
      /\ Raced(q).raced = (tick[q].raced \/ tick[q].pc \in {"decide", "stamp", "ladder"})
  BY <1>1 DEF Raced, Tick
<1> QED
  BY <1>2 DEF StampedOne, Inv, StampedForGood

LEMMA AllMarked ==
  ASSUME Inv, tick' = [q \in Ticks |-> Raced(q)], stamps' = stamps
  PROVE  TickTypes' /\ StampedForGood' /\ Aim'
<1>1. \A q \in Ticks : /\ tick'[q] \in Tick
                       /\ StampedOne(q, tick'[q], stamps)
                       /\ tick'[q].pc \in {"decide", "stamp", "ladder"} => tick'[q].raced
  BY OthersAreMarked
<1>2. TickTypes'
  BY <1>1 DEF TickTypes
<1>3. StampedForGood'
  BY <1>1 DEF StampedForGood, StampedOne, Ticks
<1>4. Aim'
  BY <1>1 DEF Aim, At
<1> QED
  BY <1>2, <1>3, <1>4

-----------------------------------------------------------------------------
(* The inductive invariant *)

LEMMA InvInit == Init => Inv
<1> SUFFICES ASSUME Init PROVE Inv
  OBVIOUS
<1>1. Idle \in Tick /\ ~Idle.closed /\ Idle.pc = "idle"
  BY BoundsAssumption DEF Idle, Tick, States
<1>2. \A p \in Ticks : tick[p] = Idle
  BY DEF Init
<1>3. TypeOK
  <2>1. tick \in [Ticks -> Tick]
    BY <1>1 DEF Init
  <2>2. MaxDay \in Nat /\ 1 \in 1..MaxDay /\ 0 \in 0..MaxFaults
    BY BoundsAssumption
  <2> QED
    BY <2>1, <2>2 DEF Init, TypeOK
<1>4. StampedForGood
  BY <1>1, <1>2 DEF StampedForGood, Ticks
<1>5. Aim
  BY <1>1, <1>2 DEF Aim, At
<1> QED
  BY <1>3, <1>4, <1>5 DEF Inv

\* The rest of the state keeps its types whatever happens to the ticks.
LEMMA TypesOfTheRest ==
  ASSUME TypeOK, TickTypes',
         stamps' \subseteq 1..MaxDay, rejected' \subseteq stamps',
         exec' \in {"none", "up", "fresh", "stale"}, known' \in BOOLEAN,
         held' \in Nat, target' \in Targets, day' \in 1..MaxDay,
         faults' \in 0..MaxFaults
  PROVE  TypeOK'
BY DEF TypeOK, TickTypes

LEMMA InvStep == Inv /\ [Next]_vars => Inv'
<1> SUFFICES ASSUME Inv, [Next]_vars PROVE Inv'
  OBVIOUS
<1> USE TargetsAssumption, BoundsAssumption
<1>0. TypeOK
  BY DEF Inv
<1>a. ASSUME NEW p \in Ticks, NEW r \in Tick, tick' = [tick EXCEPT ![p] = r],
             UNCHANGED <<store, world>>, faults' \in 0..MaxFaults,
             StampedOne(p, r, stamps'), AimOne(r, held')
      PROVE  Inv'
  BY <1>0, <1>a, OneTickMoves, TypesOfTheRest DEF store, world, Inv, TypeOK
<1>b. ASSUME NEW p \in Ticks, TickEnds(p), UNCHANGED <<store, world>>,
             faults' \in 0..MaxFaults
      PROVE  Inv'
  BY <1>0, <1>b, TickGone, TypesOfTheRest DEF store, world, Inv, TypeOK
<1>f. faults \in 0..MaxFaults /\ (Fault => faults' \in 0..MaxFaults)
  BY <1>0 DEF TypeOK, Fault
<1>1. ASSUME NEW p \in Ticks, Begin(p) PROVE Inv'
  <2> DEFINE r == [tick[p] EXCEPT !.pc = "reconcile", !.today = day,
                                  !.closed = Stamped(day)]
  <2>1. tick[p] \in Tick /\ day \in 1..MaxDay
    BY <1>0 DEF TypeOK
  <2>2. r \in Tick
    <3>1. Stamped(day) \in BOOLEAN
      BY DEF Stamped
    <3>2. \A b \in BOOLEAN :
            [tick[p] EXCEPT !.pc = "reconcile", !.today = day, !.closed = b] \in Tick
      BY <2>1 DEF Tick, States
    <3> QED
      BY <3>1, <3>2
  <2>3. r.pc = "reconcile" /\ r.today = day /\ r.closed = (day \in stamps)
    BY <2>1 DEF Tick, Stamped
  <2>4. UNCHANGED <<store, world>> /\ faults' \in 0..MaxFaults
    BY <1>1, <1>f DEF Begin
  <2>5. StampedOne(p, r, stamps') /\ AimOne(r, held')
    BY <2>3, <2>4 DEF StampedOne, AimOne, store, world
  <2>6. tick' = [tick EXCEPT ![p] = r]
    BY <1>1 DEF Begin
  <2> HIDE DEF r
  <2> QED
    BY <2>2, <2>4, <2>5, <2>6, <1>a
<1>2. ASSUME NEW p \in Ticks, Reconcile(p) PROVE Inv'
  <2>1. /\ UNCHANGED <<stamps, world, faults>> /\ rejected' = stamps
        /\ known' \in BOOLEAN
    BY <1>2, <1>0 DEF Reconcile, TypeOK
  <2>2. TickTypes' /\ StampedForGood' /\ Aim'
    <3>1. CASE Goto(p, "heartbeat")
      BY <3>1, <2>1, TickGoes DEF world, States
    <3>2. CASE TickEnds(p)
      BY <3>2, <2>1, TickGone DEF world
    <3> QED
      BY <3>1, <3>2, <1>2 DEF Reconcile, GotoIf
  <2> QED
    BY <2>1, <2>2, <1>0, TypesOfTheRest DEF world, TypeOK, Inv
<1>3. ASSUME NEW p \in Ticks, CheckHeartbeat(p) PROVE Inv'
  <2>1. UNCHANGED <<store, world, faults>>
    BY <1>3 DEF CheckHeartbeat
  <2>2. TickTypes' /\ StampedForGood' /\ Aim'
    <3>1. CASE Goto(p, "day")
      BY <3>1, <2>1, TickGoes DEF store, world, States
    <3>2. CASE TickEnds(p)
      BY <3>2, <2>1, TickGone DEF store, world
    <3> QED
      BY <3>1, <3>2, <1>3 DEF CheckHeartbeat, GotoIf
  <2> QED
    BY <2>1, <2>2, <1>0, TypesOfTheRest DEF store, world, TypeOK, Inv
<1>4. ASSUME NEW p \in Ticks, CheckDay(p) PROVE Inv'
  <2>1. UNCHANGED <<store, world, faults>>
    BY <1>4 DEF CheckDay
  <2>2. TickTypes' /\ StampedForGood' /\ Aim'
    <3>1. CASE (p = Daemon \/ ~Stamped(tick[p].today)) /\ Goto(p, "bars")
      <4>1. p \in Cron => ~tick[p].closed
        BY <3>1, CronAssumption DEF Stamped, Inv, StampedForGood
      <4> QED
        BY <3>1, <4>1, <2>1, TickGoes DEF store, world, States
    <3>2. CASE TickEnds(p)
      BY <3>2, <2>1, TickGone DEF store, world
    <3> QED
      BY <3>1, <3>2, <1>4 DEF CheckDay, GotoIf
  <2> QED
    BY <2>1, <2>2, <1>0, TypesOfTheRest DEF store, world, TypeOK, Inv
<1>5. ASSUME NEW p \in Ticks, ReadPosition(p) PROVE Inv'
  <2> DEFINE r == [tick[p] EXCEPT !.pc = "decide", !.cur = held]
  <2>1. tick[p] \in Tick /\ held \in Nat
    BY <1>0 DEF TypeOK
  <2>2. r \in Tick
    BY <2>1 DEF Tick, States
  <2>3. r.pc = "decide" /\ r.cur = held /\ r.closed = tick[p].closed
    BY <2>1 DEF Tick
  <2>4. UNCHANGED <<store, world>> /\ faults' \in 0..MaxFaults
    BY <1>5, <1>f DEF ReadPosition
  <2>5. StampedOne(p, r, stamps') /\ AimOne(r, held')
    <3>1. p \in Cron => ~tick[p].closed
      BY <1>5 DEF ReadPosition, At, Inv, StampedForGood
    <3> QED
      BY <2>3, <2>4, <3>1 DEF StampedOne, AimOne, store, world
  <2>6. tick' = [tick EXCEPT ![p] = r]
    BY <1>5 DEF ReadPosition
  <2> HIDE DEF r
  <2> QED
    BY <2>2, <2>4, <2>5, <2>6, <1>a
<1>6. ASSUME NEW p \in Ticks, Decide(p) PROVE Inv'
  <2>0. UNCHANGED <<store, world>> /\ faults' \in 0..MaxFaults
    BY <1>6, <1>f DEF Decide
  <2>1. CASE TickEnds(p)
    BY <2>0, <2>1, <1>b
  <2>2. CASE ~TickEnds(p)
    <3> DEFINE s == IF p = Daemon THEN "ladder" ELSE "stamp"
    <3> DEFINE r == [tick[p] EXCEPT !.pc = s, !.cur = 0, !.goal = target,
                                    !.want = target - tick[p].cur]
    <3>1. tick[p] \in Tick /\ held \in Nat /\ target \in Nat
      BY <1>0 DEF TypeOK
    <3>2. r \in Tick
      <4>1. tick[p].cur \in Nat
        BY <3>1 DEF Tick
      <4>2. target - tick[p].cur \in Int /\ s \in States
        BY <3>1, <4>1 DEF States
      <4> HIDE DEF s
      <4> QED
        BY <3>1, <4>2 DEF Tick
    <3>3. /\ r.pc = s /\ r.goal = target /\ r.want = target - tick[p].cur
          /\ r.closed = tick[p].closed /\ r.raced = tick[p].raced
      BY <3>1 DEF Tick
    <3>4. p \in Cron => ~tick[p].closed
      BY <1>6 DEF Decide, At, Inv, StampedForGood
    <3>5. ~tick[p].raced => held = tick[p].cur
      BY <1>6 DEF Decide, Inv, Aim
    <3>6. StampedOne(p, r, stamps')
      BY <3>3, <3>4, <2>0 DEF StampedOne, store
    <3>7. AimOne(r, held')
      <4>1. ~tick[p].raced => held + (target - tick[p].cur) = target
        BY <3>1, <3>5
      <4>2. s # "decide"
        OBVIOUS
      <4> QED
        BY <3>3, <4>1, <4>2, <2>0 DEF AimOne, world
    <3>8. tick' = [tick EXCEPT ![p] = r]
      BY <1>6, <2>2 DEF Decide
    <3> HIDE DEF r
    <3> QED
      BY <3>2, <3>6, <3>7, <3>8, <2>0, <1>a
  <2> QED
    BY <2>1, <2>2
<1>7. ASSUME NEW p \in Ticks, Stamp(p) PROVE Inv'
  <2>1. /\ UNCHANGED <<known, world, faults>>
        /\ stamps' = stamps \cup {tick[p].today}
        /\ rejected' = rejected \ {tick[p].today}
        /\ At(p, "stamp") /\ Goto(p, "ladder")
    BY <1>7 DEF Stamp
  <2>2. tick[p].today \in 1..MaxDay
    BY <1>0 DEF TypeOK, Tick
  <2>3. TickTypes' /\ StampedForGood' /\ Aim'
    BY <2>1, TickGoes DEF world, States
  <2> QED
    BY <2>1, <2>2, <2>3, <1>0, TypesOfTheRest DEF world, TypeOK, Inv
<1>8. ASSUME NEW p \in Ticks, StampFails(p) PROVE Inv'
  <2>1. UNCHANGED <<store, world>> /\ faults' \in 0..MaxFaults
    BY <1>8, <1>f DEF StampFails
  <2>2. TickTypes' /\ StampedForGood' /\ Aim'
    BY <1>8, <2>1, TickGoes DEF StampFails, store, world, States
  <2> QED
    BY <2>1, <2>2, <1>0, TypesOfTheRest DEF store, world, TypeOK, Inv
<1>9. ASSUME NEW p \in Ticks, LadderEnds(p) \/ CallFails(p) PROVE Inv'
  BY <1>9, <1>b, <1>f DEF LadderEnds, CallFails
<1>10. ASSUME NEW p \in Ticks, LotFills(p) PROVE Inv'
  <2>1. /\ UNCHANGED <<store, exec, target, day, faults>>
        /\ At(p, "ladder")
        /\ \/ tick[p].want > 0 /\ held' = held + 1
           \/ tick[p].want < 0 /\ held > 0 /\ held' = held - 1
        /\ tick' = [q \in Ticks |-> IF q = p THEN [tick[p] EXCEPT !.want = Toward(@)]
                                             ELSE Raced(q)]
    BY <1>10 DEF LotFills, Lot
  <2>2. tick[p] \in Tick /\ held \in Nat /\ tick[p].want \in Int
    BY <1>0 DEF TypeOK, Tick
  <2>3. held' \in Nat /\ held' + Toward(tick[p].want) = held + tick[p].want
        /\ Toward(tick[p].want) \in Int
    BY <2>1, <2>2 DEF Toward
  <2> DEFINE r == [tick[p] EXCEPT !.want = Toward(@)]
  <2>4. /\ r \in Tick /\ r.pc = "ladder" /\ r.want = Toward(tick[p].want)
        /\ r.goal = tick[p].goal /\ r.raced = tick[p].raced
        /\ r.closed = tick[p].closed /\ r.today = tick[p].today
    BY <2>1, <2>2, <2>3 DEF Tick, At
  <2>5. tick'[p] = r
    BY <2>1
  <2>6. \A q \in Ticks : q # p => tick'[q] = Raced(q)
    BY <2>1
  <2> HIDE DEF r
  <2>7. TickTypes'
    <3>1. \A q \in Ticks : tick'[q] \in Tick
      BY <2>4, <2>5, <2>6, OthersAreMarked
    <3> QED
      BY <2>1, <3>1 DEF TickTypes
  <2>8. StampedForGood'
    <3>1. \A q \in Ticks : StampedOne(q, tick'[q], stamps)
      <4>1. StampedOne(p, r, stamps)
        BY <2>1, <2>4 DEF StampedOne, At, Inv, StampedForGood
      <4> QED
        BY <4>1, <2>5, <2>6, OthersAreMarked
    <3> QED
      BY <3>1, <2>1 DEF StampedForGood, StampedOne, Ticks, store
  <2>9. Aim'
    <3>1. SUFFICES ASSUME NEW q \in Ticks PROVE AimOne(tick'[q], held')
      BY DEF Aim, AimOne, At
    <3>2. CASE q = p
      <4>1. ~tick[p].raced => held + tick[p].want = tick[p].goal
        BY <2>1 DEF Inv, Aim, At
      <4> QED
        BY <3>2, <4>1, <2>3, <2>4, <2>5 DEF AimOne
    <3>3. CASE q # p
      BY <3>3, <2>6, OthersAreMarked DEF AimOne
    <3> QED
      BY <3>2, <3>3
  <2> QED
    BY <2>1, <2>3, <2>7, <2>8, <2>9, <1>0, <1>f, TypesOfTheRest
       DEF store, TypeOK, Inv
<1>11. ASSUME NEW p \in Ticks, UnseenFill(p) PROVE Inv'
  <2>1. held' \in Nat
    BY <1>11, <1>0 DEF UnseenFill, Lot, TypeOK
  <2>2. TickTypes' /\ StampedForGood' /\ Aim'
    BY <1>11, AllMarked DEF UnseenFill, store
  <2> QED
    BY <1>11, <2>1, <2>2, <1>0, <1>f, TypesOfTheRest
       DEF UnseenFill, store, TypeOK, Inv
<1>12. CASE WatchdogFlattens
  <2>1. TickTypes' /\ StampedForGood' /\ Aim'
    BY <1>12, AllMarked DEF WatchdogFlattens, store
  <2> QED
    BY <1>12, <2>1, <1>0, TypesOfTheRest DEF WatchdogFlattens, store, TypeOK, Inv
<1>13. ASSUME UNCHANGED <<tick, stamps, held>> PROVE TickTypes' /\ StampedForGood' /\ Aim'
  BY <1>13 DEF Inv, TypeOK, TickTypes, StampedForGood, Aim, At
<1>14. CASE ExecutorNext
  <2>1. /\ UNCHANGED <<tick, stamps, held, target, day, faults>>
        /\ exec' \in {"none", "up", "fresh", "stale"} /\ known' \in BOOLEAN
        /\ rejected' \subseteq stamps
    BY <1>14, <1>0
       DEF ExecutorNext, RecordFills, ExecutorDies, HeartbeatGoesStale, ExecutorStarts,
           store, world, TypeOK
  <2> QED
    BY <2>1, <1>13, <1>0, TypesOfTheRest DEF TypeOK, Inv
<1>15. CASE TargetMoves \/ Midnight
  <2>1. /\ UNCHANGED <<tick, store, exec, held, faults>>
        /\ target' \in Targets /\ day' \in 1..MaxDay
    BY <1>15, <1>0 DEF TargetMoves, Midnight, TypeOK
  <2> QED
    BY <2>1, <1>13, <1>0, TypesOfTheRest DEF store, TypeOK, Inv
<1>16. CASE UNCHANGED vars
  BY <1>16, <1>13, <1>0, TypesOfTheRest DEF vars, store, world, TypeOK, Inv
<1> QED
  BY <1>1, <1>2, <1>3, <1>4, <1>5, <1>6, <1>7, <1>8, <1>9, <1>10, <1>11, <1>12,
     <1>14, <1>15, <1>16
     DEF Next, TickStep, TickFault

THEOREM InvAlways == Spec => []Inv
<1>1. Inv /\ [Next]_vars => Inv'
  BY InvStep
<1> QED
  BY InvInit, <1>1, PTL DEF Spec

-----------------------------------------------------------------------------
(* The theorems *)

\* Every variable keeps its type.
THEOREM TypeCorrect == Spec => []TypeOK
<1>1. Inv => TypeOK
  BY DEF Inv
<1> QED
  BY InvAlways, <1>1, PTL

\* No one-shot tick that begins on a date already stamped trades, whatever
\* reconcile has done to the placeholder and however many ticks overlap.
THEOREM StampedDaysAreClosed == Spec => []ClosedDayStaysClosed
<1>1. Inv => ClosedDayStaysClosed
  BY DEF Inv, StampedForGood, ClosedDayStaysClosed
<1> QED
  BY InvAlways, <1>1, PTL

\* A ladder that nobody raced ends at the target its tick computed.
THEOREM OvershootsAreRaces == Spec => []OvershootNeedsRace
<1>1. Inv => OvershootNeedsRace
  BY DEF Inv, Aim, OvershootNeedsRace, At
<1> QED
  BY InvAlways, <1>1, PTL
=============================================================================
