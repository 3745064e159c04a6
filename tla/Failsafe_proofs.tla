--------------------------- MODULE Failsafe_proofs ---------------------------
(***************************************************************************)
(* Proofs about Failsafe, for every set of symbols and all periods.        *)
(*                                                                         *)
(* SurvivesRestart follows from Pulse: a heartbeat is never older than the *)
(* outage by more than a late beat.                                        *)
(*                                                                         *)
(* FlattenedInTime is a real-time bound.  Left is the longest the watchdog *)
(* can take until the positions it has listed, or will list next, are      *)
(* closed.  While the account of a dead executor is exposed, exposure and  *)
(* Left together stay within the Budget (Planned); a position the current  *)
(* list misses was bought, or its close failed, after the list was made,   *)
(* and has paid for one more round.  InFlight keeps a check that outlives  *)
(* the return of the executor from eating into the next outage.            *)
(***************************************************************************)
EXTENDS Failsafe, FiniteSetTheorems, TLAPS

Full == (2 + Cardinality(Symbols)) * CallMax

CallsLeft ==
  IF wpc = "positions" THEN 2 + Cardinality(Symbols)
  ELSE IF wpc = "cancel" THEN 1 + Cardinality(wlist)
  ELSE Cardinality(wlist)

Left ==
  IF wpc = "sleep" THEN Check - wclock + Full ELSE CallsLeft * CallMax - wclock

Budget == (1 + faults + lateBuys) * Round

\* Nobody sleeps or calls for longer than allowed, and an empty list is no call.
ClockOK ==
  /\ wclock <= IF wpc = "sleep" THEN Check ELSE CallMax
  /\ wpc = "close" /\ wlist = {} => wclock = 0

Pulse ==
  /\ exec = "up" => beatAge \in 0..(Beat + Jitter)
  /\ beatAge <= outage + Beat + Jitter

InFlight == wpc # "sleep" /\ beatAge <= MaxAge => beatAge + Left <= Full

Planned ==
  exec = "down" /\ beatAge > MaxAge =>
    /\ wpc \in {"sleep", "positions"} /\ held # {} => exposed + Left <= Budget
    /\ wpc \in {"cancel", "close"} =>
         exposed + Left + (IF held \subseteq wlist THEN 0 ELSE Round) <= Budget

Inv ==
  /\ TypeOK /\ ClockOK /\ Pulse /\ InFlight /\ Planned
  /\ FlattenedInTime

-----------------------------------------------------------------------------
(* Arithmetic of the bounds *)

LEMMA ConstantTypes ==
  /\ Cardinality(Symbols) \in Nat
  /\ Full \in Nat /\ Full <= MaxAge
  /\ Round \in Nat /\ Round = Check + Full
<1>1. Cardinality(Symbols) \in Nat
  BY SymbolsAssumption, FS_CardinalityType
<1>2. Check \in Nat /\ CallMax \in Nat /\ MaxAge \in Nat
  BY TimesAssumption
<1>3. Full \in Nat
  BY <1>1, <1>2 DEF Full
<1> QED
  BY <1>1, <1>2, <1>3, CallsAssumption DEF Round, Full

LEMMA Distribute ==
  ASSUME NEW m \in Int, NEW n \in Int, NEW c \in Int
  PROVE  (m + n) * c = m * c + n * c
OBVIOUS

LEMMA Monotone ==
  ASSUME NEW m \in Nat, NEW n \in Nat, NEW c \in Nat, m <= n
  PROVE  m * c \in Nat /\ m * c <= n * c
<1>1. PICK d \in Nat : n = m + d
  <2>1. n - m \in Nat /\ n = m + (n - m)
    OBVIOUS
  <2> QED
    BY <2>1
<1>2. n * c = m * c + d * c
  BY <1>1, Distribute
<1>3. d * c \in Nat /\ m * c \in Nat
  OBVIOUS
<1> QED
  BY <1>2, <1>3

\* The lists a check works off are finite.
LEMMA ListSize ==
  ASSUME TypeOK
  PROVE  /\ Cardinality(wlist) \in Nat /\ Cardinality(wlist) <= Cardinality(Symbols)
         /\ wlist = {} <=> Cardinality(wlist) = 0
         /\ Cardinality(held) \in Nat /\ Cardinality(held) <= Cardinality(Symbols)
         /\ \A s \in wlist : Cardinality(wlist \ {s}) = Cardinality(wlist) - 1
<1>1. wlist \in SUBSET Symbols /\ held \in SUBSET Symbols
  BY DEF TypeOK
<1>2. IsFiniteSet(wlist) /\ IsFiniteSet(held)
  BY <1>1, SymbolsAssumption, FS_Subset
<1>3. Cardinality(wlist) <= Cardinality(Symbols) /\ Cardinality(held) <= Cardinality(Symbols)
  BY <1>1, SymbolsAssumption, FS_Subset
<1>4. Cardinality(wlist) \in Nat /\ Cardinality(held) \in Nat
  BY <1>2, FS_CardinalityType
<1>5. wlist = {} <=> Cardinality(wlist) = 0
  BY <1>2, FS_EmptySet
<1>6. \A s \in wlist : Cardinality(wlist \ {s}) = Cardinality(wlist) - 1
  BY <1>2, FS_RemoveElement
<1> QED
  BY <1>3, <1>4, <1>5, <1>6

LEMMA LeftBounds ==
  ASSUME TypeOK, ClockOK
  PROVE  /\ Left \in Nat /\ Left <= Round
         /\ wpc # "sleep" => Left <= Full
         /\ wclock \in Nat
<1> USE ConstantTypes, TimesAssumption, ListSize
<1>0. wclock \in Nat /\ wpc \in WatchdogStates /\ CallMax \in Nat /\ Check \in Nat
  BY DEF TypeOK
<1>1. CASE wpc = "sleep"
  BY <1>0, <1>1 DEF Left, ClockOK
<1>2. CASE wpc # "sleep"
  <2>1. CallsLeft \in Nat /\ CallsLeft <= 2 + Cardinality(Symbols)
    BY DEF CallsLeft
  <2>2. CallsLeft * CallMax \in Nat /\ CallsLeft * CallMax <= Full
    BY <1>0, <2>1, Monotone DEF Full
  <2>3. wclock <= CallsLeft * CallMax
    <3>1. CASE wpc = "close" /\ wlist = {}
      BY <1>0, <2>2, <3>1 DEF ClockOK
    <3>2. CASE ~(wpc = "close" /\ wlist = {})
      <4>1. CallsLeft >= 1
        BY <1>0, <1>2, <3>2 DEF CallsLeft, WatchdogStates
      <4>2. 1 * CallMax <= CallsLeft * CallMax
        BY <1>0, <2>1, <4>1, Monotone
      <4> QED
        BY <1>0, <1>2, <4>2, <2>2 DEF ClockOK
    <3> QED
      BY <3>1, <3>2
  <2> QED
    BY <1>0, <1>2, <2>2, <2>3 DEF Left
<1> QED
  BY <1>1, <1>2

LEMMA LeftNat == TypeOK /\ ClockOK => Left \in Nat
BY LeftBounds

LEMMA BudgetType ==
  ASSUME TypeOK
  PROVE  Budget \in Nat /\ Round <= Budget
<1>1. faults \in Nat /\ lateBuys \in Nat
  BY BoundsAssumption DEF TypeOK
<1>2. 1 * Round <= (1 + faults + lateBuys) * Round /\ (1 + faults + lateBuys) * Round \in Nat
  BY <1>1, ConstantTypes, Monotone
<1> QED
  BY <1>2, ConstantTypes DEF Budget

\* A failure or a late buy pays for a round.
LEMMA BudgetGrows ==
  ASSUME TypeOK,
         \/ faults' = faults + 1 /\ lateBuys' = lateBuys
         \/ faults' = faults /\ lateBuys' = lateBuys + 1
  PROVE  Budget' = Budget + Round
<1>1. faults \in Nat /\ lateBuys \in Nat
  BY BoundsAssumption DEF TypeOK
<1>2. 1 + faults' + lateBuys' = (1 + faults + lateBuys) + 1
  BY <1>1
<1>3. ((1 + faults + lateBuys) + 1) * Round = (1 + faults + lateBuys) * Round + 1 * Round
  BY <1>1, ConstantTypes, Distribute
<1>4. Round' = Round
  BY DEF Round
<1> QED
  BY <1>2, <1>3, <1>4, ConstantTypes DEF Budget

LEMMA BudgetStays ==
  ASSUME UNCHANGED <<faults, lateBuys>>
  PROVE  Budget' = Budget
BY DEF Budget, Round

LEMMA LeftStays ==
  ASSUME UNCHANGED <<wpc, wclock, wlist>>
  PROVE  Left' = Left
BY DEF Left, CallsLeft, Full

-----------------------------------------------------------------------------
(* Types, clocks and the age of the heartbeat *)

LEMMA TypeStep == TypeOK /\ ClockOK /\ [Next]_vars => TypeOK'
<1> SUFFICES ASSUME TypeOK, ClockOK, [Next]_vars PROVE TypeOK'
  OBVIOUS
<1> USE TimesAssumption, BoundsAssumption DEF TypeOK, NoBeat
<1>1. CASE Tick
  BY <1>1 DEF Tick, Older, account
<1>2. CASE ExecutorNext
  BY <1>2 DEF ExecutorNext, ExecutorStarts, Heartbeat, ExecutorDies, account, watchdog, counters
<1>3. CASE AccountNext
  <2> PICK s \in Symbols : BuyRests(s) \/ BuyFills(s) \/ OtherSells(s)
    BY <1>3 DEF AccountNext
  <2>1. CASE BuyRests(s)
    BY <2>1 DEF BuyRests, executor, watchdog, counters
  <2>2. CASE BuyFills(s)
    BY <2>2 DEF BuyFills, executor, watchdog
  <2>3. CASE OtherSells(s)
    BY <2>3 DEF OtherSells, executor, watchdog, counters
  <2> QED
    BY <2>1, <2>2, <2>3
<1>4. CASE WatchdogStep
  <2>1. CASE CheckHeartbeat
    BY <2>1 DEF CheckHeartbeat, Goto, WatchdogStates, executor, account, counters
  <2>2. CASE GetPositions
    BY <2>2 DEF GetPositions, Goto, WatchdogStates, executor, account, counters
  <2>3. CASE CancelAll
    BY <2>3 DEF CancelAll, Goto, WatchdogStates, executor, counters
  <2>4. CASE CheckEnds
    BY <2>4 DEF CheckEnds, Goto, WatchdogStates, executor, account, counters
  <2>5. ASSUME NEW s \in Symbols, ClosePosition(s) PROVE TypeOK'
    BY <2>5 DEF ClosePosition, Goto, WatchdogStates, executor, counters
  <2> QED
    BY <1>4, <2>1, <2>2, <2>3, <2>4, <2>5 DEF WatchdogStep
<1>5. CASE WatchdogFault
  <2>1. CASE GetPositionsFails
    BY <2>1 DEF GetPositionsFails, Fault, Goto, WatchdogStates, executor, account
  <2>2. CASE CancelAllFails
    BY <2>2 DEF CancelAllFails, Fault, Goto, WatchdogStates, executor, account
  <2>3. CASE WatchdogDies
    BY <2>3 DEF WatchdogDies, Fault, Goto, WatchdogStates, executor, account
  <2>4. ASSUME NEW s \in Symbols, CloseFails(s) PROVE TypeOK'
    BY <2>4 DEF CloseFails, Fault, Goto, WatchdogStates, executor, account
  <2> QED
    BY <1>5, <2>1, <2>2, <2>3, <2>4 DEF WatchdogFault
<1>6. CASE UNCHANGED vars
  BY <1>6 DEF vars, executor, account, watchdog, counters
<1> QED
  BY <1>1, <1>2, <1>3, <1>4, <1>5, <1>6 DEF Next

LEMMA ClockStep == TypeOK /\ ClockOK /\ [Next]_vars => ClockOK'
<1> SUFFICES ASSUME TypeOK, ClockOK, [Next]_vars PROVE ClockOK'
  OBVIOUS
<1>0. Check \in Nat /\ CallMax \in Nat /\ wclock \in Nat
  BY TimesAssumption DEF TypeOK
<1> USE <1>0 DEF ClockOK
<1>1. CASE Tick
  BY <1>1 DEF Tick
<1>2. CASE ExecutorNext
  BY <1>2 DEF ExecutorNext, ExecutorStarts, Heartbeat, ExecutorDies, watchdog
<1>3. CASE AccountNext
  BY <1>3 DEF AccountNext, BuyRests, BuyFills, OtherSells, watchdog
<1>4. CASE WatchdogStep
  BY <1>4 DEF WatchdogStep, CheckHeartbeat, GetPositions, CancelAll, CheckEnds, ClosePosition, Goto
<1>5. CASE WatchdogFault
  BY <1>5 DEF WatchdogFault, GetPositionsFails, CancelAllFails, WatchdogDies, CloseFails, Goto
<1>6. CASE UNCHANGED vars
  BY <1>6 DEF vars, watchdog
<1> QED
  BY <1>1, <1>2, <1>3, <1>4, <1>5, <1>6 DEF Next

LEMMA PulseStep == TypeOK /\ Pulse /\ [Next]_vars => Pulse'
<1> SUFFICES ASSUME TypeOK, Pulse, [Next]_vars PROVE Pulse'
  OBVIOUS
<1>0. /\ Beat \in Nat /\ Jitter \in Nat /\ Horizon \in Nat /\ Beat + Jitter < Horizon
      /\ beatAge \in Int /\ beatAge <= Horizon /\ outage \in 0..Horizon
      /\ beatAge = NoBeat \/ beatAge >= 0
  BY TimesAssumption DEF TypeOK, NoBeat
<1> USE <1>0 DEF Pulse, NoBeat
<1>1. CASE Tick
  BY <1>1 DEF Tick, Older
<1>2. CASE ExecutorStarts
  BY <1>2 DEF ExecutorStarts
<1>3. CASE Heartbeat
  BY <1>3 DEF Heartbeat
<1>4. CASE ExecutorDies
  BY <1>4 DEF ExecutorDies
<1>5. CASE AccountNext
  BY <1>5 DEF AccountNext, BuyRests, BuyFills, OtherSells, executor
<1>6. CASE WatchdogStep
  BY <1>6 DEF WatchdogStep, CheckHeartbeat, GetPositions, CancelAll, CheckEnds, ClosePosition, executor
<1>7. CASE WatchdogFault
  BY <1>7 DEF WatchdogFault, GetPositionsFails, CancelAllFails, WatchdogDies, CloseFails, executor
<1>8. CASE UNCHANGED vars
  BY <1>8 DEF vars, executor
<1> QED
  BY <1>1, <1>2, <1>3, <1>4, <1>5, <1>6, <1>7, <1>8 DEF Next, ExecutorNext

-----------------------------------------------------------------------------
(* The bound on exposure *)

Bound == InFlight /\ Planned /\ FlattenedInTime

\* A tick takes one off what is left, and adds at most one to the exposure.
LEMMA TickBound == Inv /\ Tick => Bound'
<1> SUFFICES ASSUME Inv, Tick PROVE Bound'
  OBVIOUS
<1>1. /\ Left \in Nat /\ Left <= Round /\ (wpc # "sleep" => Left <= Full)
      /\ wclock \in Nat
  BY LeftBounds DEF Inv
<1>2. Left' = Left - 1
  <2>1. CallsLeft' = CallsLeft
    BY DEF Tick, CallsLeft
  <2>2. CASE wpc = "sleep"
    BY <2>2, <1>1, ConstantTypes, TimesAssumption DEF Tick, Left, Full
  <2>3. CASE wpc # "sleep"
    <3>1. CallsLeft \in Nat /\ CallsLeft * CallMax \in Int
      BY ListSize, ConstantTypes, TimesAssumption, Monotone DEF Inv, CallsLeft
    <3> QED
      BY <2>1, <2>3, <3>1, <1>1 DEF Tick, Left
  <2> QED
    BY <2>2, <2>3
<1>3. Left >= 1
  <2>1. Left' \in Nat
    <3>1. TypeOK' /\ ClockOK'
      BY TypeStep, ClockStep DEF Inv, Next
    <3>2. (TypeOK /\ ClockOK)' => (Left \in Nat)'
      BY LeftNat, PTL
    <3> QED
      BY <3>1, <3>2
  <2> QED
    BY <1>1, <1>2, <2>1
<1>4. Budget' = Budget /\ Budget \in Nat /\ Round <= Budget
  BY BudgetStays, BudgetType DEF Inv, Tick
<1>5. /\ beatAge \in Int /\ exposed \in Nat /\ exposed <= Horizon /\ beatAge <= Horizon
      /\ Horizon \in Nat /\ MaxAge \in Nat /\ MaxAge < Horizon
  BY TimesAssumption DEF Inv, TypeOK, NoBeat
<1>6. InFlight'
  BY <1>1, <1>2, <1>3, <1>5, ConstantTypes DEF Inv, InFlight, Tick, Older, Full
<1>7. Planned'
  <2> SUFFICES ASSUME exec' = "down", beatAge' > MaxAge PROVE Planned'
    BY DEF Planned
  <2>1. CASE beatAge > MaxAge
    BY <2>1, <1>1, <1>2, <1>3, <1>4, <1>5, ConstantTypes
    DEF Inv, Planned, Tick, Older, account, Round
  <2>2. CASE ~(beatAge > MaxAge)
    \* The heartbeat goes stale with this tick: no check is under way.
    <3>1. wpc = "sleep"
      BY <2>2, <1>1, <1>3, <1>5, ConstantTypes DEF Inv, InFlight, Tick, Older
    <3>2. exposed' = 0 /\ wpc' = "sleep"
      BY <2>2, <3>1, <1>5 DEF Tick
    <3> QED
      BY <3>2, <1>1, <1>2, <1>4, ConstantTypes DEF Planned
  <2> QED
    BY <2>1, <2>2
<1>8. FlattenedInTime'
  <2>1. exposed' <= Budget
    <3>1. CASE exec = "down" /\ beatAge > MaxAge /\ held # {}
      <4>1. exposed + Left <= Budget
        BY <3>1, <1>1, <1>4, <1>5, ConstantTypes DEF Inv, Planned, TypeOK, WatchdogStates
      <4> QED
        BY <3>1, <4>1, <1>1, <1>3, <1>4, <1>5 DEF Tick, Older
    <3>2. CASE ~(exec = "down" /\ beatAge > MaxAge /\ held # {})
      BY <3>2, <1>4 DEF Tick
    <3> QED
      BY <3>1, <3>2
  <2> QED
    BY <2>1, <1>4 DEF FlattenedInTime, Budget
<1> QED
  BY <1>6, <1>7, <1>8 DEF Bound

\* The executor's own steps end an outage or happen outside one.
LEMMA ExecutorBound == Inv /\ ExecutorNext => Bound'
<1> SUFFICES ASSUME Inv, ExecutorNext PROVE Bound'
  OBVIOUS
<1>1. UNCHANGED <<account, watchdog, counters>>
  BY DEF ExecutorNext, ExecutorStarts, Heartbeat, ExecutorDies
<1>2. Left' = Left /\ Budget' = Budget
  BY <1>1, LeftStays, BudgetStays DEF watchdog, counters
<1>3. FlattenedInTime'
  BY <1>1, <1>2 DEF Inv, FlattenedInTime, Budget, counters
<1>4. /\ Left \in Nat /\ (wpc # "sleep" => Left <= Full)
  BY LeftBounds DEF Inv
<1>5. exec' = "down" => beatAge' <= MaxAge
  BY TimesAssumption DEF ExecutorNext, ExecutorStarts, Heartbeat, ExecutorDies, Inv, Pulse
<1>6. Planned'
  <2>1. beatAge' \in Int /\ MaxAge \in Int
    BY TimesAssumption DEF ExecutorNext, ExecutorStarts, Heartbeat, ExecutorDies, Inv, TypeOK, NoBeat
  <2> QED
    BY <1>5, <2>1 DEF Planned
<1>7. InFlight'
  <2>1. beatAge' = beatAge \/ beatAge' = 0
    BY DEF ExecutorNext, ExecutorStarts, Heartbeat, ExecutorDies
  <2>2. Full' = Full /\ Full \in Nat
    BY ConstantTypes DEF Full
  <2> QED
    BY <2>1, <2>2, <1>1, <1>2, <1>4 DEF Inv, InFlight, watchdog
<1> QED
  BY <1>3, <1>6, <1>7 DEF Bound

\* A buy on the account of a dead executor pays for a round of its own.
LEMMA AccountBound == Inv /\ AccountNext => Bound'
<1> SUFFICES ASSUME Inv, AccountNext PROVE Bound'
  OBVIOUS
<1>1. UNCHANGED <<executor, watchdog, faults, exposed>>
  BY DEF AccountNext, BuyRests, BuyFills, OtherSells, counters
<1>2. Left' = Left
  BY <1>1, LeftStays DEF watchdog
<1>3. Left \in Nat /\ Left <= Round /\ Budget \in Nat /\ Round \in Nat
  BY LeftBounds, BudgetType, ConstantTypes DEF Inv
<1>4. exposed \in Nat /\ exposed <= Budget
  BY DEF Inv, TypeOK, FlattenedInTime, Budget
<1>5. Round' = Round /\ Full' = Full
  BY DEF Round, Full
<1>6. InFlight'
  BY <1>1, <1>2, <1>5 DEF Inv, InFlight, executor, watchdog
<1>7. CASE exec = "down" /\ \E s \in Symbols : BuyFills(s)
  <2>1. Budget' = Budget + Round
    BY <1>7, BudgetGrows DEF Inv, BuyFills
  <2>2. FlattenedInTime'
    BY <2>1, <1>1, <1>3, <1>4 DEF FlattenedInTime, Budget
  <2>3. Planned'
    BY <2>1, <1>1, <1>2, <1>3, <1>4, <1>5 DEF Inv, Planned, executor, watchdog
  <2> QED
    BY <2>2, <2>3, <1>6 DEF Bound
<1>8. CASE exec = "up" /\ \E s \in Symbols : BuyFills(s)
  <2>1. Budget' = Budget
    BY <1>8, BudgetStays DEF BuyFills
  <2>2. FlattenedInTime'
    BY <2>1, <1>1, <1>4 DEF FlattenedInTime, Budget
  <2>3. Planned'
    BY <1>8, <1>1 DEF Planned, executor
  <2> QED
    BY <2>2, <2>3, <1>6 DEF Bound
<1>9. CASE \E s \in Symbols : BuyRests(s) \/ OtherSells(s)
  <2>1. held' \subseteq held /\ Budget' = Budget
    BY <1>9, BudgetStays DEF BuyRests, OtherSells, counters
  <2>2. FlattenedInTime'
    BY <2>1, <1>1, <1>4 DEF FlattenedInTime, Budget
  <2>3. Planned'
    BY <2>1, <1>1, <1>2, <1>3, <1>4, <1>5 DEF Inv, Planned, executor, watchdog
  <2> QED
    BY <2>2, <2>3, <1>6 DEF Bound
<1> QED
  BY <1>7, <1>8, <1>9 DEF AccountNext, Inv, TypeOK

-----------------------------------------------------------------------------
(* From one call of a check to the next, what is left does not grow *)

LEMMA FirstCall ==
  ASSUME TypeOK, ClockOK, wpc = "positions", wpc' = "cancel", wlist' = held, wclock' = 0
  PROVE  \E n \in Int : Left' = n /\ n <= Left
<1>0. /\ CallMax \in Nat /\ wclock \in Nat /\ wclock <= CallMax /\ Cardinality(Symbols) \in Nat
      /\ Cardinality(held) \in Nat /\ Cardinality(held) <= Cardinality(Symbols)
  BY TimesAssumption, ConstantTypes, ListSize DEF ClockOK, TypeOK
<1>1. Left = (2 + Cardinality(Symbols)) * CallMax - wclock
  BY DEF Left, CallsLeft
<1>2. Left' = (1 + Cardinality(held)) * CallMax - 0
  BY DEF Left, CallsLeft
<1>3. (2 + Cardinality(Symbols)) * CallMax = (1 + Cardinality(Symbols)) * CallMax + CallMax
  BY <1>0, Distribute
<1>4. /\ (1 + Cardinality(held)) * CallMax \in Nat
      /\ (1 + Cardinality(held)) * CallMax <= (1 + Cardinality(Symbols)) * CallMax
  BY <1>0, Monotone
<1>5. (1 + Cardinality(Symbols)) * CallMax \in Nat
  BY <1>0, Monotone
<1> QED
  BY <1>0, <1>1, <1>2, <1>3, <1>4, <1>5

LEMMA NextCall ==
  ASSUME TypeOK, ClockOK, wpc = "cancel", wpc' = "close", wlist' = wlist, wclock' = 0
  PROVE  \E n \in Int : Left' = n /\ n <= Left
<1>0. /\ CallMax \in Nat /\ wclock \in Nat /\ wclock <= CallMax /\ Cardinality(wlist) \in Nat
  BY TimesAssumption, ListSize DEF ClockOK, TypeOK
<1>1. Left = (1 + Cardinality(wlist)) * CallMax - wclock
  BY DEF Left, CallsLeft
<1>2. Left' = Cardinality(wlist) * CallMax - 0
  BY DEF Left, CallsLeft
<1>3. (1 + Cardinality(wlist)) * CallMax = 1 * CallMax + Cardinality(wlist) * CallMax
  BY <1>0, Distribute
<1>4. Cardinality(wlist) * CallMax \in Nat
  BY <1>0, Monotone
<1> QED
  BY <1>0, <1>1, <1>2, <1>3, <1>4

LEMMA NextClose ==
  ASSUME TypeOK, ClockOK, NEW s \in wlist,
         wpc = "close", wpc' = "close", wlist' = wlist \ {s}, wclock' = 0
  PROVE  \E n \in Int : Left' = n /\ n <= Left
<1>0. /\ CallMax \in Nat /\ wclock \in Nat /\ wclock <= CallMax
      /\ Cardinality(wlist) \in Nat /\ Cardinality(wlist \ {s}) = Cardinality(wlist) - 1
      /\ Cardinality(wlist) # 0
  BY TimesAssumption, ListSize DEF ClockOK, TypeOK
<1>1. Left = Cardinality(wlist) * CallMax - wclock
  BY DEF Left, CallsLeft
<1>2. Left' = Cardinality(wlist \ {s}) * CallMax - 0
  BY DEF Left, CallsLeft
<1>3. Cardinality(wlist) = Cardinality(wlist \ {s}) + 1 /\ Cardinality(wlist \ {s}) \in Nat
  BY <1>0
<1>4. Cardinality(wlist) * CallMax = Cardinality(wlist \ {s}) * CallMax + 1 * CallMax
  BY <1>0, <1>3, Distribute
<1>5. Cardinality(wlist \ {s}) * CallMax \in Nat
  BY <1>0, <1>3, Monotone
<1> QED
  BY <1>0, <1>1, <1>2, <1>4, <1>5

\* Going to sleep after an extra round was paid for leaves time for that round.
LEMMA WatchdogFaultBound == Inv /\ WatchdogFault => Bound'
<1> SUFFICES ASSUME Inv, WatchdogFault PROVE Bound'
  OBVIOUS
<1>1. UNCHANGED <<executor, held, exposed, lateBuys>> /\ faults' = faults + 1
  BY DEF WatchdogFault, GetPositionsFails, CancelAllFails, CloseFails, WatchdogDies, Fault, account
<1>2. Budget' = Budget + Round
  BY <1>1, BudgetGrows DEF Inv
<1>3. /\ Left \in Nat /\ Left <= Round /\ (wpc # "sleep" => Left <= Full)
      /\ Budget \in Nat /\ Round \in Nat /\ Full \in Nat /\ Round = Check + Full
      /\ wclock \in Nat /\ Check \in Nat /\ CallMax \in Nat
  BY LeftBounds, BudgetType, ConstantTypes, TimesAssumption DEF Inv
<1>4. exposed \in Nat /\ exposed <= Budget /\ beatAge \in Int
  BY DEF Inv, TypeOK, FlattenedInTime, Budget, NoBeat
<1>5. Round' = Round /\ Full' = Full
  BY DEF Round, Full
<1>6. FlattenedInTime'
  BY <1>1, <1>2, <1>3, <1>4 DEF FlattenedInTime, Budget
<1>7. CASE GetPositionsFails \/ WatchdogDies
  <2>1. wpc' = "sleep" /\ wclock' = 0
    BY <1>7 DEF GetPositionsFails, WatchdogDies, Goto
  <2>2. Left' = Round
    BY <2>1, <1>3, <1>5 DEF Left
  <2>3. Planned'
    BY <2>1, <2>2, <1>1, <1>2, <1>3, <1>4 DEF Planned, executor
  <2>4. InFlight'
    BY <2>1 DEF InFlight
  <2> QED
    BY <2>3, <2>4, <1>6 DEF Bound
<1>8. CASE CancelAllFails
  <2>1. wpc = "cancel" /\ wpc' = "close" /\ wclock' = 0 /\ wlist' = wlist
    BY <1>8 DEF CancelAllFails, Goto
  <2>2. PICK n \in Int : Left' = n /\ n <= Left
    BY <2>1, NextCall DEF Inv
  <2>3. Planned'
    BY <2>1, <2>2, <1>1, <1>2, <1>3, <1>4, <1>5 DEF Inv, Planned, executor
  <2>4. InFlight'
    BY <2>1, <2>2, <1>1, <1>3, <1>4, <1>5 DEF Inv, InFlight, executor
  <2> QED
    BY <2>3, <2>4, <1>6 DEF Bound
<1>9. CASE \E s \in Symbols : CloseFails(s)
  <2> PICK s \in Symbols : CloseFails(s)
    BY <1>9
  <2>1. wpc = "close" /\ s \in wlist /\ wpc' = "close" /\ wclock' = 0 /\ wlist' = wlist \ {s}
    BY DEF CloseFails, Goto
  <2>2. PICK n \in Int : Left' = n /\ n <= Left
    BY <2>1, NextClose DEF Inv
  <2>3. Planned'
    BY <2>1, <2>2, <1>1, <1>2, <1>3, <1>4, <1>5 DEF Inv, Planned, executor
  <2>4. InFlight'
    BY <2>1, <2>2, <1>1, <1>3, <1>4, <1>5 DEF Inv, InFlight, executor
  <2> QED
    BY <2>3, <2>4, <1>6 DEF Bound
<1> QED
  BY <1>7, <1>8, <1>9 DEF WatchdogFault

\* A check hands what is left on from call to call.
LEMMA WatchdogBound == Inv /\ WatchdogStep => Bound'
<1> SUFFICES ASSUME Inv, WatchdogStep PROVE Bound'
  OBVIOUS
<1>1. UNCHANGED <<executor, counters>> /\ Budget' = Budget
  BY BudgetStays
  DEF WatchdogStep, CheckHeartbeat, GetPositions, CancelAll, ClosePosition, CheckEnds, counters
<1>3. /\ Left \in Nat /\ Left <= Round /\ (wpc # "sleep" => Left <= Full)
      /\ Budget \in Nat /\ Round \in Nat /\ Full \in Nat /\ Round = Check + Full
      /\ wclock \in Nat /\ Check \in Nat /\ CallMax \in Nat /\ MaxAge \in Nat
  BY LeftBounds, BudgetType, ConstantTypes, TimesAssumption DEF Inv
<1>4. exposed \in Nat /\ exposed <= Budget /\ beatAge \in Int
  BY DEF Inv, TypeOK, FlattenedInTime, Budget, NoBeat
<1>5. Round' = Round /\ Full' = Full
  BY DEF Round, Full
<1>6. FlattenedInTime'
  BY <1>1, <1>4 DEF FlattenedInTime, Budget, counters
<1> USE DEF counters
<1>7. CASE CheckHeartbeat
  <2>1. wpc = "sleep" /\ wclock = Check /\ wclock' = 0 /\ UNCHANGED account
    BY <1>7 DEF CheckHeartbeat, Goto
  <2>2. CASE Stale
    <3>1. wpc' = "positions" /\ beatAge > MaxAge
      BY <1>7, <2>2 DEF CheckHeartbeat, Goto, Stale
    <3>2. Left = Full /\ Left' = Full
      BY <2>1, <3>1, <1>3, <1>5, ConstantTypes, TimesAssumption DEF Left, CallsLeft, Full
    <3>3. Planned'
      BY <2>1, <3>1, <3>2, <1>1, <1>3, <1>4 DEF Inv, Planned, executor, account
    <3>4. InFlight'
      BY <3>1, <1>1, <1>3, <1>4 DEF InFlight, executor
    <3> QED
      BY <3>3, <3>4, <1>6 DEF Bound
  <2>3. CASE ~Stale
    <3>1. wpc' = "sleep" /\ ~(beatAge > MaxAge)
      BY <1>7, <2>3, TimesAssumption DEF CheckHeartbeat, Goto, Stale, NoBeat
    <3>2. Planned' /\ InFlight'
      BY <3>1, <1>1 DEF Planned, InFlight, executor
    <3> QED
      BY <3>2, <1>6 DEF Bound
  <2> QED
    BY <2>2, <2>3
<1>8. CASE GetPositions
  <2>1. wpc = "positions" /\ wlist' = held /\ wclock' = 0 /\ UNCHANGED account
    BY <1>8 DEF GetPositions, Goto
  <2>2. CASE held = {}
    <3>1. wpc' = "sleep" /\ held' = {}
      BY <1>8, <2>1, <2>2 DEF GetPositions, Goto, account
    <3>2. Planned' /\ InFlight'
      BY <3>1 DEF Planned, InFlight
    <3> QED
      BY <3>2, <1>6 DEF Bound
  <2>3. CASE held # {}
    <3>1. wpc' = "cancel"
      BY <1>8, <2>3 DEF GetPositions, Goto
    <3>2. PICK n \in Int : Left' = n /\ n <= Left
      BY <2>1, <3>1, FirstCall DEF Inv
    <3>3. Planned'
      BY <2>1, <2>3, <3>1, <3>2, <1>1, <1>3, <1>4, <1>5 DEF Inv, Planned, executor, account
    <3>4. InFlight'
      BY <2>1, <3>1, <3>2, <1>1, <1>3, <1>4, <1>5 DEF Inv, InFlight, executor
    <3> QED
      BY <3>3, <3>4, <1>6 DEF Bound
  <2> QED
    BY <2>2, <2>3
<1>9. CASE CancelAll
  <2>1. wpc = "cancel" /\ wpc' = "close" /\ wclock' = 0 /\ UNCHANGED <<wlist, held>>
    BY <1>9 DEF CancelAll, Goto
  <2>2. PICK n \in Int : Left' = n /\ n <= Left
    BY <2>1, NextCall DEF Inv
  <2>3. Planned'
    BY <2>1, <2>2, <1>1, <1>3, <1>4, <1>5 DEF Inv, Planned, executor
  <2>4. InFlight'
    BY <2>1, <2>2, <1>1, <1>3, <1>4, <1>5 DEF Inv, InFlight, executor
  <2> QED
    BY <2>3, <2>4, <1>6 DEF Bound
<1>10. CASE \E s \in Symbols : ClosePosition(s)
  <2> PICK s \in Symbols : ClosePosition(s)
    BY <1>10
  <2>1. /\ wpc = "close" /\ s \in wlist /\ wpc' = "close" /\ wclock' = 0
        /\ wlist' = wlist \ {s} /\ held' = held \ {s}
    BY DEF ClosePosition, Goto
  <2>2. PICK n \in Int : Left' = n /\ n <= Left
    BY <2>1, NextClose DEF Inv
  <2>3. held \subseteq wlist => held' \subseteq wlist'
    BY <2>1
  <2>4. Planned'
    BY <2>1, <2>2, <2>3, <1>1, <1>3, <1>4, <1>5 DEF Inv, Planned, executor
  <2>5. InFlight'
    BY <2>1, <2>2, <1>1, <1>3, <1>4, <1>5 DEF Inv, InFlight, executor
  <2> QED
    BY <2>4, <2>5, <1>6 DEF Bound
<1>11. CASE CheckEnds
  <2>1. wpc = "close" /\ wlist = {} /\ wpc' = "sleep" /\ wclock' = 0 /\ UNCHANGED account
    BY <1>11 DEF CheckEnds, Goto
  <2>2. Left' = Round
    BY <2>1, <1>3, <1>5 DEF Left
  <2>3. held # {} => ~(held \subseteq wlist)
    BY <2>1
  <2>4. Planned'
    BY <2>1, <2>2, <2>3, <1>1, <1>3, <1>4, <1>5 DEF Inv, Planned, executor, account
  <2>5. InFlight'
    BY <2>1 DEF InFlight
  <2> QED
    BY <2>4, <2>5, <1>6 DEF Bound
<1> QED
  BY <1>7, <1>8, <1>9, <1>10, <1>11 DEF WatchdogStep

-----------------------------------------------------------------------------
(* The theorems *)

LEMMA InvInit == Init => Inv
<1> SUFFICES ASSUME Init PROVE Inv
  OBVIOUS
<1>0. /\ Beat \in Nat /\ Jitter \in Nat /\ Check \in Nat /\ CallMax \in Nat
      /\ MaxAge \in Nat /\ Horizon \in Nat /\ MaxFaults \in Nat /\ MaxBuys \in Nat
  BY TimesAssumption, BoundsAssumption
<1>1. TypeOK
  BY <1>0 DEF Init, TypeOK, NoBeat, WatchdogStates
<1>2. ClockOK
  BY <1>0 DEF Init, ClockOK
<1>3. Pulse
  BY <1>0 DEF Init, Pulse, NoBeat
<1>4. InFlight
  BY DEF Init, InFlight
<1>5. Planned
  BY <1>0 DEF Init, Planned, NoBeat
<1>6. FlattenedInTime
  <2>1. Budget \in Nat
    BY <1>1, BudgetType
  <2> QED
    BY <2>1 DEF Init, FlattenedInTime, Budget
<1> QED
  BY <1>1, <1>2, <1>3, <1>4, <1>5, <1>6 DEF Inv

LEMMA StutterBound == Inv /\ UNCHANGED vars => Bound'
<1> SUFFICES ASSUME Inv, UNCHANGED vars PROVE Bound'
  OBVIOUS
<1>1. UNCHANGED <<exec, beatAge, held, wpc, wclock, wlist, faults, lateBuys, exposed>>
  BY DEF vars, executor, account, watchdog, counters
<1>2. Left' = Left /\ Budget' = Budget /\ Full' = Full /\ Round' = Round
  BY <1>1, LeftStays, BudgetStays DEF Full, Round
<1>3. FlattenedInTime'
  BY <1>1, <1>2 DEF Inv, FlattenedInTime
<1>4. InFlight'
  BY <1>1, <1>2 DEF Inv, InFlight
<1>5. Planned'
  BY <1>1, <1>2 DEF Inv, Planned
<1> QED
  BY <1>3, <1>4, <1>5 DEF Bound

LEMMA Invariance == Spec => []Inv
<1>1. Inv /\ [Next]_vars => Inv'
  <2> SUFFICES ASSUME Inv, [Next]_vars PROVE Inv'
    OBVIOUS
  <2>1. TypeOK' /\ ClockOK' /\ Pulse'
    BY TypeStep, ClockStep, PulseStep DEF Inv
  <2>2. Bound'
    BY TickBound, ExecutorBound, AccountBound, WatchdogBound, WatchdogFaultBound, StutterBound
    DEF Next
  <2> QED
    BY <2>1, <2>2 DEF Inv, Bound
<1> QED
  BY <1>1, InvInit, PTL DEF Spec

\* Type correctness of every behaviour.
THEOREM TypeCorrect == Spec => []TypeOK
<1>1. Inv => TypeOK
  BY DEF Inv
<1> QED
  BY <1>1, Invariance, PTL

\* The account of a dead executor is flat within a round, plus one for each
\* failure and each late buy: for all periods, as long as a check's calls fit
\* into the heartbeat's age limit.
THEOREM FlattenedOnTime == Spec => []FlattenedInTime
<1>1. Inv => FlattenedInTime
  BY DEF Inv
<1> QED
  BY <1>1, Invariance, PTL

\* The switch starts to fire only after an outage longer than the threshold less
\* one late beat, so a shorter restart never sets it off.
THEOREM RestartsSurvive == Spec => SurvivesRestart
<1>1. Inv /\ [Next]_vars =>
        (wpc = "sleep" /\ wpc' = "positions"
           => exec = "down" /\ outage > MaxAge - (Beat + Jitter))
  <2> SUFFICES ASSUME Inv, [Next]_vars, wpc = "sleep", wpc' = "positions"
               PROVE  exec = "down" /\ outage > MaxAge - (Beat + Jitter)
    OBVIOUS
  <2>1. CheckHeartbeat
    BY DEF Next, Tick, ExecutorNext, ExecutorStarts, Heartbeat, ExecutorDies,
           AccountNext, BuyRests, BuyFills, OtherSells,
           WatchdogStep, GetPositions, CancelAll, ClosePosition, CheckEnds,
           WatchdogFault, GetPositionsFails, CancelAllFails, CloseFails, WatchdogDies,
           Goto, vars, watchdog
  <2>2. beatAge > MaxAge
    BY <2>1 DEF CheckHeartbeat, Goto, Stale
  <2>3. /\ Beat \in Nat /\ Jitter \in Nat /\ MaxAge \in Nat /\ Beat + Jitter < MaxAge
        /\ beatAge \in Int /\ outage \in Int /\ exec \in {"up", "down"}
    BY TimesAssumption DEF Inv, TypeOK, NoBeat
  <2> QED
    BY <2>2, <2>3 DEF Inv, Pulse
<1> QED
  BY <1>1, Invariance, PTL DEF Spec, SurvivesRestart
=============================================================================
