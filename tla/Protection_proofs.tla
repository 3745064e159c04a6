-------------------------- MODULE Protection_proofs --------------------------
(***************************************************************************)
(* Proofs about Protection, for every set of entries, every price range,   *)
(* every bracket width and any number of faults.                           *)
(*                                                                         *)
(* OneExitPerBracket is not inductive: nothing in it says why an exit the  *)
(* supervisor is about to send still has a bracket to its name.  The       *)
(* strengthening ExitHasBracket says it: as long as a tick carries a       *)
(* bracket it has not dealt with, or a row is there that no exit has been  *)
(* sent for, the account has one exit to spare.  The tick may carry a row  *)
(* that has since been deleted or replaced by another process, so the two  *)
(* cases are independent; only the tick itself can spend what it carries.  *)
(***************************************************************************)
EXTENDS Protection, TLAPS

ExitHasBracket ==
  spc \in Armed \/ (bracket # None /\ spc # "delete") => exits < sets + faults

Inv == TypeOK /\ OneExitPerBracket /\ ExitHasBracket

-----------------------------------------------------------------------------
(* Type correctness *)

\* What an execution at the venue leaves in the holding, the inbox and missed.
LEMMA ExecuteType ==
  ASSUME TypeOK, NEW n \in Int, NEW e \in Entries \cup {"other"}, held + n >= 0, Execute(n, e)
  PROVE  held' \in Nat /\ inbox' \in Seq(Report) /\ missed' \in BOOLEAN
<1>1. held' \in Nat
  BY DEF TypeOK, Execute
<1>2. [lots |-> n, of |-> e] \in Report
  BY DEF Report
<1>3. inbox' \in Seq(Report)
  <2>1. inbox \in Seq(Report)
    BY DEF TypeOK
  <2>2. Append(inbox, [lots |-> n, of |-> e]) \in Seq(Report)
    BY <1>2, <2>1
  <2> QED
    BY <2>1, <2>2 DEF Execute
<1>4. missed' \in BOOLEAN
  BY DEF TypeOK, Execute
<1> QED
  BY <1>1, <1>3, <1>4

\* Every step keeps the types.
LEMMA TypeStep == TypeOK /\ [Next]_vars => TypeOK'
<1> SUFFICES ASSUME TypeOK, [Next]_vars PROVE TypeOK'
  OBVIOUS
<1> USE PricesAssumption, WidthAssumption, MaxFaultsAssumption
<1>1. CASE EntryNext
  <2> PICK e \in Entries :
        LegSubmitted(e) \/ EntryEnds(e) \/ LadderReports(e) \/ SetBracket(e) \/ NoAtr(e)
    BY <1>1 DEF EntryNext
  <2>1. CASE LegSubmitted(e)
    BY <2>1 DEF TypeOK, LegSubmitted, store, venue, handler, tick, EntryStates
  <2>2. CASE EntryEnds(e)
    BY <2>2 DEF TypeOK, EntryEnds, store, venue, handler, tick, EntryStates
  <2>3. CASE LadderReports(e)
    BY <2>3 DEF TypeOK, LadderReports, store, venue, handler, tick, EntryStates
  <2>4. CASE SetBracket(e)
    BY <2>4 DEF TypeOK, SetBracket, venue, handler, tick, EntryStates
  <2>5. CASE NoAtr(e)
    BY <2>5 DEF TypeOK, NoAtr, store, venue, handler, tick, EntryStates
  <2> QED
    BY <2>1, <2>2, <2>3, <2>4, <2>5
<1>2. CASE VenueNext
  <2>1. CASE PriceMoves
    BY <2>1 DEF TypeOK, PriceMoves, store, handler, tick
  <2>2. CASE OtherSell
    <3>1. held' \in Nat /\ inbox' \in Seq(Report) /\ missed' \in BOOLEAN
      BY <2>2, ExecuteType DEF OtherSell, TypeOK
    <3> QED
      BY <2>2, <3>1 DEF TypeOK, OtherSell, store, tick
  <2>3. ASSUME NEW e \in Entries, LegFills(e) PROVE TypeOK'
    <3>1. held' \in Nat /\ inbox' \in Seq(Report) /\ missed' \in BOOLEAN
      BY <2>3, ExecuteType DEF LegFills, TypeOK
    <3> QED
      BY <2>3, <3>1 DEF TypeOK, LegFills, store, tick, EntryStates
  <2> QED
    BY <1>2, <2>1, <2>2, <2>3 DEF VenueNext
<1>3. CASE HandlerStep
  <2>1. CASE PersistFill
    <3>1. Head(inbox) \in Report
      BY <2>1 DEF PersistFill, TypeOK
    <3>2. stored' \in Int /\ seen' \subseteq Entries
      BY <2>1, <3>1 DEF PersistFill, TypeOK, Report
    <3> QED
      BY <2>1, <3>2 DEF TypeOK, PersistFill, venue, tick
  <2>2. CASE RebuildPosition
    <3>1. inbox' \in Seq(Report)
      <4>1. CASE inbox = << >>
        BY <4>1, <2>2 DEF RebuildPosition, TypeOK
      <4>2. CASE inbox # << >>
        BY <4>2, <2>2 DEF RebuildPosition, TypeOK
      <4> QED
        BY <4>1, <4>2
    <3> QED
      BY <2>2, <3>1 DEF TypeOK, RebuildPosition, venue, tick
  <2> QED
    BY <1>3, <2>1, <2>2 DEF HandlerStep
<1>4. CASE SupervisorStep
  <2>1. CASE TickStarts
    BY <2>1 DEF TypeOK, TickStarts, store, supervisorOnly, venue, handler, Goto, TickStates, Armed
  <2>2. CASE ReadPosition
    BY <2>2 DEF TypeOK, ReadPosition, store, supervisorOnly, venue, handler, Goto, TickStates, Armed
  <2>3. CASE RemoveStale
    BY <2>3 DEF TypeOK, RemoveStale, supervisorOnly, venue, handler, Goto, TickStates, Armed
  <2>4. CASE LatestTrade
    BY <2>4 DEF TypeOK, LatestTrade, store, supervisorOnly, venue, handler, Goto, TickStates, Armed
  <2>5. CASE GetOrders
    BY <2>5 DEF TypeOK, GetOrders, store, supervisorOnly, venue, handler, Goto, TickStates, Armed, Resting
  <2>6. CASE CancelsDone
    BY <2>6 DEF TypeOK, CancelsDone, store, supervisorOnly, venue, handler, Goto, TickStates, Armed
  <2>7. CASE LatestQuote
    BY <2>7 DEF TypeOK, LatestQuote, store, supervisorOnly, venue, handler, Goto, TickStates, Armed
  <2>8. CASE SubmitExit
    <3>1. held' \in Nat /\ inbox' \in Seq(Report) /\ missed' \in BOOLEAN
      <4>1. PICK n \in Int : held + n >= 0 /\ Execute(n, "other")
        BY <2>8 DEF SubmitExit, VenueTakesExit, TypeOK
      <4> QED
        BY <4>1, ExecuteType
    <3> QED
      BY <2>8, <3>1 DEF TypeOK, SubmitExit, VenueTakesExit, store, Goto, TickStates, Armed
  <2>9. CASE ExitRefused
    BY <2>9 DEF TypeOK, ExitRefused, store, supervisorOnly, venue, handler, Goto, TickStates, Armed
  <2>10. CASE DropBracket
    BY <2>10 DEF TypeOK, DropBracket, supervisorOnly, venue, handler, Goto, TickStates, Armed
  <2>11. ASSUME NEW e \in Entries, CancelLeg(e) PROVE TypeOK'
    BY <2>11 DEF TypeOK, CancelLeg, store, venue, handler, EntryStates
  <2> QED
    BY <1>4, <2>1, <2>2, <2>3, <2>4, <2>5, <2>6, <2>7, <2>8, <2>9, <2>10, <2>11
    DEF SupervisorStep
<1>5. CASE FaultNext
  <2>1. CASE EventLost
    <3>1. inbox' \in Seq(Report)
      BY <2>1 DEF EventLost, TypeOK
    <3> QED
      BY <2>1, <3>1 DEF TypeOK, EventLost, Fault, store, venue, tick
  <2>2. CASE ExitUnanswered
    <3>1. held' \in Nat /\ inbox' \in Seq(Report) /\ missed' \in BOOLEAN
      <4>1. PICK n \in Int : held + n >= 0 /\ Execute(n, "other")
        BY <2>2 DEF ExitUnanswered, VenueTakesExit, TypeOK
      <4> QED
        BY <4>1, ExecuteType
    <3> QED
      BY <2>2, <3>1 DEF TypeOK, ExitUnanswered, VenueTakesExit, Fault, store, Goto, TickStates, Armed
  <2>3. CASE TickFails
    BY <2>3 DEF TypeOK, TickFails, Fault, store, supervisorOnly, venue, handler, Goto, TickStates, Armed
  <2>4. CASE ExecutorDies
    <3>1. inbox' \in Seq(Report)
      BY <2>4 DEF ExecutorDies
    <3> QED
      BY <2>4, <3>1 DEF TypeOK, ExecutorDies, Fault, store, venue, TickStates, Armed
  <2> QED
    BY <1>5, <2>1, <2>2, <2>3, <2>4 DEF FaultNext
<1>6. CASE ExecutorStarts
  BY <1>6 DEF TypeOK, ExecutorStarts, venue, handler, tick
<1>7. CASE CloserNext
  <2>1. CASE CloserCancels
    BY <2>1 DEF TypeOK, CloserCancels, store, venue, handler, tick, EntryStates, CloserStates
  <2>2. CASE CloserCloses
    <3>1. held' \in Nat /\ inbox' \in Seq(Report) /\ missed' \in BOOLEAN
      <4>1. CASE held = 0
        BY <4>1, <2>2 DEF CloserCloses, TypeOK
      <4>2. CASE held # 0
        <5>1. -held \in Int /\ held + -held >= 0
          BY DEF TypeOK
        <5> QED
          BY <4>2, <5>1, <2>2, ExecuteType DEF CloserCloses
      <4> QED
        BY <4>1, <4>2
    <3> QED
      BY <2>2, <3>1 DEF TypeOK, CloserCloses, store, tick, CloserStates
  <2>3. CASE CloserDeletes
    BY <2>3 DEF TypeOK, CloserDeletes, venue, handler, tick, CloserStates
  <2> QED
    BY <1>7, <2>1, <2>2, <2>3 DEF CloserNext
<1>8. CASE UNCHANGED vars
  BY <1>8 DEF TypeOK, vars, store, venue, handler, tick
<1> QED
  BY <1>1, <1>2, <1>3, <1>4, <1>5, <1>6, <1>7, <1>8 DEF Next

-----------------------------------------------------------------------------
(* One exit per bracket *)

\* An exit the venue takes was sent by a tick that carried a bracket.
LEMMA ExitIsSpent ==
  ASSUME Inv, VenueTakesExit
  PROVE  exits' = exits + 1 /\ exits < sets + faults /\ spc = "submit"
BY DEF Inv, ExitHasBracket, VenueTakesExit, Armed

\* Setting a bracket adds an exit, a fault adds one, sending one takes one, and
\* any other step starts nothing that was not covered before.
LEMMA BudgetStep == Inv /\ [Next]_vars => (OneExitPerBracket /\ ExitHasBracket)'
<1> SUFFICES ASSUME Inv, [Next]_vars PROVE (OneExitPerBracket /\ ExitHasBracket)'
  OBVIOUS
<1>0. exits \in Int /\ sets \in Int /\ faults \in Int /\ exits <= sets + faults
  BY DEF Inv, TypeOK, OneExitPerBracket
<1> USE <1>0 DEF OneExitPerBracket, ExitHasBracket
\* Steps that leave the row, the tick and the three counters alone.
<1>1. ASSUME UNCHANGED <<bracket, spc, exits, sets, faults>>
      PROVE  (OneExitPerBracket /\ ExitHasBracket)'
  BY <1>1 DEF Inv
<1>2. CASE EntryNext
  <2> PICK e \in Entries :
        LegSubmitted(e) \/ EntryEnds(e) \/ LadderReports(e) \/ SetBracket(e) \/ NoAtr(e)
    BY <1>2 DEF EntryNext
  <2>1. CASE SetBracket(e)
    BY <2>1 DEF SetBracket
  <2>2. CASE LegSubmitted(e) \/ EntryEnds(e) \/ LadderReports(e) \/ NoAtr(e)
    BY <2>2, <1>1 DEF LegSubmitted, EntryEnds, LadderReports, NoAtr, store, tick
  <2> QED
    BY <2>1, <2>2
<1>3. CASE VenueNext
  BY <1>3, <1>1 DEF VenueNext, PriceMoves, OtherSell, LegFills, store, tick
<1>4. CASE HandlerStep
  BY <1>4, <1>1 DEF HandlerStep, PersistFill, RebuildPosition, tick
<1>5. CASE SupervisorStep
  <2>1. CASE SubmitExit
    BY <2>1, ExitIsSpent DEF SubmitExit, Goto, Armed
  <2>2. CASE TickStarts
    BY <2>2 DEF TickStarts, Goto, store, supervisorOnly, Inv
  <2>3. CASE RemoveStale
    BY <2>3 DEF RemoveStale, Goto, supervisorOnly, Armed
  <2>4. CASE DropBracket
    BY <2>4 DEF DropBracket, Goto, supervisorOnly, Armed
  <2>5. CASE ReadPosition
    BY <2>5 DEF ReadPosition, Goto, store, supervisorOnly, Inv, Armed
  <2>6. CASE LatestTrade \/ GetOrders \/ CancelsDone \/ LatestQuote \/ ExitRefused
    BY <2>6 DEF LatestTrade, GetOrders, CancelsDone, LatestQuote, ExitRefused,
                Goto, store, supervisorOnly, Inv, Armed
  <2>7. CASE \E e \in Entries : CancelLeg(e)
    BY <2>7, <1>1 DEF CancelLeg, store
  <2> QED
    BY <1>5, <2>1, <2>2, <2>3, <2>4, <2>5, <2>6, <2>7 DEF SupervisorStep
<1>6. CASE FaultNext
  <2>1. faults' = faults + 1
    BY <1>6 DEF FaultNext, EventLost, ExitUnanswered, TickFails, ExecutorDies, Fault
  <2>2. CASE ExitUnanswered
    BY <2>1, <2>2, ExitIsSpent DEF ExitUnanswered, Goto
  <2>3. CASE EventLost \/ TickFails \/ ExecutorDies
    BY <2>1, <2>3 DEF EventLost, TickFails, ExecutorDies, supervisorOnly
  <2> QED
    BY <1>6, <2>2, <2>3 DEF FaultNext
<1>7. CASE ExecutorStarts
  BY <1>7, <1>1 DEF ExecutorStarts, tick
<1>8. CASE CloserNext
  <2>1. CASE CloserDeletes
    BY <2>1 DEF CloserDeletes, tick, Inv
  <2>2. CASE CloserCancels \/ CloserCloses
    BY <2>2, <1>1 DEF CloserCancels, CloserCloses, store, tick
  <2> QED
    BY <1>8, <2>1, <2>2 DEF CloserNext
<1>9. CASE UNCHANGED vars
  BY <1>9, <1>1 DEF vars, store, tick
<1> QED
  BY <1>2, <1>3, <1>4, <1>5, <1>6, <1>7, <1>8, <1>9 DEF Next

LEMMA InvInit == Init => Inv
<1> SUFFICES ASSUME Init PROVE Inv
  OBVIOUS
<1>1. TypeOK
  <2>1. inbox \in Seq(Report)
    BY DEF Init
  <2>2. bracket \in Prices \cup {None} /\ position \in Int /\ stored \in Int /\ seen \subseteq Entries
    BY DEF Init, None
  <2>3. held \in Nat /\ price \in Prices /\ exec \in {"up", "down"} /\ handling \in {"idle", "rebuild"}
    BY DEF Init
  <2>4. /\ spc \in TickStates /\ sbracket \in Prices \cup {None} /\ sqty \in Int
        /\ todo \subseteq Entries
    BY DEF Init, TickStates
  <2>5. /\ epc \in [Entries -> EntryStates] /\ paid \in [Entries -> Prices \cup {None}]
        /\ cpc \in CloserStates
    BY DEF Init, EntryStates, CloserStates
  <2>6. sets \in Nat /\ exits \in Nat /\ faults \in 0..MaxFaults
    BY MaxFaultsAssumption DEF Init
  <2>7. missed \in BOOLEAN
    BY DEF Init
  <2> QED
    BY <2>1, <2>2, <2>3, <2>4, <2>5, <2>6, <2>7 DEF TypeOK
<1>2. OneExitPerBracket
  BY DEF Init, OneExitPerBracket
<1>3. ExitHasBracket
  BY DEF Init, ExitHasBracket, Armed
<1> QED
  BY <1>1, <1>2, <1>3 DEF Inv

LEMMA Invariance == Spec => []Inv
<1>1. Inv /\ [Next]_vars => Inv'
  BY TypeStep, BudgetStep DEF Inv
<1> QED
  BY <1>1, InvInit, PTL DEF Spec

\* Type correctness of every behaviour.
THEOREM TypeCorrect == Spec => []TypeOK
<1>1. Inv => TypeOK
  BY DEF Inv
<1> QED
  BY <1>1, Invariance, PTL

\* The venue never takes more exits than brackets were set and faults happened,
\* whatever the interleaving of ticks, entries, closers, crashes and restarts.
THEOREM ExitsAreBudgeted == Spec => []OneExitPerBracket
<1>1. Inv => OneExitPerBracket
  BY DEF Inv
<1> QED
  BY <1>1, Invariance, PTL

-----------------------------------------------------------------------------
(* Only entries buy *)

(***************************************************************************)
(* The supervisor buys when the row it read is negative.  The row is what  *)
(* the holding once was: going back from it, execution by execution of the *)
(* inbox, one meets holdings the venue really had, and the fills stored so *)
(* far add up to one of them.  So no row is negative as long as the        *)
(* handler has missed nothing.                                             *)
(***************************************************************************)
\* h[i] is the holding after the first i executions of the inbox; the handler
\* has stored none of them, or the first.
Holdings(h) ==
  /\ h \in [0..Len(inbox) -> Nat]
  /\ h[Len(inbox)] = held
  /\ \A i \in 1..Len(inbox) : h[i] = h[i - 1] + inbox[i].lots
  /\ stored = h[IF handling = "idle" THEN 0 ELSE 1]

RowsLag ==
  /\ handling = "rebuild" => inbox # << >>
  /\ exec = "down" => inbox = << >> /\ handling = "idle"
  /\ ~missed => (\E h : Holdings(h)) /\ position >= 0 /\ sqty >= 0

\* What is stored was held once.
LEMMA StoredWasHeld ==
  ASSUME TypeOK, handling = "rebuild" => inbox # << >>, NEW h, Holdings(h)
  PROVE  stored \in Nat
<1>1. Len(inbox) \in Nat /\ (handling = "rebuild" => Len(inbox) > 0)
  BY DEF TypeOK
<1>2. (IF handling = "idle" THEN 0 ELSE 1) \in 0..Len(inbox)
  BY <1>1 DEF TypeOK
<1> QED
  BY <1>2 DEF Holdings

\* An execution at the venue goes to the end of the inbox, or is missed.
LEMMA ExecuteKeepsRows ==
  ASSUME TypeOK, RowsLag, NEW n \in Int, NEW e \in Entries \cup {"other"}, held + n >= 0,
         Execute(n, e), UNCHANGED <<stored, handling, exec, position, sqty>>
  PROVE  RowsLag'
<1>1. CASE n = 0
  <2>1. UNCHANGED <<held, inbox, missed>>
    BY <1>1 DEF Execute, TypeOK
  <2> QED
    BY <2>1 DEF RowsLag, Holdings
<1>2. CASE exec = "up" /\ n # 0
  <2> DEFINE r == [lots |-> n, of |-> e]
             k == Len(inbox)
  <2>1. inbox \in Seq(Report) /\ r \in Report /\ k \in Nat
    BY DEF TypeOK, Report
  <2>2. inbox' = Append(inbox, r) /\ held' = held + n /\ missed' = missed
    BY <1>2 DEF Execute
  <2>3. /\ inbox' # << >> /\ Len(inbox') = k + 1 /\ inbox'[k + 1].lots = n
        /\ \A i \in 1..k : inbox'[i] = inbox[i]
    BY <2>1, <2>2
  <2>4. ASSUME ~missed, NEW h, Holdings(h)
        PROVE  \E g : Holdings(g)'
    <3> DEFINE j == IF handling = "idle" THEN 0 ELSE 1
    <3>0. PICK g : g = [i \in 0..k + 1 |-> IF i = k + 1 THEN held + n ELSE h[i]]
      OBVIOUS
    <3>1. j \in 0..k
      BY <2>1 DEF TypeOK, RowsLag
    <3>2. g \in [0..k + 1 -> Nat]
      BY <2>1, <2>4, <3>0 DEF Holdings, TypeOK
    <3>3. g[k + 1] = held + n /\ \A i \in 0..k : g[i] = h[i]
      BY <2>1, <3>0
    <3>4. stored' = g[j] /\ handling' = handling
      BY <3>1, <3>3, <2>4 DEF Holdings
    <3>5. ASSUME NEW i \in 1..k + 1 PROVE g[i] = g[i - 1] + inbox'[i].lots
      <4>1. CASE i = k + 1
        BY <4>1, <2>1, <2>3, <3>3, <2>4 DEF Holdings
      <4>2. CASE i # k + 1
        <5>1. i \in 1..k /\ i \in 0..k /\ i - 1 \in 0..k
          BY <4>2, <2>1
        <5> QED
          BY <5>1, <2>3, <3>3, <2>4 DEF Holdings
      <4> QED
        BY <4>1, <4>2
    <3>6. Holdings(g)'
      BY <2>2, <2>3, <3>2, <3>3, <3>4, <3>5 DEF Holdings
    <3> QED
      BY <3>6
  <2> QED
    BY <1>2, <2>2, <2>3, <2>4 DEF RowsLag
<1>3. CASE exec = "down" /\ n # 0
  <2>1. missed' = TRUE /\ inbox' = inbox
    BY <1>3 DEF Execute
  <2> QED
    BY <2>1 DEF RowsLag
<1> QED
  BY <1>1, <1>2, <1>3 DEF TypeOK

\* The exit of a tick sells, unless the handler missed an execution.
LEMMA ExitSells ==
  ASSUME TypeOK, RowsLag, VenueTakesExit
  PROVE  missed \/ (sqty <= held /\ \E n \in 0..sqty : Execute(-n, "other"))
BY DEF VenueTakesExit, RowsLag, TypeOK

\* A row that is rebuilt is a holding the venue had.
LEMMA HandlerKeepsRows ==
  ASSUME TypeOK, RowsLag, HandlerStep
  PROVE  RowsLag'
<1>0. /\ UNCHANGED <<exec, held, sqty, missed>>
      /\ inbox \in Seq(Report) /\ Len(inbox) \in Nat
  BY DEF HandlerStep, PersistFill, RebuildPosition, venue, tick, TypeOK
<1>1. CASE PersistFill
  <2>1. /\ handling = "idle" /\ handling' = "rebuild" /\ inbox # << >> /\ Len(inbox) > 0
        /\ exec = "up"
        /\ stored' = stored + inbox[1].lots
        /\ UNCHANGED <<inbox, position>>
    BY <1>0, <1>1 DEF PersistFill
  <2>2. ASSUME NEW h, Holdings(h) PROVE Holdings(h)'
    BY <1>0, <2>1, <2>2 DEF Holdings
  <2> QED
    BY <1>0, <2>1, <2>2 DEF RowsLag
<1>2. CASE RebuildPosition
  <2>1. /\ handling = "rebuild" /\ handling' = "idle" /\ inbox # << >> /\ Len(inbox) > 0
        /\ inbox' = Tail(inbox) /\ position' = stored /\ stored' = stored /\ exec = "up"
    BY <1>0, <1>2 DEF RebuildPosition, RowsLag, TypeOK
  <2>2. ASSUME NEW h, Holdings(h) PROVE \E g : Holdings(g)'
    <3> DEFINE k == Len(inbox) - 1
    <3>0. PICK g : g = [i \in 0..k |-> h[i + 1]]
      OBVIOUS
    <3>1. k \in Nat /\ Len(inbox') = k /\ \A i \in 1..k : inbox'[i] = inbox[i + 1]
      BY <1>0, <2>1
    <3>2. g \in [0..k -> Nat] /\ g[k] = held'
      BY <1>0, <2>1, <2>2, <3>0, <3>1 DEF Holdings
    <3>3. \A i \in 1..k : g[i] = g[i - 1] + inbox'[i].lots
      <4> TAKE i \in 1..k
      <4>1. i + 1 \in 1..Len(inbox) /\ i - 1 \in 0..k /\ i \in 0..k
        BY <3>1
      <4>2. h[i + 1] = h[i] + inbox[i + 1].lots
        BY <2>2, <4>1, <3>1 DEF Holdings
      <4>3. g[i] = h[i + 1] /\ g[i - 1] = h[i]
        BY <4>1, <3>0, <3>1
      <4> QED
        BY <4>1, <4>2, <4>3, <3>1
    <3>4. stored' = g[0]
      BY <2>1, <2>2, <3>0, <3>1 DEF Holdings
    <3>5. Holdings(g)'
      BY <2>1, <3>1, <3>2, <3>3, <3>4 DEF Holdings
    <3> QED
      BY <3>5
  <2>3. ~missed => stored \in Nat
    BY StoredWasHeld DEF RowsLag
  <2> QED
    BY <1>0, <2>1, <2>2, <2>3 DEF RowsLag
<1> QED
  BY <1>1, <1>2 DEF HandlerStep

LEMMA RowsInit == Init => RowsLag
<1> SUFFICES ASSUME Init PROVE RowsLag
  OBVIOUS
<1> DEFINE h == [i \in 0..0 |-> 0]
<1>1. Len(inbox) = 0 /\ inbox = << >> /\ stored = 0 /\ held = 0 /\ handling = "idle"
      /\ position = 0 /\ sqty = 0
  BY DEF Init
<1>2. h \in [0..0 -> Nat] /\ h[0] = 0
  OBVIOUS
<1> HIDE DEF h
<1>3. Holdings(h)
  BY <1>1, <1>2 DEF Holdings
<1> QED
  BY <1>1, <1>3 DEF RowsLag

LEMMA RowsStep == TypeOK /\ RowsLag /\ [Next]_vars => RowsLag'
<1> SUFFICES ASSUME TypeOK, RowsLag, [Next]_vars PROVE RowsLag'
  OBVIOUS
\* Steps that leave the handler's and the venue's numbers alone.
<1>1. ASSUME UNCHANGED <<held, inbox, stored, handling, exec, position, missed>>,
             sqty' = sqty \/ sqty' = position \/ sqty' = 0
      PROVE  RowsLag'
  BY <1>1 DEF RowsLag, Holdings
<1>2. CASE EntryNext \/ PriceMoves \/ CloserCancels \/ CloserDeletes \/ TickFails \/ UNCHANGED vars
  BY <1>2, <1>1 DEF EntryNext, LegSubmitted, EntryEnds, LadderReports, SetBracket, NoAtr, PriceMoves,
     CloserCancels, CloserDeletes, TickFails, supervisorOnly, vars, store, venue, handler, tick
<1>3. CASE OtherSell \/ \E e \in Entries : LegFills(e)
  BY <1>3, ExecuteKeepsRows DEF OtherSell, LegFills, store, tick, TypeOK
<1>4. CASE HandlerStep
  BY <1>4, HandlerKeepsRows
<1>5. ASSUME VenueTakesExit, UNCHANGED <<stored, handling, exec, position, sqty>>
      PROVE  RowsLag'
  <2>1. PICK n \in Int : held + n >= 0 /\ Execute(n, "other")
    BY <1>5 DEF VenueTakesExit, TypeOK
  <2> QED
    BY <1>5, <2>1, ExecuteKeepsRows
<1>6. CASE SubmitExit \/ ExitUnanswered
  BY <1>5, <1>6 DEF SubmitExit, ExitUnanswered, store
<1>7. CASE SupervisorStep /\ ~SubmitExit
  BY <1>1, <1>7 DEF SupervisorStep, TickStarts, ReadPosition, RemoveStale, LatestTrade, GetOrders,
     CancelsDone, LatestQuote, ExitRefused, DropBracket, CancelLeg, store, supervisorOnly, venue, handler
<1>8. CASE EventLost
  <2>1. missed' = TRUE /\ handling' = "idle" /\ exec' = exec /\ exec = "up"
    BY <1>8 DEF EventLost
  <2> QED
    BY <2>1 DEF RowsLag
<1>9. CASE ExecutorDies
  <2>1. CASE inbox # << >>
    BY <1>9, <2>1 DEF ExecutorDies, RowsLag
  <2>2. CASE inbox = << >>
    BY <1>9, <2>2 DEF ExecutorDies, RowsLag, Holdings, store, venue, TypeOK
  <2> QED
    BY <2>1, <2>2
<1>10. CASE ExecutorStarts
  BY <1>10 DEF ExecutorStarts, RowsLag, Holdings, venue, handler, tick
<1>11. CASE CloserCloses
  <2>1. CASE held = 0
    BY <1>1, <1>11, <2>1 DEF CloserCloses, store, tick
  <2>2. CASE held # 0
    BY <1>11, <2>2, ExecuteKeepsRows DEF CloserCloses, store, tick, TypeOK
  <2> QED
    BY <2>1, <2>2
<1> QED
  BY <1>2, <1>3, <1>4, <1>6, <1>7, <1>8, <1>9, <1>10, <1>11
  DEF Next, VenueNext, FaultNext, CloserNext

\* Whatever prices, closers, other sellers and restarts do, a step that raises
\* the venue's holding fills an entry's leg, as long as the handler has applied
\* every execution (BracketSupervisor._trigger_exit sells what the row says).
THEOREM SupervisorNeverBuys == Spec => OnlyEntriesBuy
<1> DEFINE Fills == \E e \in Entries : epc[e] = "resting" /\ epc'[e] = "filled"
<1>1. ASSUME TypeOK, RowsLag, [Next]_vars, held' > held
      PROVE  missed \/ Fills
  <2>1. held \in Nat /\ inbox \in Seq(Report)
    BY <1>1 DEF TypeOK
  <2>2. CASE \E e \in Entries : LegFills(e)
    <3>1. PICK e \in Entries : LegFills(e)
      BY <2>2
    <3>2. epc \in [Entries -> EntryStates] /\ epc' = [epc EXCEPT ![e] = "filled"]
      BY <1>1, <3>1 DEF LegFills, TypeOK
    <3>3. epc'[e] = "filled" /\ epc[e] = "resting"
      BY <3>1, <3>2 DEF LegFills
    <3> QED
      BY <3>3
  <2>3. CASE OtherSell \/ CloserCloses
    <3>1. CASE OtherSell
      <4>1. held' = held + -1
        BY <3>1 DEF OtherSell, Execute
      <4> QED
        BY <1>1, <2>1, <4>1
    <3>2. CASE CloserCloses
      <4>1. held' = held \/ held' = held + -held
        BY <3>2 DEF CloserCloses, Execute
      <4> QED
        BY <1>1, <2>1, <4>1
    <3> QED
      BY <2>3, <3>1, <3>2
  <2>4. CASE SubmitExit \/ ExitUnanswered
    <3>1. VenueTakesExit
      BY <2>4 DEF SubmitExit, ExitUnanswered
    <3>2. ASSUME NEW n \in 0..sqty, Execute(-n, "other") PROVE FALSE
      <4>1. held' = held + -n /\ sqty \in Int
        BY <1>1, <3>2 DEF Execute, TypeOK
      <4> QED
        BY <1>1, <2>1, <4>1
    <3> QED
      BY <1>1, <3>1, <3>2, ExitSells
  <2>5. CASE held' = held
    BY <1>1, <2>1, <2>5
  <2>6. CASE EntryNext \/ PriceMoves \/ HandlerStep \/ UNCHANGED vars
    BY <2>6, <2>5 DEF EntryNext, LegSubmitted, EntryEnds, LadderReports, SetBracket, NoAtr,
       PriceMoves, HandlerStep, PersistFill, RebuildPosition, vars, venue
  <2>7. CASE SupervisorStep /\ ~SubmitExit
    BY <2>7, <2>5 DEF SupervisorStep, TickStarts, ReadPosition, RemoveStale, LatestTrade, GetOrders,
       CancelsDone, LatestQuote, ExitRefused, DropBracket, CancelLeg, supervisorOnly, venue
  <2>8. CASE EventLost \/ TickFails \/ ExecutorDies \/ ExecutorStarts \/ CloserCancels \/ CloserDeletes
    BY <2>8, <2>5 DEF EventLost, TickFails, ExecutorDies, ExecutorStarts, CloserCancels,
       CloserDeletes, supervisorOnly, venue
  <2> QED
    BY <1>1, <2>2, <2>3, <2>4, <2>6, <2>7, <2>8
    DEF Next, VenueNext, FaultNext, CloserNext
<1>2. Spec => []RowsLag
  <2>1. TypeOK /\ RowsLag /\ [Next]_vars => RowsLag'
    BY RowsStep
  <2> QED
    BY <2>1, RowsInit, TypeCorrect, PTL DEF Spec
<1>3. TypeOK /\ RowsLag /\ [Next]_vars
        => [held' > held => missed \/ \E e \in Entries : epc[e] = "resting" /\ epc'[e] = "filled"]_vars
  BY <1>1
<1> QED
  BY <1>2, <1>3, TypeCorrect, PTL DEF Spec, OnlyEntriesBuy
=============================================================================
