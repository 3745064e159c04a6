------------------------------- MODULE Backtest -------------------------------
(***************************************************************************)
(* The walk-forward backtest of the command line: a series of bars, a      *)
(* strategy run on the test window of every fold that fits, and the fill   *)
(* simulator, which charges each change of position and a forced exit at   *)
(* the end of the fold.  The same folds are run again for the benchmark    *)
(* and for the null, a random strategy.                                    *)
(*                                                                         *)
(* A bar is its close.  The simulator's book is deep enough that nothing   *)
(* has impact, so a cost is a fee and half a spread, in half basis points. *)
(* Money is in the unit that makes both returns and costs integers.        *)
(*                                                                         *)
(* MaxBars bounds the series the strategies are evaluated on, MaxStudied   *)
(* the ones that are backtested.                                           *)
(***************************************************************************)
EXTENDS Strategy

CONSTANTS
  Train, Val, Test,  \* bars of the windows of a fold (360, 90, 90)
  Advance,           \* bars from one fold to the next (90)
  WarmupExtra,       \* bars of warm-up beyond the longest window (10)
  Asked,             \* the command lines tried
  MaxBars, MaxStudied

ASSUME FoldsAssumption ==
  /\ {Train, Val, WarmupExtra} \subseteq Nat
  /\ {Test, Advance} \subseteq Nat \ {0}
ASSUME BarsAssumption == MaxBars \in Nat /\ MaxStudied \in Nat

Costs == {"taker", "maker", "none"}
Passes == {"strategy", "benchmark", "null"}
Strategies == TrendStrategies \cup PlainStrategies \cup {"random"}
Benchmarks == PlainStrategies \cup {"none"}
Study == [strategy : Strategies, costs : Costs, benchmark : Benchmarks,
          null : BOOLEAN]

ASSUME AskedAssumption == Asked \subseteq Study

VARIABLES
  phase,     \* "off", "bars" (loading), "folds", "ledger", "done"
  closes,    \* the bars loaded
  study,     \* what the command line asked for
  pass,      \* "strategy", "benchmark" or "null": the run in progress
  start,     \* first bar of the next fold's training window, from 0
  ledger,    \* apply_costs on the current fold
  books      \* the finished folds

backtest == <<phase, closes, study, pass, start, ledger, books>>

\* bought, sold: history, the two directions of the turnover.
Ledger == [pass : Passes, positions : [1..Test -> Nat], at : 1..Test, pos : Nat,
           turnover : Nat, bought : Nat, sold : Nat, gross : Int, net : Int]

NoStudy == [strategy |-> "flat", costs |-> "none", benchmark |-> "none",
            null |-> FALSE]
NewLedger(p, positions) ==
  [pass |-> p, positions |-> positions, at |-> 1, pos |-> 0, turnover |-> 0,
   bought |-> 0, sold |-> 0, gross |-> 0, net |-> 0]

BacktestInit ==
  /\ phase \in {"off", "bars"}
  /\ closes = <<>>
  /\ study = NoStudy
  /\ pass = "strategy"
  /\ start = 0
  /\ ledger = NewLedger("strategy", [i \in 1..Test |-> 0])
  /\ books = <<>>

-------------------------------------------------------------------------------
(* Bars, folds and positions. *)

\* One more bar of the market; the adapters answer them sorted (History).
NextBar(c) ==
  /\ phase = "bars"
  /\ Len(closes) < MaxBars
  /\ closes' = Append(closes, c)
  /\ UNCHANGED <<phase, study, pass, start, ledger, books>>

\* _run once the bars are there; without any it gives up.
Begin(s) ==
  /\ phase = "bars"
  /\ closes # <<>>
  /\ Len(closes) <= MaxStudied
  /\ study' = s
  /\ phase' = "folds"
  /\ UNCHANGED <<closes, pass, start, ledger, books>>

Runs(p) ==
  CASE p = "strategy" -> study.strategy
    [] p = "benchmark" -> study.benchmark
    [] p = "null" -> "null"

\* Only the strategy gets a warm-up, and only a trend needs one.
Warmup(p) ==
  IF p = "strategy" /\ study.strategy \in TrendStrategies
  THEN WarmupExtra + Max({Max(Lookbacks), VolLookback,
         IF study.strategy = "tsmom_full_v2" THEN LongBaseline ELSE Baseline})
  ELSE 0

Fits(first) == first + Train + Val + Test <= Len(closes)

Random(n) == [1..n -> {0, FullSize}]

\* The null flips at random from flat, at the strategy's rate: never, if the
\* strategy never trades.
Null(n) ==
  LET trades == \E i \in DOMAIN books :
                  books[i].pass = "strategy" /\ books[i].turnover > 0
  IN  {f \in Random(n) : f[1] = 0 /\ (trades \/ \A i \in 1..n : f[i] = 0)}

PositionsOf(strategy, bars) ==
  CASE strategy = "random" -> Random(Len(bars))
    [] strategy = "null" -> Null(Len(bars))
    [] OTHER -> {Decided(strategy, bars)}

\* run_fold up to the simulator: the strategy sees the warm-up and the test
\* window; the positions of the test window are kept.
RunFold ==
  LET test == start + Train + Val
      from == Max({0, test - Warmup(pass)})
  IN  /\ phase = "folds"
      /\ Fits(start)
      /\ \E all \in PositionsOf(Runs(pass), SubSeq(closes, from + 1, test + Test)) :
           ledger' = NewLedger(pass,
                       [i \in 1..Test |-> all[test - from + i]])
      /\ phase' = "ledger"
      /\ UNCHANGED <<closes, study, pass, start, books>>

-------------------------------------------------------------------------------
(* The fill simulator. *)

\* Costs are in half basis points, so Spread is half of a spread.
Fee(costs) == IF costs = "maker" THEN 2 * 15 ELSE 2 * 25
Spread == 3

\* A taker pays half the spread, a maker saves it; nothing has impact.
OneWayCost(costs) ==
  CASE costs = "taker" -> Fee(costs) + Spread
    [] costs = "maker" -> Fee(costs) - Spread
    [] costs = "none" -> 0

BarReturn(i) == Rets(closes)[start + Train + Val + i]

\* A change of position is charged, and counted as turnover.
Trade(book, goal, costs) ==
  LET size == Distance(book.pos, goal)
  IN  [book EXCEPT !.pos = goal,
         !.turnover = @ + size,
         !.bought = @ + IF goal > book.pos THEN size ELSE 0,
         !.sold = @ + IF goal < book.pos THEN size ELSE 0,
         !.net = @ - size * OneWayCost(costs) * Scale]

\* One bar of apply_costs: the position is entered, held, and earns the return.
HoldBar ==
  LET i == ledger.at
      earned == ledger.positions[i] * BarReturn(i) * 20000
      traded == Trade(ledger, ledger.positions[i], study.costs)
  IN  /\ phase = "ledger"
      /\ i < Test
      /\ ledger' = [traded EXCEPT !.at = i + 1, !.gross = @ + earned,
                                  !.net = @ + earned]
      /\ UNCHANGED <<phase, closes, study, pass, start, books>>

\* A bug: the position of the last bar is left open, and its exit free.
LeftOpen(book, costs) == book

\* The forced exit; the last position has earned nothing and is dropped.
Unwind(book, costs) == Trade(book, 0, costs)

EndFold ==
  /\ phase = "ledger"
  /\ ledger.at = Test
  /\ books' = Append(books, Unwind(ledger, study.costs))
  /\ start' = start + Advance
  /\ phase' = "folds"
  /\ UNCHANGED <<closes, study, pass, ledger>>

\* No other fold fits: the benchmark, then the null gate, then the report.
NextPass ==
  LET bench == study.benchmark \notin {"none", study.strategy}
      next == IF pass = "strategy" /\ bench THEN "benchmark"
              ELSE IF pass # "null" /\ study.null THEN "null" ELSE "done"
  IN  /\ phase = "folds"
      /\ ~Fits(start)
      /\ IF next = "done" THEN phase' = "done" /\ UNCHANGED <<pass, start>>
         ELSE pass' = next /\ start' = 0 /\ UNCHANGED phase
      /\ UNCHANGED <<closes, study, ledger, books>>

BacktestNext ==
  \/ \E c \in Closes : NextBar(c)
  \/ \E s \in Asked : Begin(s)
  \/ RunFold \/ HoldBar \/ EndFold \/ NextPass

-------------------------------------------------------------------------------
(* Properties. *)

\* A strategy decides each bar from that bar and earlier ones: a later bar never
\* changes the positions already decided (what the harness leaves to the authors
\* of strategies, and look-ahead bias would break).
NoPeeking ==
  [][phase = "bars" /\ closes # <<>> =>
       \A s \in TrendStrategies :
         IsPrefix(Decided(s, closes), Decided(s, closes'))]_closes

\* A regime gate is risk-off on every bar whose volatility is past the level,
\* and a bar that ends the regime comes Sticky bars or more after its beginning:
\* full exposure returns only after Sticky bars that were risk-off or had no
\* estimate.
GateIsSticky ==
  LET Holds(out, l) ==
        \A j \in DOMAIN out :
          /\ l.known[j] /\ l.hot[j] => out[j] = RiskOff
          /\ \A i \in 1..j - 1 :
               /\ l.known[j] /\ out[j] = RiskOn /\ out[i] = RiskOff
               /\ \A k \in i + 1..j - 1 : ~l.known[k]
               => /\ j > Sticky
                  /\ \A k \in j - Sticky..j - 1 : l.known[k] => out[k] = RiskOff
  IN  phase = "bars" /\ closes # <<>> =>
        /\ Holds(RatioGate(closes), RatioLevels(closes))
        /\ Holds(PercentileGate(closes), PercentileLevels(closes))

\* Every fold starts and ends flat, whatever the strategy: what it bought it has
\* sold, both are in its turnover, and the difference between gross and net is
\* the cost of that turnover to the last unit.
LedgerBalances ==
  \A k \in DOMAIN books :
    LET b == books[k]
    IN  /\ b.pos = 0 /\ b.bought = b.sold
        /\ b.turnover = b.bought + b.sold
        /\ b.gross - b.net = b.turnover * OneWayCost(study.costs) * Scale
===============================================================================
