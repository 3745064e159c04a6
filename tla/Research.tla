------------------------------- MODULE Research -------------------------------
(***************************************************************************)
(* What the strategy is judged on: the loaders and the backtest.  They     *)
(* share no state: a load hands over bars, once each and in order, which   *)
(* is what Backtest takes and HistoryComplete says.  So a behaviour of the *)
(* instance exercises one of them.                                         *)
(***************************************************************************)
EXTENDS History, Backtest

AskedDef == {s \in Study : s.strategy = "random" => s.costs = "taker" /\ ~s.null}
RangesDef == {<<1, 3>>, <<1, 6>>}
Symmetry == Permutations(Loaders)

Init ==
  /\ HistoryInit
  /\ BacktestInit
  /\ \/ left = MaxLoads /\ phase = "off"
     \/ left = 0 /\ market = {} /\ source = "alpaca" /\ phase = "bars"

Next ==
  \/ HistoryNext /\ UNCHANGED backtest
  \/ BacktestNext /\ UNCHANGED history

Spec == Init /\ [][Next]_<<history, backtest>>
===============================================================================
