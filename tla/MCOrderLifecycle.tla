-------------------------- MODULE MCOrderLifecycle --------------------------
(***************************************************************************)
(* Instance of OrderLifecycle for TLC: a bought order of two lots, so that *)
(* it can be partly filled, and a foreign sale of one lot, as a watchdog   *)
(* liquidation is.                                                         *)
(***************************************************************************)
EXTENDS OrderLifecycle

CONSTANTS buy, sell

MCOrders == {buy, sell}
MCForeign == {sell}
MCSide == [o \in {buy, sell} |-> IF o = buy THEN "buy" ELSE "sell"]
MCQty == [o \in {buy, sell} |-> IF o = buy THEN 2 ELSE 1]
=============================================================================
