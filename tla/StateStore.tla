----------------------------- MODULE StateStore -----------------------------
(***************************************************************************)
(* The SQLite state store of ops/state.py, the one piece of state shared   *)
(* by the executor, the watchdog, the signal daemon and the command-line   *)
(* tools.  Every method opens its own connection in autocommit mode, so a  *)
(* method is one transaction; an operator below is what that transaction   *)
(* does to its table, as a function from table to table.                   *)
(*                                                                         *)
(* An order is named by its client order id.  A row keeps its lifecycle    *)
(* status and whether alpaca_order_id has been written ("bound"); prices,  *)
(* modelled costs and timestamps of the row are abstracted away.  All      *)
(* orders are for one symbol, so the positions table is one signed         *)
(* quantity.  Quantities are counted in lots: one execution, one lot.      *)
(***************************************************************************)
EXTENDS Integers, FiniteSets

CONSTANTS
  Orders,   \* client order ids
  Side      \* Side[o]: "buy" or "sell"

ASSUME SideAssumption == Side \in [Orders -> {"buy", "sell"}]

-----------------------------------------------------------------------------
(* The orders table *)

Absent == "absent"
OpenStatuses == {"pending", "submitted", "partial"}
TerminalStatuses == {"filled", "canceled", "rejected"}
RowStatuses == {Absent} \cup OpenStatuses \cup TerminalStatuses

OrderRow == [status : RowStatuses, bound : BOOLEAN]

HasRow(t, o) == t[o].status # Absent

\* INSERT of a PENDING row with a NULL alpaca_order_id.  Callers guard it with
\* ~HasRow: the primary key refuses a second insert.
SaveIntent(t, o) == [t EXCEPT ![o] = [status |-> "pending", bound |-> FALSE]]

\* UPDATE ... WHERE id=?: binds the venue's id and sets SUBMITTED whatever the
\* status was before.
MarkSubmitted(t, o) == [t EXCEPT ![o] = [status |-> "submitted", bound |-> TRUE]]

\* UPDATE ... SET status: no look at the status it replaces; no row, no effect.
UpdateStatus(t, o, s) == [t EXCEPT ![o].status = IF @ = Absent THEN Absent ELSE s]

OpenRows(t) == {o \in Orders : t[o].status \in OpenStatuses}

-----------------------------------------------------------------------------
(* The fills table: a row is keyed by order id and fill timestamp. *)

\* A fill saved under a key of its own, so that a redelivered event counts twice.
SaveFillUnkeyed(f, o, stamp) ==
  f \cup {<<o, Cardinality({x \in f : x[1] = o}) + 1>>}

\* INSERT OR IGNORE on the key.
SaveFill(f, o, stamp) == f \cup {<<o, stamp>>}

\* Sum of signed fills, as _rebuild_position computes it.
NetQuantity(f) ==
  Cardinality({x \in f : Side[x[1]] = "buy"})
    - Cardinality({x \in f : Side[x[1]] = "sell"})
=============================================================================
