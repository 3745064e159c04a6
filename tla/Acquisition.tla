---------------------------- MODULE Acquisition ----------------------------
(***************************************************************************)
(* What PassiveEntry.execute promises its caller, without its ladder: the  *)
(* market trades some lots, the caller is told of some of them, and one    *)
(* verdict closes the call.  What the caller is told is a lower bound of   *)
(* what traded, it never exceeds what was asked for, it is final once the  *)
(* verdict is in, and "filled" means all of it.  Nothing is promised of    *)
(* lots that trade and are not told.                                       *)
(***************************************************************************)
EXTENDS Naturals

CONSTANT Want   \* lots asked for

VARIABLES
  traded,    \* lots executed on behalf of the call
  told,      \* lots the result reports
  verdict    \* PassiveResult: "working" until execute returns or raises

vars == <<traded, told, verdict>>

Verdicts == {"filled", "timed_out", "rejected", "raised"}

Init == traded = 0 /\ told = 0 /\ verdict = "working"

\* Orders may trade after the verdict, too.
Trade ==
  /\ traded' = traded + 1
  /\ UNCHANGED <<told, verdict>>

\* The caller learns of trades.
Learn ==
  /\ verdict = "working"
  /\ told' \in told..traded
  /\ told' <= Want

Account == Learn /\ UNCHANGED <<traded, verdict>>

Conclude ==
  /\ Learn
  /\ verdict' \in Verdicts
  /\ verdict' = "filled" => told' = Want
  /\ verdict' \in {"timed_out", "rejected", "raised"} => told' < Want
  /\ UNCHANGED traded

Next == Trade \/ Account \/ Conclude

\* Legs, waits and retries are bounded: the call comes to an end.
Concludes == <>(verdict # "working")

Spec == Init /\ [][Next]_vars /\ Concludes
=============================================================================
