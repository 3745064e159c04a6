--------------------------- MODULE PassiveLadder ---------------------------
(***************************************************************************)
(* PassiveEntry.execute: up to four legs, each an order for what is still  *)
(* missing: at the touch, at the new touch, at mid, and an IOC across the  *)
(* spread.  The ladder does not hear from the venue.  It polls the fills   *)
(* table, which the executor fills from the trade_updates stream, until a  *)
(* leg's deadline, and then cancels and moves on without waiting for the   *)
(* cancel to take effect.                                                  *)
(*                                                                         *)
(* Quantities are lots, so the 1e-9 tolerance of the code is equality;     *)
(* prices and modelled costs are abstracted away.  A fill row is stored    *)
(* after its execution, with any delay, or never.                          *)
(***************************************************************************)
EXTENDS Integers

CONSTANTS
  Qty,        \* lots asked for
  MaxFaults   \* bound on failed calls of one ladder

ASSUME QtyAssumption == Qty \in Nat \ {0}
ASSUME MaxFaultsAssumption == MaxFaults \in Nat

Legs == 1..4   \* LadderPhase: TOUCH, TOUCH_2, MID, CROSS_IOC
Ioc == 4

VARIABLES
  leg,        \* the phase the ladder is in
  pc,         \* "submit", "poll", "cancel" (of the leg before), "done"
  held,       \* legs whose intent _submit_leg returned
  took,       \* took[l]: lots of l that _accumulate added to the result
  collected,  \* lots of the current leg that _collect_fills has seen
  verdict,    \* how execute ended, "working" before
  \* the venue and the executor, as far as the ladder's orders go
  live,       \* live[l]: "none", "open" or "closed"
  size,       \* size[l]: lots ordered
  exec,       \* exec[l]: lots executed
  stored,     \* stored[l]: lots whose fill row is in the store
  asked,      \* legs whose cancel the venue has answered with 204 or 422
  \* history
  loose,      \* legs a failed call may have left working
  faults

ladder == <<leg, pc, held, took, collected, verdict>>
market == <<live, size, exec, stored>>
vars == <<ladder, market, asked, loose, faults>>

\* Sum over the four legs.
Total(f) == f[1] + f[2] + f[3] + f[4]

Reported == Total(took)      \* PassiveResult.filled_qty
Executed == Total(exec)

\* Every leg asks for the whole quantity.
RemainingForgetsFills == Qty

Remaining == Qty - Reported

Init ==
  /\ leg = 1 /\ pc = "submit"
  /\ held = {}
  /\ took = [l \in Legs |-> 0]
  /\ collected = 0
  /\ verdict = "working"
  /\ live = [l \in Legs |-> "none"]
  /\ size = [l \in Legs |-> 0]
  /\ exec = [l \in Legs |-> 0]
  /\ stored = [l \in Legs |-> 0]
  /\ asked = {}
  /\ loose = {}
  /\ faults = 0

Fault == faults < MaxFaults /\ faults' = faults + 1

-----------------------------------------------------------------------------
(* The venue, and the fill handler of the executor *)

Execute(l) ==
  /\ live[l] = "open"
  /\ exec' = [exec EXCEPT ![l] = @ + 1]
  /\ live' = [live EXCEPT ![l] = IF exec'[l] = size[l] THEN "closed" ELSE "open"]
  /\ UNCHANGED <<ladder, size, stored, asked, loose, faults>>

\* A cancel takes effect, whoever asked for it, or the IOC remainder expires.
End(l) ==
  /\ live[l] = "open"
  /\ live' = [live EXCEPT ![l] = "closed"]
  /\ UNCHANGED <<ladder, size, exec, stored, asked, loose, faults>>

Store(l) ==
  /\ stored[l] < exec[l]
  /\ stored' = [stored EXCEPT ![l] = @ + 1]
  /\ UNCHANGED <<ladder, live, size, exec, asked, loose, faults>>

-----------------------------------------------------------------------------
(* Leaving a leg *)

\* The ladder goes from its leg to the next, or it has come to its end.
Advance ==
  IF leg = Ioc
  THEN pc' = "done" /\ verdict' = "timed_out" /\ leg' = leg
  ELSE pc' = "cancel" /\ verdict' = verdict /\ leg' = leg + 1

\* _accumulate what was collected; done if nothing remains.
LeaveWith(n) ==
  /\ took' = [took EXCEPT ![leg] = n]
  /\ collected' = 0
  /\ IF n >= Remaining
     THEN pc' = "done" /\ verdict' = "filled" /\ leg' = leg
     ELSE Advance

-----------------------------------------------------------------------------
(* _submit_leg *)

Open ==
  /\ live' = [live EXCEPT ![leg] = "open"]
  /\ size' = [size EXCEPT ![leg] = Remaining]
  /\ UNCHANGED <<exec, stored>>

SubmitLeg ==
  /\ pc = "submit"
  /\ Open
  /\ held' = held \cup {leg}
  /\ pc' = "poll"
  /\ UNCHANGED <<leg, took, collected, verdict, asked, loose, faults>>

\* 4xx: the whole ladder is off.
LegRejected ==
  /\ pc = "submit"
  /\ pc' = "done"
  /\ verdict' = "rejected"
  /\ UNCHANGED <<leg, held, took, collected, market, asked, loose, faults>>

\* No quote, a failing store, 5xx, a timeout: no intent and no wait, on to the
\* next leg.  The order may be live all the same.
LegFails ==
  /\ pc = "submit"
  /\ Fault
  /\ \/ Open /\ loose' = loose \cup {leg}
     \/ UNCHANGED <<market, loose>>
  /\ Advance
  /\ UNCHANGED <<held, took, collected, asked>>

-----------------------------------------------------------------------------
(* _collect_fills *)

\* Rows are not told apart by id: those of the last poll are counted again.
PollUnseen ==
  /\ pc = "poll"
  /\ IF collected + stored[leg] >= Remaining
     THEN LeaveWith(collected + stored[leg])
     ELSE /\ collected' = collected + stored[leg]
          /\ UNCHANGED <<leg, pc, took, verdict>>
  /\ UNCHANGED <<held, market, asked, loose, faults>>

Poll ==
  /\ pc = "poll"
  /\ IF stored[leg] >= Remaining
     THEN LeaveWith(stored[leg])
     ELSE /\ collected' = stored[leg]
          /\ UNCHANGED <<leg, pc, took, verdict>>
  /\ UNCHANGED <<held, market, asked, loose, faults>>

\* The wait is extended until something has come in.
ExpireOnceTouched ==
  /\ pc = "poll"
  /\ collected > 0
  /\ LeaveWith(collected)
  /\ UNCHANGED <<held, market, asked, loose, faults>>

\* The deadline passes: what came after the last poll is not looked at.
Expire ==
  /\ pc = "poll"
  /\ LeaveWith(collected)
  /\ UNCHANGED <<held, market, asked, loose, faults>>

-----------------------------------------------------------------------------
(* _cancel_quietly *)

\* A leg that has begun to fill is left to fill.
CancelUntouchedOnly ==
  /\ pc = "cancel"
  /\ asked' = asked \cup {l \in {leg - 1} \cap held : took[l] = 0}
  /\ pc' = "submit"
  /\ UNCHANGED <<leg, held, took, collected, verdict, market, loose, faults>>

CancelPrevious ==
  /\ pc = "cancel"
  /\ asked' = asked \cup ({leg - 1} \cap held)
  /\ pc' = "submit"
  /\ UNCHANGED <<leg, held, took, collected, verdict, market, loose, faults>>

\* The request fails; the ladder logs it and submits the next leg.
CancelFails ==
  /\ pc = "cancel"
  /\ leg - 1 \in held
  /\ Fault
  /\ loose' = loose \cup {leg - 1}
  /\ pc' = "submit"
  /\ UNCHANGED <<leg, held, took, collected, verdict, market, asked>>

-----------------------------------------------------------------------------
\* fills_for raises and execute lets it through, or the process is killed where
\* it stands: nobody cancels what is working.
Abandon ==
  /\ pc # "done"
  /\ Fault
  /\ (pc = "submit" /\ Open) \/ UNCHANGED market
  /\ pc' = "done"
  /\ verdict' = "raised"
  /\ loose' = loose \cup (Legs \cap {leg - 1, leg})
  /\ UNCHANGED <<leg, held, took, collected, asked>>

-----------------------------------------------------------------------------
Venue == \E l \in Legs : Execute(l) \/ End(l) \/ Store(l)

Ladder ==
  \/ SubmitLeg \/ LegRejected \/ LegFails
  \/ Poll \/ Expire
  \/ CancelPrevious \/ CancelFails
  \/ Abandon

Next == Venue \/ Ladder

\* REST calls answer or time out and the event loop runs the ladder's timers;
\* nothing is assumed of the venue or of the fill handler.
Fairness == WF_vars(SubmitLeg \/ LegRejected \/ LegFails)
            /\ WF_vars(CancelPrevious \/ CancelFails)
            /\ WF_vars(Expire)

Spec == Init /\ [][Next]_vars /\ Fairness

-----------------------------------------------------------------------------
(* Properties *)

TypeOK ==
  /\ leg \in Legs
  /\ pc \in {"submit", "poll", "cancel", "done"}
  /\ held \subseteq Legs
  /\ took \in [Legs -> 0..Qty]
  /\ collected \in 0..Qty
  /\ verdict \in {"working", "filled", "timed_out", "rejected", "raised"}
  /\ live \in [Legs -> {"none", "open", "closed"}]
  /\ size \in [Legs -> 0..Qty]
  /\ exec \in [Legs -> 0..Qty]
  /\ stored \in [Legs -> 0..Qty]
  /\ asked \subseteq Legs
  /\ loose \subseteq Legs
  /\ faults \in 0..MaxFaults

\* Each lot the result reports was executed on that leg, however often the
\* same fill rows were polled.
ReportIsTrue == \A l \in Legs : took[l] <= stored[l] /\ stored[l] <= exec[l]

\* More is executed than was asked for only through lots executed on a leg after
\* the ladder's last look at it: legs in good view never overlap.
OverfillIsUnseen ==
  Executed > Qty => \E l \in Legs : live[l] # "none" /\ l # leg /\ exec[l] > took[l]

\* An order still working is the current leg, or the one about to be cancelled,
\* or its cancel was accepted, or a call that failed is to blame.  The ladder
\* leaves nothing behind of its own accord.
WorkingLegsAreAccountedFor ==
  \A l \in Legs : live[l] = "open" =>
    \/ l \in asked \cup loose
    \/ l = leg /\ (pc = "done" => l = Ioc)
    \/ l = leg - 1 /\ pc = "cancel"

\* The contract of the caller's module, on the lots and the verdict alone.
Contract == INSTANCE Acquisition WITH
  Want <- Qty, traded <- Executed, told <- Reported, verdict <- verdict

KeepsContract == Contract!Spec

\* plan 4.1: "cancel-replace only the remainder, and never let a partial leave
\* your position accounting inconsistent".  Refuted by a run: the remainder is
\* computed from the fills stored at the last poll.
NeverOverfills == Executed <= Qty
=============================================================================
