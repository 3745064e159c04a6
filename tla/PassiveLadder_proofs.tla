------------------------ MODULE PassiveLadder_proofs ------------------------
(***************************************************************************)
(* Theorems about PassiveLadder for every quantity and every number of     *)
(* failing calls.                                                          *)
(***************************************************************************)
EXTENDS PassiveLadder, TLAPS

\* Setting one entry of a sum over the legs changes the sum by the difference.
LEMMA TotalExcept ==
  ASSUME NEW f \in [Legs -> Int], NEW l \in Legs, NEW n \in Int
  PROVE  /\ Total(f) \in Int
         /\ Total([f EXCEPT ![l] = n]) = Total(f) - f[l] + n
BY DEF Legs, Total

\* A sum bounds another if each of its entries does.
LEMMA TotalMonotone ==
  ASSUME NEW f \in [Legs -> Int], NEW g \in [Legs -> Int],
         \A l \in Legs : f[l] <= g[l]
  PROVE  Total(f) <= Total(g)
BY DEF Legs, Total

-----------------------------------------------------------------------------
(* The inductive invariant *)

\* What has been seen of a leg is stored, what is stored executed, what is
\* executed ordered; a leg still open has something left to execute.
LegOK(l) ==
  /\ took[l] <= stored[l] /\ stored[l] <= exec[l] /\ exec[l] <= size[l]
  /\ live[l] = "none" => size[l] = 0
  /\ live[l] = "open" => exec[l] < size[l]

\* The ladder has nothing ahead of its leg, and the leg was opened for what
\* the others had not reported.
HereOK ==
  /\ \A l \in Legs : l > leg \/ (l = leg /\ pc \in {"submit", "cancel"}) => live[l] = "none"
  /\ pc = "poll" => /\ live[leg] # "none"
                    /\ took[leg] = 0
                    /\ collected <= stored[leg]
  /\ pc \in {"submit", "cancel"} => collected = 0
  /\ live[leg] # "none" => size[leg] = Qty - (Reported - took[leg])
  /\ pc = "cancel" => leg > 1

\* The verdict agrees with what is reported.
VerdictOK ==
  /\ pc = "done" <=> verdict # "working"
  /\ Reported <= Qty
  /\ verdict = "filled" <=> Reported = Qty

\* The ladder knows of every leg that works, or a failed call hid it.
KnownOK == \A l \in Legs : live[l] = "open" => l \in held \cup loose

LInv ==
  /\ TypeOK
  /\ \A l \in Legs : LegOK(l)
  /\ KnownOK
  /\ HereOK
  /\ VerdictOK
  /\ WorkingLegsAreAccountedFor

LEMMA LInvInit == Init => LInv
BY QtyAssumption, MaxFaultsAssumption
DEF Init, LInv, TypeOK, LegOK, KnownOK, HereOK, VerdictOK, WorkingLegsAreAccountedFor,
    Legs, Reported, Total

\* What is missing is a positive number of lots while the ladder works.
LEMMA RemainingType ==
  ASSUME LInv
  PROVE  /\ Reported \in Nat /\ Remaining \in 0..Qty
         /\ pc # "done" => Remaining \in 1..Qty
<1>1. took \in [Legs -> Nat]
  BY QtyAssumption DEF LInv, TypeOK
<1>2. Reported \in Nat
  BY <1>1 DEF Reported, Total, Legs
<1>3. QED
  BY <1>2, QtyAssumption DEF LInv, VerdictOK, Remaining

-----------------------------------------------------------------------------
(* Steps of the venue *)

LEMMA VenueStep == ASSUME LInv, Venue PROVE LInv'
<1>1. PICK m \in Legs : Execute(m) \/ End(m) \/ Store(m)
  BY DEF Venue
<1>2. UNCHANGED <<leg, pc, held, took, collected, verdict, size, asked, loose, faults>>
  BY <1>1 DEF Execute, End, Store, ladder
<1>3. \A l \in Legs : live'[l] = live[l] \/ (live[l] = "open" /\ live'[l] = "closed")
  BY <1>1 DEF Execute, End, Store, LInv, TypeOK
<1>4. /\ live' \in [Legs -> {"none", "open", "closed"}]
      /\ exec' \in [Legs -> 0..Qty]
      /\ stored' \in [Legs -> 0..Qty]
      /\ \A l \in Legs : LegOK(l)' /\ stored[l] <= stored'[l]
  <2> USE QtyAssumption DEF LInv, TypeOK, LegOK
  <2>1. CASE Execute(m)
    BY <2>1 DEF Execute, ladder
  <2>2. CASE End(m)
    BY <2>2 DEF End, ladder
  <2>3. CASE Store(m)
    BY <2>3 DEF Store, ladder
  <2>4. QED
    BY <1>1, <2>1, <2>2, <2>3
<1>5. TypeOK'
  BY <1>2, <1>4 DEF LInv, TypeOK
<1>6. HereOK'
  <2>1. Reported' = Reported /\ leg \in Legs
    BY <1>2 DEF Reported, LInv, TypeOK
  <2>2. collected <= stored[leg] => collected <= stored'[leg]
    BY <1>4, <2>1, QtyAssumption DEF LInv, TypeOK
  <2>3. QED
    BY <1>2, <1>3, <2>1, <2>2 DEF LInv, HereOK
<1>7. VerdictOK'
  BY <1>2 DEF LInv, VerdictOK, Reported
<1>8. WorkingLegsAreAccountedFor'
  BY <1>2, <1>3 DEF LInv, WorkingLegsAreAccountedFor
<1>9. KnownOK'
  BY <1>2, <1>3 DEF LInv, KnownOK
<1>10. QED
  BY <1>4, <1>5, <1>6, <1>7, <1>8, <1>9 DEF LInv

-----------------------------------------------------------------------------
(* Steps of the ladder *)

\* Opening a leg opens it for what is missing.
LEMMA OpenStep ==
  ASSUME LInv, pc = "submit", Open
  PROVE  /\ live' = [live EXCEPT ![leg] = "open"]
         /\ size' = [size EXCEPT ![leg] = Remaining]
         /\ live' \in [Legs -> {"none", "open", "closed"}]
         /\ size' \in [Legs -> 0..Qty]
         /\ exec' = exec /\ stored' = stored
         /\ \A l \in Legs : took' = took => LegOK(l)'
<1>1. Remaining \in 1..Qty
  BY RemainingType
<1>2. live[leg] = "none" /\ leg \in Legs
  BY DEF LInv, HereOK, TypeOK
<1>3. LegOK(leg) /\ exec[leg] = 0
  BY <1>2, QtyAssumption DEF LInv, LegOK, TypeOK
<1>4. QED
  BY <1>1, <1>2, <1>3, QtyAssumption DEF Open, LInv, TypeOK, LegOK

LEMMA SubmitStep == ASSUME LInv, SubmitLeg PROVE LInv'
<1>1. /\ pc = "submit" /\ pc' = "poll" /\ Open
      /\ UNCHANGED <<leg, took, collected, verdict, asked, loose, faults>>
      /\ held' = held \cup {leg}
  BY DEF SubmitLeg
<1>2. leg \in Legs /\ live[leg] = "none" /\ Remaining \in 1..Qty
  BY <1>1, RemainingType DEF LInv, TypeOK, HereOK
<1>3. /\ live' = [live EXCEPT ![leg] = "open"]
      /\ size' = [size EXCEPT ![leg] = Remaining]
      /\ \A l \in Legs : LegOK(l)'
      /\ live \in [Legs -> {"none", "open", "closed"}]
      /\ size \in [Legs -> 0..Qty]
  BY <1>1, OpenStep DEF LInv, TypeOK
<1>4. TypeOK'
  BY <1>1, <1>2, OpenStep DEF LInv, TypeOK
<1>5. took[leg] = 0 /\ stored[leg] = 0 /\ took' = took /\ stored' = stored
  BY <1>1, <1>2, OpenStep, QtyAssumption DEF LInv, LegOK, TypeOK
<1>6. Reported' = Reported /\ Reported \in Nat
  BY <1>5, RemainingType DEF Reported
<1>7. HereOK'
  <2>1. live'[leg] = "open" /\ \A l \in Legs : l > leg => live'[l] = "none"
    BY <1>1, <1>2, <1>3 DEF LInv, HereOK, Legs
  <2>2. size'[leg] = Qty - (Reported' - took'[leg])
    BY <1>2, <1>3, <1>5, <1>6, QtyAssumption DEF Remaining
  <2>3. collected' <= stored'[leg] /\ took'[leg] = 0
    BY <1>1, <1>5 DEF LInv, HereOK
  <2>4. QED
    BY <1>1, <2>1, <2>2, <2>3 DEF HereOK
<1>8. VerdictOK'
  BY <1>1, <1>6 DEF LInv, VerdictOK
<1>9. WorkingLegsAreAccountedFor'
  BY <1>1, <1>2, <1>3 DEF LInv, WorkingLegsAreAccountedFor
<1>10. KnownOK'
  BY <1>1, <1>2, <1>3 DEF LInv, KnownOK
<1>11. QED
  BY <1>3, <1>4, <1>7, <1>8, <1>9, <1>10 DEF LInv

\* From a leg the ladder goes to the next one, or to its end.
LEMMA AdvanceFacts ==
  ASSUME LInv, pc # "done", Advance
  PROVE  /\ leg' \in Legs /\ leg \in Legs
         /\ \/ pc' = "done" /\ verdict' = "timed_out" /\ leg' = leg /\ leg = Ioc
            \/ pc' = "cancel" /\ verdict' = "working" /\ leg' = leg + 1 /\ leg < Ioc
BY DEF Advance, LInv, TypeOK, VerdictOK, Legs, Ioc

LEMMA LegFailsStep == ASSUME LInv, LegFails PROVE LInv'
<1>1. /\ pc = "submit" /\ Advance /\ UNCHANGED <<held, took, collected, asked>>
      /\ \/ Open /\ loose' = loose \cup {leg}
         \/ UNCHANGED <<live, size, exec, stored, loose>>
      /\ faults' \in 0..MaxFaults
  BY MaxFaultsAssumption DEF LegFails, Fault, market, LInv, TypeOK
<1>2. /\ leg' \in Legs /\ leg \in Legs
      /\ \/ pc' = "done" /\ verdict' = "timed_out" /\ leg' = leg /\ leg = Ioc
         \/ pc' = "cancel" /\ verdict' = "working" /\ leg' = leg + 1 /\ leg < Ioc
  BY <1>1, AdvanceFacts
<1>3. /\ live[leg] = "none" /\ collected = 0 /\ Remaining \in 1..Qty
      /\ \A l \in Legs : l > leg => live[l] = "none"
  BY <1>1, <1>2, RemainingType DEF LInv, HereOK
<1>4. TypeOK' /\ \A l \in Legs : LegOK(l)'
  <2>1. CASE Open
    BY <1>1, <1>2, <2>1, OpenStep DEF LInv, TypeOK
  <2>2. CASE UNCHANGED <<live, size, exec, stored, loose>>
    BY <1>1, <1>2, <2>2 DEF LInv, TypeOK, LegOK
  <2>3. QED
    BY <1>1, <2>1, <2>2
<1>5. Reported' = Reported /\ Reported \in Nat /\ Reported < Qty
  BY <1>1, <1>3, RemainingType, QtyAssumption DEF Reported, Remaining
<1>6. \A l \in Legs : l # leg => live'[l] = live[l]
  BY <1>1, <1>2, OpenStep DEF LInv, TypeOK
<1>7. HereOK'
  <2>1. CASE pc' = "cancel"
    <3>1. \A l \in Legs : l >= leg' => live'[l] = "none"
      BY <1>2, <1>3, <1>6, <2>1 DEF Legs
    <3>2. leg' > 1
      BY <1>2, <2>1 DEF Legs
    <3>3. QED
      BY <1>1, <1>2, <1>3, <2>1, <3>1, <3>2 DEF HereOK, Legs
  <2>2. CASE pc' = "done"
    <3>1. \A l \in Legs : l > leg' => live'[l] = "none"
      BY <1>2, <1>3, <1>6, <2>2 DEF Legs
    <3>2. live'[leg] # "none" => size'[leg] = Qty - (Reported' - took'[leg])
      <4>1. CASE Open
        <5>1. took[leg] = 0 /\ took' = took
          BY <1>1, <1>2, <1>3, QtyAssumption DEF LInv, LegOK, TypeOK
        <5>2. size'[leg] = Remaining
          BY <1>1, <1>2, <4>1, OpenStep DEF LInv, TypeOK
        <5>3. QED
          BY <1>5, <5>1, <5>2, QtyAssumption DEF Remaining
      <4>2. CASE UNCHANGED <<live, size, exec, stored, loose>>
        BY <1>3, <4>2
      <4>3. QED
        BY <1>1, <4>1, <4>2
    <3>3. QED
      BY <1>1, <1>2, <1>3, <2>2, <3>1, <3>2 DEF HereOK
  <2>3. QED
    BY <1>2, <2>1, <2>2
<1>8. VerdictOK'
  BY <1>2, <1>5, QtyAssumption DEF VerdictOK
<1>9. WorkingLegsAreAccountedFor'
  <2> SUFFICES ASSUME NEW l \in Legs, live'[l] = "open" PROVE l \in asked' \cup loose'
    BY DEF WorkingLegsAreAccountedFor
  <2>1. CASE l = leg
    BY <1>1, <1>3, <2>1
  <2>2. CASE l # leg
    BY <1>1, <1>6, <2>2 DEF LInv, WorkingLegsAreAccountedFor
  <2>3. QED
    BY <2>1, <2>2
<1>10. KnownOK'
  BY <1>1, <1>3, <1>6 DEF LInv, KnownOK
<1>11. QED
  BY <1>4, <1>7, <1>8, <1>9, <1>10 DEF LInv

\* The ladder leaves a leg with what it has seen of it, all of it stored.
LEMMA LeaveStep ==
  ASSUME LInv, pc = "poll", NEW n \in 0..stored[leg], LeaveWith(n),
         UNCHANGED <<held, market, asked, loose, faults>>
  PROVE  LInv'
<1>1. UNCHANGED <<live, size, exec, stored>>
  BY DEF market
<1>2. /\ leg \in Legs /\ took[leg] = 0 /\ took \in [Legs -> 0..Qty]
      /\ stored[leg] <= exec[leg] /\ exec[leg] <= size[leg]
      /\ size[leg] = Qty - Reported
      /\ stored[leg] \in Nat /\ exec[leg] \in Nat /\ size[leg] \in Nat
      /\ live[leg] # "none"
  BY QtyAssumption, RemainingType DEF LInv, TypeOK, HereOK, LegOK
<1>3. n \in 0..Remaining /\ n \in 0..Qty /\ Remaining \in 1..Qty /\ Reported \in Nat
  BY <1>2, RemainingType, QtyAssumption DEF Remaining
<1>4. took' = [took EXCEPT ![leg] = n] /\ collected' = 0
  BY DEF LeaveWith
<1>5. took \in [Legs -> Int] /\ n \in Int
  BY <1>2, <1>3
<1>6. Reported' = Reported + n
  <2>1. Total([took EXCEPT ![leg] = n]) = Total(took) - took[leg] + n
    BY <1>2, <1>5, TotalExcept
  <2>2. Total(took) \in Int
    BY <1>3 DEF Reported
  <2>3. Total(took') = Total(took) + n
    BY <1>2, <1>4, <1>5, <2>1, <2>2
  <2>4. QED
    BY <2>3 DEF Reported
<1>7. /\ leg' \in Legs
      /\ \/ pc' = "done" /\ verdict' = "filled" /\ leg' = leg /\ n = Remaining
         \/ pc' = "done" /\ verdict' = "timed_out" /\ leg' = leg /\ leg = Ioc /\ n < Remaining
         \/ pc' = "cancel" /\ verdict' = "working" /\ leg' = leg + 1 /\ leg < Ioc /\ n < Remaining
  <2>1. CASE n >= Remaining
    BY <1>2, <1>3, <2>1 DEF LeaveWith
  <2>2. CASE ~ (n >= Remaining)
    <3>1. Advance /\ n < Remaining
      BY <1>3, <2>2 DEF LeaveWith
    <3>2. QED
      BY <3>1, AdvanceFacts
  <2>3. QED
    BY <2>1, <2>2
<1>8. TypeOK'
  BY <1>1, <1>2, <1>3, <1>4, <1>7 DEF LInv, TypeOK
<1>9. \A l \in Legs : LegOK(l)'
  BY <1>1, <1>2, <1>3, <1>4 DEF LInv, LegOK
<1>10. HereOK'
  <2>1. \A l \in Legs : l > leg => live'[l] = "none" /\ size'[l] = 0
    BY <1>1 DEF LInv, HereOK, LegOK
  <2>2. CASE leg' = leg
    <3>1. took'[leg] = n
      BY <1>2, <1>4
    <3>2. size'[leg] = Qty - (Reported' - took'[leg])
      BY <1>1, <1>2, <1>3, <1>6, <3>1, QtyAssumption
    <3>3. pc' = "done"
      BY <1>2, <1>7, <2>2 DEF Legs
    <3>4. QED
      BY <2>1, <2>2, <3>2, <3>3 DEF HereOK
  <2>3. CASE pc' = "cancel" /\ leg' = leg + 1
    <3>1. \A l \in Legs : l >= leg' => live'[l] = "none"
      BY <1>2, <2>1, <2>3 DEF Legs
    <3>2. leg' > 1
      BY <1>2, <2>3 DEF Legs
    <3>3. QED
      BY <1>4, <1>7, <2>3, <3>1, <3>2 DEF HereOK, Legs
  <2>4. QED
    BY <1>7, <2>2, <2>3
<1>11. VerdictOK'
  BY <1>3, <1>6, <1>7, QtyAssumption DEF VerdictOK, Remaining
<1>12. WorkingLegsAreAccountedFor'
  <2> SUFFICES ASSUME NEW l \in Legs, live'[l] = "open"
               PROVE  \/ l \in asked' \cup loose'
                      \/ l = leg' /\ (pc' = "done" => l = Ioc)
                      \/ l = leg' - 1 /\ pc' = "cancel"
    BY DEF WorkingLegsAreAccountedFor
  <2>1. CASE l # leg
    BY <1>1, <2>1 DEF LInv, WorkingLegsAreAccountedFor
  <2>2. CASE l = leg /\ verdict' = "filled"
    <3>1. exec[leg] < size[leg]
      BY <1>1, <2>2 DEF LInv, LegOK
    <3>2. QED
      BY <1>2, <1>3, <1>7, <2>2, <3>1 DEF Remaining
  <2>3. CASE l = leg /\ verdict' # "filled"
    <3>1. CASE pc' = "cancel" /\ leg' = leg + 1
      <4>1. leg \in Int /\ leg' - 1 = leg
        BY <1>2, <3>1 DEF Legs
      <4>2. QED
        BY <2>3, <3>1, <4>1
    <3>2. CASE pc' = "done" /\ leg' = leg /\ leg = Ioc
      BY <2>3, <3>2
    <3>3. QED
      BY <1>7, <2>3, <3>1, <3>2
  <2>4. QED
    BY <2>1, <2>2, <2>3
<1>13. KnownOK'
  BY <1>1 DEF LInv, KnownOK
<1>14. QED
  BY <1>8, <1>9, <1>10, <1>11, <1>12, <1>13 DEF LInv

LEMMA PollStep == ASSUME LInv, Poll PROVE LInv'
<1>1. leg \in Legs /\ pc = "poll" /\ stored[leg] \in Nat /\ took[leg] = 0
      /\ UNCHANGED <<held, market, asked, loose, faults>>
  BY DEF LInv, TypeOK, HereOK, Poll
<1>2. CASE stored[leg] >= Remaining
  BY <1>1, <1>2, LeaveStep DEF Poll
<1>3. CASE ~ (stored[leg] >= Remaining)
  <2>1. collected' = stored[leg] /\ UNCHANGED <<leg, pc, took, verdict>>
    BY <1>3 DEF Poll
  <2>2. UNCHANGED <<live, size, exec, stored>>
    BY <1>1 DEF market
  <2>3. TypeOK'
    BY <1>1, <2>1, <2>2 DEF LInv, TypeOK
  <2>4. \A l \in Legs : LegOK(l)'
    BY <2>1, <2>2 DEF LInv, LegOK
  <2>5. HereOK'
    BY <1>1, <2>1, <2>2 DEF LInv, HereOK, Reported
  <2>6. VerdictOK' /\ WorkingLegsAreAccountedFor' /\ KnownOK'
    BY <1>1, <2>1, <2>2 DEF LInv, VerdictOK, WorkingLegsAreAccountedFor, KnownOK, Reported
  <2>7. QED
    BY <2>3, <2>4, <2>5, <2>6 DEF LInv
<1>4. QED
  BY <1>2, <1>3

LEMMA ExpireStep == ASSUME LInv, Expire PROVE LInv'
<1>1. pc = "poll" /\ LeaveWith(collected) /\ UNCHANGED <<held, market, asked, loose, faults>>
  BY DEF Expire
<1>2. collected \in 0..stored[leg]
  BY <1>1, QtyAssumption DEF LInv, TypeOK, HereOK
<1>3. QED
  BY <1>1, <1>2, LeaveStep

\* The steps that open nothing and report nothing.
LEMMA OtherStep ==
  ASSUME LInv, LegRejected \/ CancelPrevious \/ CancelFails
  PROVE  LInv'
<1>1. /\ UNCHANGED <<leg, held, took, collected, live, size, exec, stored>>
      /\ asked \subseteq asked' /\ loose \subseteq loose'
      /\ \/ pc = "submit" /\ pc' = "done" /\ verdict' = "rejected"
         \/ pc = "cancel" /\ pc' = "submit" /\ verdict' = verdict
  BY DEF LegRejected, CancelPrevious, CancelFails, market
<1>2. asked' \subseteq Legs /\ loose' \subseteq Legs /\ faults' \in 0..MaxFaults
  BY MaxFaultsAssumption DEF LegRejected, CancelPrevious, CancelFails, Fault, LInv, TypeOK
<1>3. TypeOK' /\ \A l \in Legs : LegOK(l)'
  BY <1>1, <1>2 DEF LInv, TypeOK, LegOK
<1>4. HereOK'
  BY <1>1 DEF LInv, HereOK, Reported
<1>5. VerdictOK'
  BY <1>1, RemainingType, QtyAssumption DEF LInv, VerdictOK, Reported, Remaining
<1>6. WorkingLegsAreAccountedFor'
  <2>1. CASE LegRejected
    BY <1>1, <2>1 DEF LegRejected, LInv, HereOK, WorkingLegsAreAccountedFor, TypeOK
  <2>2. CASE CancelPrevious
    <3>1. \A l \in Legs : live[l] = "open" /\ l = leg - 1 => l \in asked' \cup loose'
      BY <1>1, <2>2 DEF CancelPrevious, LInv, KnownOK
    <3>2. QED
      BY <1>1, <2>2, <3>1 DEF CancelPrevious, LInv, WorkingLegsAreAccountedFor
  <2>3. CASE CancelFails
    BY <1>1, <2>3 DEF CancelFails, LInv, WorkingLegsAreAccountedFor
  <2>4. QED
    BY <2>1, <2>2, <2>3
<1>7. KnownOK'
  BY <1>1 DEF LInv, KnownOK
<1>8. QED
  BY <1>3, <1>4, <1>5, <1>6, <1>7 DEF LInv

LEMMA AbandonStep == ASSUME LInv, Abandon PROVE LInv'
<1>1. /\ pc # "done" /\ pc' = "done" /\ verdict' = "raised"
      /\ (pc = "submit" /\ Open) \/ UNCHANGED <<live, size, exec, stored>>
      /\ loose' = loose \cup (Legs \cap {leg - 1, leg})
      /\ UNCHANGED <<leg, held, took, collected, asked>>
      /\ faults' \in 0..MaxFaults
  BY MaxFaultsAssumption DEF Abandon, Fault, market, LInv, TypeOK
<1>2. leg \in Legs /\ Remaining \in 1..Qty
  BY <1>1, RemainingType DEF LInv, TypeOK
<1>3. TypeOK' /\ \A l \in Legs : LegOK(l)'
  <2>1. CASE pc = "submit" /\ Open
    BY <1>1, <1>2, <2>1, OpenStep DEF LInv, TypeOK
  <2>2. CASE UNCHANGED <<live, size, exec, stored>>
    BY <1>1, <1>2, <2>2 DEF LInv, TypeOK, LegOK
  <2>3. QED
    BY <1>1, <2>1, <2>2
<1>4. \A l \in Legs : l # leg => live'[l] = live[l]
  BY <1>1, <1>2, OpenStep DEF LInv, TypeOK
<1>5. HereOK'
  <2>1. \A l \in Legs : l > leg' => live'[l] = "none"
    BY <1>1, <1>2, <1>4 DEF LInv, HereOK, Legs
  <2>2. live'[leg] # "none" => size'[leg] = Qty - (Reported' - took'[leg])
    <3>1. CASE pc = "submit" /\ Open
      <4>1. took[leg] = 0 /\ took' = took
        BY <1>1, <1>2, <3>1, QtyAssumption DEF LInv, HereOK, LegOK, TypeOK
      <4>2. size'[leg] = Remaining
        BY <1>2, <3>1, OpenStep DEF LInv, TypeOK
      <4>3. QED
        BY <4>1, <4>2, RemainingType, QtyAssumption DEF Remaining, Reported
    <3>2. CASE UNCHANGED <<live, size, exec, stored>>
      BY <1>1, <3>2 DEF LInv, HereOK, Reported
    <3>3. QED
      BY <1>1, <3>1, <3>2
  <2>3. QED
    BY <1>1, <2>1, <2>2 DEF HereOK
<1>6. VerdictOK'
  BY <1>1, <1>2, RemainingType, QtyAssumption DEF VerdictOK, Reported, Remaining
<1>7. WorkingLegsAreAccountedFor'
  <2> SUFFICES ASSUME NEW l \in Legs, live'[l] = "open" PROVE l \in asked' \cup loose'
    BY DEF WorkingLegsAreAccountedFor
  <2>1. CASE l = leg
    BY <1>1, <2>1
  <2>2. CASE l # leg
    BY <1>1, <1>4, <2>2 DEF LInv, WorkingLegsAreAccountedFor
  <2>3. QED
    BY <2>1, <2>2
<1>8. KnownOK'
  <2> SUFFICES ASSUME NEW l \in Legs, live'[l] = "open" PROVE l \in held' \cup loose'
    BY DEF KnownOK
  <2>1. CASE l = leg
    BY <1>1, <2>1
  <2>2. CASE l # leg
    BY <1>1, <1>4, <2>2 DEF LInv, KnownOK
  <2>3. QED
    BY <2>1, <2>2
<1>9. QED
  BY <1>3, <1>5, <1>6, <1>7, <1>8 DEF LInv

LEMMA LInvStep == LInv /\ [Next]_vars => LInv'
<1> SUFFICES ASSUME LInv, [Next]_vars PROVE LInv'
  OBVIOUS
<1>1. CASE UNCHANGED vars
  BY <1>1 DEF vars, ladder, market, LInv, TypeOK, LegOK, KnownOK, HereOK, VerdictOK,
              WorkingLegsAreAccountedFor, Reported
<1>2. CASE Venue
  BY <1>2, VenueStep
<1>3. CASE Ladder
  BY <1>3, SubmitStep, LegFailsStep, PollStep, ExpireStep, OtherStep, AbandonStep DEF Ladder
<1>4. QED
  BY <1>1, <1>2, <1>3 DEF Next

LEMMA LInvInvariance == Spec => []LInv
BY LInvInit, LInvStep, PTL DEF Spec

-----------------------------------------------------------------------------
(* Theorems *)

\* The ladder never asks for, collects or reports more lots than it was given,
\* whatever fails and however late fills are stored.
THEOREM TypeCorrect == Spec => []TypeOK
<1>1. LInv => TypeOK
  BY DEF LInv
<1>2. QED
  BY LInvInvariance, <1>1, PTL

\* _accumulate counts each stored fill at most once, and only executions.
THEOREM ReportsAreTrue == Spec => []ReportIsTrue
<1>1. LInv => ReportIsTrue
  BY DEF LInv, LegOK, ReportIsTrue
<1>2. QED
  BY LInvInvariance, <1>1, PTL

\* execute leaves an order working at the venue only if its cancel was accepted
\* or a call failed.
THEOREM NothingLeftWorking == Spec => []WorkingLegsAreAccountedFor
<1>1. LInv => WorkingLegsAreAccountedFor
  BY DEF LInv
<1>2. QED
  BY LInvInvariance, <1>1, PTL

\* If no earlier leg holds an execution the ladder has not counted, at most Qty
\* lots have traded: what one leg can trade is what the others have not reported.
LEMMA SeenLegsFit == LInv => OverfillIsUnseen
<1> SUFFICES ASSUME LInv, Executed > Qty,
                    \A l \in Legs : live[l] # "none" /\ l # leg => ~ (exec[l] > took[l])
             PROVE  FALSE
  BY DEF OverfillIsUnseen
<1>1. /\ exec \in [Legs -> Int] /\ took \in [Legs -> Int] /\ size \in [Legs -> Int]
      /\ leg \in Legs
  BY QtyAssumption DEF LInv, TypeOK
<1>2. \A l \in Legs : l # leg => exec[l] <= took[l]
  <2>1. \A l \in Legs : live[l] = "none" => exec[l] <= took[l]
    BY QtyAssumption DEF LInv, TypeOK, LegOK
  <2>2. QED
    BY <1>1, <2>1
<1>3. Executed - exec[leg] <= Reported - took[leg]
  BY <1>1, <1>2 DEF Executed, Reported, Total, Legs
<1>4. exec[leg] <= Qty - (Reported - took[leg])
  <2>1. CASE live[leg] = "none"
    <3>1. exec[leg] = 0 /\ took[leg] = 0
      BY <1>1, <2>1, QtyAssumption DEF LInv, TypeOK, LegOK
    <3>2. QED
      BY <3>1, RemainingType, QtyAssumption DEF LInv, VerdictOK
  <2>2. CASE live[leg] # "none"
    BY <1>1, <2>2, QtyAssumption DEF LInv, LegOK, HereOK
  <2>3. QED
    BY <2>1, <2>2
<1>5. Executed \in Int /\ Reported \in Int
  BY <1>1 DEF Executed, Reported, Total, Legs
<1>6. QED
  BY <1>1, <1>3, <1>4, <1>5, QtyAssumption

\* More lots than Qty trade only through executions the ladder stopped watching
\* for: the remainder it asks for next is computed from what it has seen.
THEOREM OverfillsAreUnseen == Spec => []OverfillIsUnseen
BY LInvInvariance, SeenLegsFit, PTL

-----------------------------------------------------------------------------
(* The ladder implements its contract *)

\* What is reported is covered by executions.
LEMMA ReportCovered == LInv => Reported \in Int /\ Executed \in Int /\ Reported <= Executed
<1> SUFFICES ASSUME LInv PROVE Reported \in Int /\ Executed \in Int /\ Reported <= Executed
  OBVIOUS
<1>1. took \in [Legs -> Int] /\ exec \in [Legs -> Int] /\ stored \in [Legs -> Int]
  BY QtyAssumption DEF LInv, TypeOK
<1>2. \A l \in Legs : took[l] <= exec[l]
  BY <1>1 DEF LInv, LegOK
<1>3. QED
  BY <1>1, <1>2, TotalMonotone DEF Reported, Executed, Total, Legs

\* A step of the ladder itself trades nothing and never reports less.
LEMMA LadderReports ==
  ASSUME LInv, Ladder
  PROVE  pc # "done" /\ exec' = exec /\ Reported <= Reported'
<1>1. pc # "done" /\ exec' = exec
  BY DEF Ladder, SubmitLeg, LegRejected, LegFails, Poll, Expire, CancelPrevious,
         CancelFails, Abandon, Open, market
<1>2. took' = took \/ (pc = "poll" /\ \E n \in {stored[leg], collected} : LeaveWith(n))
  BY DEF Ladder, SubmitLeg, LegRejected, LegFails, Poll, Expire, CancelPrevious,
         CancelFails, Abandon
<1>3. took \in [Legs -> Int] /\ leg \in Legs
  BY QtyAssumption DEF LInv, TypeOK
<1>4. ASSUME NEW n \in Int, n >= 0, pc = "poll", LeaveWith(n)
      PROVE  Reported <= Reported'
  <2>1. took[leg] = 0 /\ took' = [took EXCEPT ![leg] = n]
    BY <1>4 DEF LInv, HereOK, LeaveWith
  <2>2. \A l \in Legs : took[l] <= took'[l]
    BY <1>3, <1>4, <2>1
  <2>3. took' \in [Legs -> Int]
    BY <1>3, <1>4, <2>1
  <2>4. QED
    BY <1>3, <2>2, <2>3, TotalMonotone DEF Reported
<1>5. stored[leg] \in Int /\ stored[leg] >= 0 /\ collected \in Int /\ collected >= 0
  BY QtyAssumption DEF LInv, TypeOK
<1>6. took' = took => Reported <= Reported'
  BY ReportCovered DEF Reported
<1>7. QED
  BY <1>1, <1>2, <1>4, <1>5, <1>6

\* An execution trades one lot.
LEMMA ExecuteTrades ==
  ASSUME LInv, NEW l \in Legs, Execute(l)
  PROVE  Executed' = Executed + 1
<1>1. exec \in [Legs -> Int]
  BY QtyAssumption DEF LInv, TypeOK
<1>2. exec' = [exec EXCEPT ![l] = exec[l] + 1] /\ exec[l] + 1 \in Int
  BY <1>1 DEF Execute
<1>3. Total([exec EXCEPT ![l] = exec[l] + 1]) = Total(exec) - exec[l] + (exec[l] + 1)
  BY <1>1, <1>2, TotalExcept
<1>4. Total(exec) \in Int /\ exec[l] \in Int
  BY <1>1 DEF Total, Legs
<1>5. QED
  BY <1>2, <1>3, <1>4 DEF Executed

LEMMA ContractStep ==
  ASSUME LInv, LInv', [Next]_vars
  PROVE  [Contract!Next]_(Contract!vars)
<1>1. CASE Ladder
  <2>1. pc # "done" /\ Executed' = Executed /\ Reported <= Reported'
    BY <1>1, LadderReports DEF Executed
  <2>2. /\ Reported \in Int /\ Reported' \in Int /\ Executed \in Int
        /\ Reported' <= Executed
    <3>1. (LInv => Reported \in Int /\ Executed \in Int /\ Reported <= Executed)'
      BY ReportCovered, PTL
    <3>2. QED
      BY <2>1, <3>1, ReportCovered
  <2>3. verdict = "working" /\ Reported' <= Qty /\ (verdict' = "filled" <=> Reported' = Qty)
    BY <2>1 DEF LInv, VerdictOK
  <2>4. Contract!Learn
    BY <2>1, <2>2, <2>3 DEF Contract!Learn
  <2>5. CASE verdict' = "working"
    BY <2>1, <2>3, <2>4, <2>5 DEF Contract!Next, Contract!Account
  <2>6. CASE verdict' # "working"
    <3>1. verdict' \in Contract!Verdicts
      BY <2>6 DEF LInv, TypeOK, Contract!Verdicts
    <3>2. verdict' \in {"timed_out", "rejected", "raised"} => Reported' < Qty
      BY <2>2, <2>3, QtyAssumption
    <3>3. Contract!Conclude
      BY <2>1, <2>3, <2>4, <3>1, <3>2 DEF Contract!Conclude
    <3>4. QED
      BY <3>3 DEF Contract!Next
  <2>7. QED
    BY <2>5, <2>6
<1>2. CASE Venue
  <2>1. PICK l \in Legs : Execute(l) \/ End(l) \/ Store(l)
    BY <1>2 DEF Venue
  <2>2. Reported' = Reported /\ verdict' = verdict
    BY <2>1 DEF Execute, End, Store, ladder, Reported
  <2>3. CASE Execute(l)
    BY <2>2, <2>3, ExecuteTrades DEF Contract!Next, Contract!Trade
  <2>4. CASE End(l) \/ Store(l)
    BY <2>2, <2>4 DEF End, Store, Executed, Contract!vars
  <2>5. QED
    BY <2>1, <2>3, <2>4
<1>3. CASE UNCHANGED vars
  BY <1>3 DEF vars, ladder, market, Executed, Reported, Contract!vars
<1>4. QED
  BY <1>1, <1>2, <1>3 DEF Next

\* The ladder implements the safety part of its contract: what it reports only
\* grows, is covered by executions, never exceeds Qty, is final with the
\* verdict, and "filled" means Qty.
THEOREM Refinement == Spec => Contract!Init /\ [][Contract!Next]_(Contract!vars)
<1>1. Init => Contract!Init
  BY DEF Init, Contract!Init, Executed, Reported, Total, Legs
<1>2. LInv /\ LInv' /\ [Next]_vars => [Contract!Next]_(Contract!vars)
  BY ContractStep
<1>3. QED
  BY LInvInvariance, <1>1, <1>2, PTL DEF Spec
=============================================================================
