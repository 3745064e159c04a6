--------------------------- MODULE Capture_proofs ---------------------------
(***************************************************************************)
(* What the capture process guarantees for every batch size, buffer limit, *)
(* set of levels and number of faults: its types, the bound on the buffer, *)
(* where a line may be, and the cover of the outages.                      *)
(***************************************************************************)
EXTENDS Capture, FoldInduction, SequenceTheorems, TLAPS

Tasks == {"recv", "feat", "flush", "stop"}

(***************************************************************************)
(* The lines of the sequences the writer builds.                           *)
(***************************************************************************)
\* Every line of s has all the later lines of s between it and the latest.
InOrder(s) == \A i \in 1..Len(s) : s[i] + (Len(s) - i) <= made

\* Appending adds one line to the set of lines.
LEMMA LinesOfAppend ==
  ASSUME NEW s \in Seq(Nat), NEW n \in Nat
  PROVE  Append(s, n) \in Seq(Nat) /\ Lines(Append(s, n)) = Lines(s) \cup {n}
<1>1. Len(Append(s, n)) = Len(s) + 1 /\ Len(s) \in Nat
  OBVIOUS
<1>2. \A i \in 1..Len(s) + 1 : Append(s, n)[i] = IF i <= Len(s) THEN s[i] ELSE n
  OBVIOUS
<1>3. Lines(Append(s, n)) \subseteq Lines(s) \cup {n}
  BY <1>1, <1>2 DEF Lines
<1>4. Lines(s) \subseteq Lines(Append(s, n))
  BY <1>1, <1>2 DEF Lines
<1>5. n \in Lines(Append(s, n))
  <2>1. Append(s, n)[Len(s) + 1] = n /\ Len(s) + 1 \in 1..Len(Append(s, n))
    BY <1>1, <1>2
  <2> QED
    BY <2>1 DEF Lines
<1> QED
  BY <1>3, <1>4, <1>5

\* Where the kept and the cut lines of a sequence over the limit come from.
LEMMA KeptShape ==
  ASSUME NEW s \in Seq(Nat), Len(s) > Cap
  PROVE  /\ Kept(s) \in Seq(Nat) /\ Len(Kept(s)) = Cap
         /\ \A j \in 1..Cap : Kept(s)[j] = s[(Len(s) - Cap) + j]
         /\ CutOff(s) \in Seq(Nat) /\ Len(CutOff(s)) = Len(s) - Cap
         /\ \A j \in 1..(Len(s) - Cap) : CutOff(s)[j] = s[j]
<1> USE WriterAssumption
<1> DEFINE n == Len(s) - Cap
<1>1. /\ Kept(s) = SubSeq(s, n + 1, Len(s))
      /\ CutOff(s) = SubSeq(s, 1, n)
      /\ n \in Nat /\ Len(s) = n + Cap /\ Len(s) \in Nat
  BY DEF Kept, CutOff
<1> HIDE DEF n
<1>2. /\ Kept(s) \in Seq(Nat) /\ Len(Kept(s)) = Cap
      /\ \A j \in 1..Cap : Kept(s)[j] = s[n + j]
  <2>1. \A i \in n + 1..Len(s) : s[i] \in Nat
    BY <1>1
  <2>2. /\ SubSeq(s, n + 1, Len(s)) \in Seq(Nat)
        /\ Len(SubSeq(s, n + 1, Len(s)))
             = IF n + 1 <= Len(s) THEN Len(s) - (n + 1) + 1 ELSE 0
        /\ \A i \in 1..Len(s) - (n + 1) + 1 :
              SubSeq(s, n + 1, Len(s))[i] = s[n + 1 + i - 1]
    <3>1. n + 1 \in Int /\ Len(s) \in Int
      BY <1>1
    <3> QED
      BY <2>1, <3>1, SubSeqProperties
  <2>3. \A j \in 1..Cap : n + 1 + j - 1 = n + j
    BY <1>1
  <2> QED
    BY <1>1, <2>2, <2>3
<1>3. /\ CutOff(s) \in Seq(Nat) /\ Len(CutOff(s)) = n
      /\ \A j \in 1..n : CutOff(s)[j] = s[j]
  <2>1. \A i \in 1..n : s[i] \in Nat
    BY <1>1
  <2>2. /\ SubSeq(s, 1, n) \in Seq(Nat)
        /\ Len(SubSeq(s, 1, n)) = IF 1 <= n THEN n - 1 + 1 ELSE 0
        /\ \A i \in 1..n - 1 + 1 : SubSeq(s, 1, n)[i] = s[1 + i - 1]
    BY <1>1, <2>1, SubSeqProperties
  <2>3. n - 1 + 1 = n
    BY <1>1
  <2>4. Len(SubSeq(s, 1, n)) = n
    BY <1>1, <2>2
  <2>5. \A j \in 1..n : SubSeq(s, 1, n)[j] = s[j]
    <3> TAKE j \in 1..n
    <3>1. j \in 1..n - 1 + 1 /\ 1 + j - 1 = j
      BY <1>1
    <3> QED
      BY <2>2, <3>1
  <2> QED
    BY <1>1, <2>2, <2>4, <2>5
<1> QED
  BY <1>2, <1>3 DEF n

\* A sequence is split into what is cut off and what is kept.
LEMMA LinesOfKept ==
  ASSUME NEW s \in Seq(Nat)
  PROVE  /\ Kept(s) \in Seq(Nat) /\ Len(Kept(s)) <= Cap
         /\ Lines(s) \subseteq Lines(Kept(s)) \cup Lines(CutOff(s))
         /\ Lines(CutOff(s)) \subseteq Nat
<1> USE WriterAssumption
<1>1. CASE Len(s) <= Cap
  BY <1>1 DEF Kept, CutOff, Lines
<1>2. CASE Len(s) > Cap
  <2> DEFINE n == Len(s) - Cap
  <2>1. n \in Nat /\ Len(s) = n + Cap
    BY <1>2
  <2>2. /\ Kept(s) \in Seq(Nat) /\ Len(Kept(s)) = Cap
        /\ \A j \in 1..Cap : Kept(s)[j] = s[n + j]
        /\ CutOff(s) \in Seq(Nat) /\ Len(CutOff(s)) = n
        /\ \A j \in 1..n : CutOff(s)[j] = s[j]
    BY <1>2, KeptShape
  <2> HIDE DEF n
  <2>4. ASSUME NEW i \in 1..Len(s)
        PROVE  s[i] \in Lines(Kept(s)) \cup Lines(CutOff(s))
    <3>1. CASE i <= n
      BY <3>1, <2>2 DEF Lines
    <3>2. CASE i > n
      <4>1. i - n \in 1..Cap /\ n + (i - n) = i
        BY <3>2, <2>1
      <4>2. Kept(s)[i - n] = s[i]
        BY <4>1, <2>2
      <4> QED
        BY <4>1, <4>2, <2>2 DEF Lines
    <3> QED
      BY <3>1, <3>2, <2>1
  <2>5. Lines(CutOff(s)) \subseteq Nat
    BY <2>2 DEF Lines
  <2> QED
    <3>1. Lines(s) \subseteq Lines(Kept(s)) \cup Lines(CutOff(s))
      BY <2>4 DEF Lines
    <3> QED
      BY <2>2, <2>5, <3>1
<1> QED
  BY <1>1, <1>2


\* The limit keeps the order, and what it cuts off is Cap lines behind.
LEMMA KeptInOrder ==
  ASSUME NEW s \in Seq(Nat), made \in Nat, InOrder(s)
  PROVE  InOrder(Kept(s)) /\ \A d \in Lines(CutOff(s)) : d + Cap <= made
<1> USE WriterAssumption
<1>1. CASE Len(s) <= Cap
  BY <1>1 DEF Kept, CutOff, Lines
<1>2. CASE Len(s) > Cap
  <2> DEFINE n == Len(s) - Cap
  <2>1. n \in Nat /\ Len(s) = n + Cap
    BY <1>2
  <2>2. /\ Len(Kept(s)) = Cap
        /\ \A j \in 1..Cap : Kept(s)[j] = s[n + j]
        /\ Len(CutOff(s)) = n
        /\ \A j \in 1..n : CutOff(s)[j] = s[j]
    BY <1>2, KeptShape
  <2> HIDE DEF n
  <2>3. ASSUME NEW j \in 1..Cap PROVE Kept(s)[j] + (Cap - j) <= made
    <3>1. n + j \in 1..Len(s) /\ s[n + j] \in Nat
      BY <2>1
    <3>2. s[n + j] + (Len(s) - (n + j)) <= made
      BY <3>1 DEF InOrder
    <3> QED
      BY <3>1, <3>2, <2>1, <2>2
  <2>4. ASSUME NEW j \in 1..n PROVE CutOff(s)[j] + Cap <= made
    <3>1. j \in 1..Len(s) /\ s[j] \in Nat
      BY <2>1
    <3>2. s[j] + (Len(s) - j) <= made
      BY <3>1 DEF InOrder
    <3> QED
      BY <3>1, <3>2, <2>1, <2>2
  <2> QED
    BY <2>2, <2>3, <2>4 DEF InOrder, Lines
<1> QED
  BY <1>1, <1>2

(***************************************************************************)
(* The writer                                                              *)
(***************************************************************************)
WriterTypes ==
  /\ lock \in Tasks \cup {"nobody"}
  /\ buffer \in Seq(Nat) /\ batch \in Seq(Nat)
  /\ made \in Nat
  /\ stored \subseteq Nat /\ dropped \subseteq Nat
  /\ refused \in BOOLEAN

\* The lines are in the buffer or in the batch, never in both.
OneHolds ==
  /\ lock = "nobody" => batch = <<>> /\ Len(buffer) <= Cap
  /\ lock # "nobody" => buffer = <<>> /\ Len(batch) <= Cap + 1

WriterInv ==
  /\ WriterTypes
  /\ OneHolds
  /\ InOrder(buffer) /\ InOrder(batch)
  /\ \A d \in dropped : d + Cap <= made

\* The lines a step of the writer may not lose.
Accounted == stored \cup dropped \cup Lines(buffer) \cup Lines(batch)

WriterStep ==
  /\ WriterInv'
  /\ Accounted \subseteq Accounted'
  /\ 1..made' \subseteq 1..made \cup Accounted'

LEMMA InvBounds == WriterInv => OverflowIsBounded
<1> SUFFICES ASSUME WriterInv PROVE OverflowIsBounded
  OBVIOUS
<1> USE WriterAssumption
<1>1. Len(<<>>) = 0 /\ Len(buffer) \in Nat /\ Len(batch) \in Nat
  BY DEF WriterInv, WriterTypes
<1> QED
  BY <1>1 DEF WriterInv, OneHolds, OverflowIsBounded

LEMMA EmptySequence == <<>> \in Seq(Nat) /\ Len(<<>>) = 0 /\ Lines(<<>>) = {} /\ InOrder(<<>>)
BY DEF Lines, InOrder

\* write() appends, and flushes at max_batch.
LEMMA WriteKeeps ==
  ASSUME WriterInv, NEW p \in Tasks, Write(p)
  PROVE  WriterStep
<1> DEFINE s == Append(buffer, made + 1)
<1> USE WriterAssumption
<1>1. /\ WriterTypes /\ lock = "nobody" /\ batch = <<>> /\ Len(buffer) <= Cap
      /\ p # "nobody" /\ made' = made + 1 /\ made' \in Nat
      /\ UNCHANGED <<stored, dropped, refused>>
  BY DEF WriterInv, OneHolds, Write, Tasks, WriterTypes
<1>2. s \in Seq(Nat) /\ Lines(s) = Lines(buffer) \cup {made + 1}
  BY <1>1, LinesOfAppend DEF WriterTypes
<1>3. Len(s) = Len(buffer) + 1 /\ Len(buffer) \in Nat
  BY <1>1 DEF WriterTypes
<1>4. \A i \in 1..Len(s) : s[i] + (Len(s) - i) <= made'
  <2> SUFFICES ASSUME NEW i \in 1..Len(s) PROVE s[i] + (Len(s) - i) <= made'
    OBVIOUS
  <2>1. CASE i <= Len(buffer)
    <3>1. i \in 1..Len(buffer) /\ s[i] = buffer[i] /\ buffer[i] \in Nat
      BY <2>1, <1>1, <1>3 DEF WriterTypes
    <3>2. buffer[i] + (Len(buffer) - i) <= made
      BY <3>1 DEF WriterInv, InOrder
    <3> QED
      BY <3>1, <3>2, <1>1, <1>3 DEF WriterTypes
  <2>2. CASE i = Len(buffer) + 1
    <3>1. s[i] = made + 1
      BY <2>2, <1>1, <1>3 DEF WriterTypes
    <3> QED
      BY <3>1, <2>2, <1>1, <1>3 DEF WriterTypes
  <2> QED
    BY <2>1, <2>2, <1>3
<1>5. \A d \in dropped' : d + Cap <= made'
  BY <1>1 DEF WriterInv, WriterTypes
<1>6. \/ /\ Len(s) >= MaxBatch /\ lock' = p /\ batch' = s /\ buffer' = <<>>
      \/ /\ Len(s) < MaxBatch /\ lock' = lock /\ batch' = batch /\ buffer' = s
  BY <1>1, <1>3 DEF Write, Take
<1> HIDE DEF s
<1>7. InOrder(buffer)' /\ InOrder(batch)'
  BY <1>4, <1>6, <1>1, EmptySequence DEF InOrder
<1>8. WriterTypes'
  BY <1>1, <1>2, <1>6, EmptySequence DEF WriterTypes
<1>8a. OneHolds'
  BY <1>1, <1>3, <1>6, EmptySequence DEF OneHolds
<1>9. Accounted \subseteq Accounted' /\ made + 1 \in Accounted'
  BY <1>1, <1>2, <1>6, EmptySequence DEF Accounted
<1>10. 1..made' \subseteq 1..made \cup Accounted'
  BY <1>9, <1>1 DEF WriterTypes
<1> QED
  BY <1>5, <1>7, <1>8, <1>8a, <1>9, <1>10 DEF WriterStep, WriterInv

LEMMA FlushKeeps ==
  ASSUME WriterInv, NEW p \in Tasks, Flush(p)
  PROVE  WriterStep
<1> USE WriterAssumption
<1>1. /\ WriterTypes /\ lock = "nobody" /\ batch = <<>> /\ Len(buffer) <= Cap
      /\ p # "nobody" /\ UNCHANGED <<made, stored, dropped, refused>>
  BY DEF WriterInv, OneHolds, Flush, Tasks
<1>2. \/ UNCHANGED <<lock, buffer, batch>>
      \/ lock' = p /\ batch' = buffer /\ buffer' = <<>>
  BY DEF Flush, Take
<1>3. Len(buffer) \in Nat
  BY <1>1 DEF WriterTypes
<1>4. WriterTypes'
  BY <1>1, <1>2, EmptySequence DEF WriterTypes
<1>4a. OneHolds'
  BY <1>1, <1>2, <1>3, EmptySequence DEF OneHolds
<1>5. InOrder(buffer)' /\ InOrder(batch)'
  BY <1>1, <1>2, EmptySequence DEF InOrder, WriterInv
<1>6. Accounted \subseteq Accounted'
  BY <1>1, <1>2, EmptySequence DEF Accounted
<1> QED
  BY <1>1, <1>4, <1>4a, <1>5, <1>6 DEF WriterStep, WriterInv

\* A flush that returns: the batch is stored, or goes back to the buffer up to
\* the limit.
LEMMA ReturnKeeps ==
  ASSUME WriterInv, NEW p \in Tasks, FlushReturns(p)
  PROVE  WriterStep
<1> USE WriterAssumption
<1>1. /\ WriterTypes /\ lock = p /\ p # "nobody"
      /\ buffer = <<>> /\ batch \in Seq(Nat)
      /\ made' = made /\ lock' = "nobody" /\ batch' = <<>>
  BY DEF WriterInv, OneHolds, FlushReturns, FlushAccepted, FlushFailed, Tasks, WriterTypes
<1>2. Lines(batch) \subseteq Nat
  BY <1>1 DEF Lines
<1>3. CASE FlushAccepted(p)
  <2>1. WriterTypes'
    BY <1>1, <1>2, <1>3, EmptySequence DEF FlushAccepted, WriterTypes
  <2>1a. OneHolds'
    BY <1>1, <1>3, EmptySequence DEF FlushAccepted, OneHolds
  <2>2. InOrder(buffer)' /\ InOrder(batch)' /\ dropped' = dropped
    BY <1>1, <1>3, EmptySequence DEF FlushAccepted, InOrder
  <2>3. Accounted \subseteq Accounted'
    BY <1>1, <1>3, EmptySequence DEF FlushAccepted, Accounted
  <2> QED
    BY <1>1, <2>1, <2>1a, <2>2, <2>3 DEF WriterStep, WriterInv
<1>4. CASE FlushFailed(p)
  <2>1. batch \o buffer = batch
    BY <1>1, ConcatEmptySeq
  <2>2. /\ buffer' = Kept(batch) /\ dropped' = dropped \cup Lines(CutOff(batch))
        /\ stored' = stored /\ refused' = TRUE
    BY <1>4, <2>1 DEF FlushFailed
  <2>3. /\ Kept(batch) \in Seq(Nat) /\ Len(Kept(batch)) <= Cap
        /\ Lines(batch) \subseteq Lines(Kept(batch)) \cup Lines(CutOff(batch))
        /\ Lines(CutOff(batch)) \subseteq Nat
    BY <1>1, LinesOfKept
  <2>4. WriterTypes'
    BY <1>1, <2>2, <2>3, EmptySequence DEF WriterTypes
  <2>4a. OneHolds'
    BY <1>1, <2>2, <2>3, EmptySequence DEF OneHolds
  <2>5. InOrder(Kept(batch)) /\ \A d \in Lines(CutOff(batch)) : d + Cap <= made
    BY <1>1, KeptInOrder DEF WriterInv, WriterTypes
  <2>6. InOrder(buffer)' /\ InOrder(batch)'
    BY <1>1, <2>2, <2>5, EmptySequence DEF InOrder
  <2>7. \A d \in dropped' : d + Cap <= made'
    BY <1>1, <2>2, <2>5 DEF WriterInv
  <2>8. Accounted \subseteq Accounted'
    BY <1>1, <2>2, <2>3, EmptySequence DEF Accounted
  <2> QED
    BY <1>1, <2>4, <2>4a, <2>6, <2>7, <2>8 DEF WriterStep, WriterInv
<1> QED
  BY <1>3, <1>4 DEF FlushReturns

LEMMA WriterStill ==
  ASSUME WriterInv, UNCHANGED writer
  PROVE  WriterStep
<1>1. WriterInv'
  BY DEF WriterInv, WriterTypes, OneHolds, InOrder, writer
<1> QED
  BY <1>1 DEF WriterStep, Accounted, writer, Lines

(***************************************************************************)
(* The process around it                                                   *)
(***************************************************************************)
\* A cancelled batch appears with the shutdown only.
Orphans ==
  /\ orphan \in Seq(Nat)
  /\ halt = "run" => orphan = <<>> /\ wasted = {}

Places == 1..made \subseteq Accounted \cup Lines(orphan) \cup wasted

Memory == WriterInv /\ Orphans /\ Places

\* What a process begins with.
Fresh ==
  /\ lock = "nobody" /\ buffer = <<>> /\ batch = <<>> /\ made = 0
  /\ stored = {} /\ dropped = {} /\ refused = FALSE /\ orphan = <<>> /\ wasted = {}

LEMMA FreshMemory == Fresh => Memory
<1> SUFFICES ASSUME Fresh PROVE Memory
  OBVIOUS
<1>1. WriterTypes
  BY EmptySequence DEF Fresh, WriterTypes
<1>2. OneHolds
  BY EmptySequence, WriterAssumption DEF Fresh, OneHolds
<1>3. InOrder(buffer) /\ InOrder(batch) /\ \A d \in dropped : d + Cap <= made
  BY EmptySequence DEF Fresh
<1>4. Orphans
  BY EmptySequence DEF Fresh, Orphans
<1>5. 1..made = {}
  BY DEF Fresh
<1> QED
  BY <1>1, <1>2, <1>3, <1>4, <1>5 DEF Memory, WriterInv, Places

LEMMA MemoryInit == Init => Memory
BY FreshMemory DEF Init, WriterInit, Fresh

\* A step of the writer that leaves the cancelled batch alone.
LEMMA WriterStepKeeps ==
  ASSUME Memory, WriterStep, UNCHANGED <<orphan, wasted>>, halt' = "run" => halt = "run"
  PROVE  Memory'
BY DEF Memory, WriterStep, Orphans, Places, Accounted, Lines

LEMMA CancelKeeps ==
  ASSUME Memory, CancelFeatures
  PROVE  Memory'
<1>1. halt = "run" /\ halt' # "run" /\ orphan = <<>> /\ UNCHANGED wasted
  BY DEF CancelFeatures, StopWriter, Memory, Orphans
<1>2. CASE lock = "feat"
  <2>1. /\ orphan' = batch /\ batch' = <<>> /\ lock' = "nobody" /\ buffer = <<>>
        /\ UNCHANGED <<buffer, made, stored, dropped, refused>>
    BY <1>2 DEF CancelFeatures, Memory, WriterInv, OneHolds
  <2>2. WriterTypes'
    BY <2>1, EmptySequence DEF Memory, WriterInv, WriterTypes
  <2>3. OneHolds'
    BY <2>1, EmptySequence, WriterAssumption DEF OneHolds
  <2>4. InOrder(buffer)' /\ InOrder(batch)' /\ \A d \in dropped' : d + Cap <= made'
    BY <2>1, EmptySequence DEF Memory, WriterInv, InOrder
  <2>5. Places'
    BY <2>1, <1>1, EmptySequence DEF Memory, Places, Accounted
  <2>6. Orphans'
    BY <2>1, <1>1 DEF Memory, WriterInv, WriterTypes, Orphans
  <2> QED
    BY <2>2, <2>3, <2>4, <2>5, <2>6 DEF Memory, WriterInv
<1>3. CASE lock # "feat"
  <2>1. UNCHANGED writer /\ UNCHANGED orphan
    BY <1>3 DEF CancelFeatures, writer
  <2> QED
    BY <2>1, <1>1, WriterStill, WriterStepKeeps DEF Memory
<1> QED
  BY <1>2, <1>3

LEMMA OrphanKeeps ==
  ASSUME Memory, OrphanReturns
  PROVE  Memory'
<1>1. /\ orphan # <<>> /\ orphan' = <<>> /\ halt' = halt
      /\ UNCHANGED <<lock, buffer, batch, made, dropped, refused>>
      /\ \/ stored' = stored \cup Lines(orphan) /\ UNCHANGED wasted
         \/ wasted' = wasted \cup Lines(orphan) /\ UNCHANGED stored
  BY DEF OrphanReturns
<1>2. Lines(orphan) \subseteq Nat
  BY DEF Memory, Orphans, Lines
<1>3. WriterInv'
  BY <1>1, <1>2 DEF Memory, WriterInv, WriterTypes, OneHolds, InOrder
<1>4. Orphans'
  BY <1>1, EmptySequence DEF Memory, Orphans
<1>5. Places'
  BY <1>1, EmptySequence DEF Memory, Places, Accounted
<1> QED
  BY <1>3, <1>4, <1>5 DEF Memory

LEMMA RestartKeeps ==
  ASSUME Restart
  PROVE  Memory'
<1>1. Fresh'
  BY DEF Restart, Fresh
<1>2. Fresh' => Memory'
  BY FreshMemory, PTL
<1> QED
  BY <1>1, <1>2

LEMMA MemoryNext ==
  ASSUME Memory, [Next]_vars
  PROVE  Memory'
<1> DEFINE Quiet == UNCHANGED <<writer, orphan, wasted>> /\ (halt' = "run" => halt = "run")
<1>1. ASSUME Quiet PROVE Memory'
  BY <1>1, WriterStill, WriterStepKeeps DEF Memory
<1>2. ASSUME NEW p \in Tasks, Write(p) \/ Flush(p) \/ FlushReturns(p),
             UNCHANGED <<orphan, wasted>>, halt' = "run" => halt = "run"
      PROVE  Memory'
  BY <1>2, WriteKeeps, FlushKeeps, ReturnKeeps, WriterStepKeeps DEF Memory
<1>3. CASE Venue
  BY <1>1, <1>3 DEF Venue, VenueTrades, VenueSnapshots, VenueMoves, VenueGarbles, VenueSends,
       ConnectionDrops, VenueCloses, ConnectionEnds, closing
<1>4. CASE Receiver
  <2>1. CASE WriteGap \/ WriteTrade
    BY <1>2, <2>1 DEF WriteGap, WriteTrade, Tasks, closing
  <2>2. CASE Connect \/ ConnectFails \/ ReceiveBook \/ ReceiveTrade \/ TradeWritten
               \/ ReceiverStops \/ ConnectionNoticed
    BY <1>1, <2>2 DEF Connect, ConnectFails, ReceiveBook, ReceiveTrade, TradeWritten,
         ReceiverStops, ConnectionNoticed, closing
  <2> QED
    BY <1>4, <2>1, <2>2 DEF Receiver
<1>5. CASE Shutdown
  <2>1. CASE LastLoopFlush \/ FinalFlush
    BY <1>2, <2>1 DEF LastLoopFlush, FinalFlush, Tasks
  <2>2. CASE Exit
    BY <1>1, <2>2 DEF Exit
  <2> QED
    BY <1>5, <2>1, <2>2, CancelKeeps, OrphanKeeps DEF Shutdown
<1>6. CASE WriteSample \/ FlushLoop \/ FlushDone
  BY <1>2, <1>6 DEF WriteSample, FlushLoop, FlushDone, Tasks, closing
<1>7. CASE RequestStop \/ Tick \/ Sample \/ UNCHANGED vars
  BY <1>1, <1>7 DEF RequestStop, Tick, Sample, vars, closing
<1> QED
  BY <1>3, <1>4, <1>5, <1>6, <1>7, RestartKeeps DEF Next

\* Only the writer's limit bounds the memory of the capture process: it holds,
\* whatever Influx does, at most Cap + 1 lines, and drops only the oldest
\* (InfluxWriter._flush_now_locked).
THEOREM BufferIsBounded == Spec => []OverflowIsBounded
<1>1. Memory /\ [Next]_vars => Memory'
  BY MemoryNext
<1>2. Memory => OverflowIsBounded
  BY InvBounds DEF Memory
<1> QED
  BY MemoryInit, <1>1, <1>2, PTL DEF Spec

\* No line disappears between the tasks that append, flush, fail and shut
\* down: it is stored, held, dropped by the overflow, or lost with the batch of
\* the cancelled feature task.
THEOREM LinesAreAccountedFor == Spec => []NothingLostQuietly
<1>1. Memory /\ [Next]_vars => Memory'
  BY MemoryNext
<1>2. Memory => NothingLostQuietly
  BY DEF Memory, Places, Accounted, Orphans, NothingLostQuietly, Held
<1> QED
  BY MemoryInit, <1>1, <1>2, PTL DEF Spec

(***************************************************************************)
(* The shutdown                                                            *)
(***************************************************************************)
\* Once it has begun nobody appends, so the last flush takes what there is.
Closing ==
  /\ halt # "run" => rpc = "ended" /\ fpc = "ended"
  /\ halt = "exited" => lock = "nobody"
  /\ halt \in {"closing", "exited"} /\ lock = "nobody" /\ ~refused => buffer = <<>>

LEMMA ClosingNext ==
  ASSUME Memory, Closing, [Next]_vars
  PROVE  Closing'
<1> USE DEF Closing
<1>1. CASE Venue \/ Tick \/ RequestStop
  BY <1>1 DEF Venue, VenueTrades, VenueSnapshots, VenueMoves, VenueGarbles, VenueSends,
       ConnectionDrops, VenueCloses, ConnectionEnds, Tick, RequestStop, writer, receiver, closing
<1>2. CASE Receiver
  BY <1>2 DEF Receiver, Connect, ConnectFails, WriteGap, ReceiveBook, ReceiveTrade, WriteTrade,
       TradeWritten, ReceiverStops, ConnectionNoticed, NextFrame, writer, closing
<1>3. CASE CancelFeatures
  <2>1. halt' \in {"drain", "join"} /\ rpc' = "ended" /\ fpc' = "ended"
    BY <1>3 DEF CancelFeatures, StopWriter, receiver
  <2> QED
    BY <2>1
<1>4. CASE OrphanReturns \/ Exit
  BY <1>4 DEF OrphanReturns, Exit, writer, receiver
<1>5. CASE LastLoopFlush
  BY <1>5 DEF LastLoopFlush, receiver
<1>6. CASE FinalFlush
  BY <1>6 DEF FinalFlush, Flush, Take, receiver
<1>7. CASE Sample \/ WriteSample \/ FlushLoop \/ UNCHANGED vars
  BY <1>7 DEF Sample, WriteSample, FlushLoop, vars, writer, receiver, closing
<1>8. CASE FlushDone
  <2>1. PICK p \in Tasks : FlushReturns(p)
    BY <1>8 DEF FlushDone, Tasks
  <2>2. lock = p /\ lock # "nobody" /\ buffer = <<>>
    BY <2>1 DEF FlushReturns, FlushAccepted, FlushFailed, Tasks, Memory, WriterInv, OneHolds
  <2>3. UNCHANGED <<halt, rpc, fpc>> /\ lock' = "nobody"
    BY <1>8, <2>1 DEF FlushDone, FlushReturns, FlushAccepted, FlushFailed, receiver, closing
  <2>4. refused' = TRUE \/ buffer' = buffer
    BY <2>1 DEF FlushReturns, FlushAccepted, FlushFailed
  <2> QED
    BY <2>2, <2>3, <2>4
<1>9. CASE Restart
  BY <1>9 DEF Restart
<1> QED
  BY <1>1, <1>2, <1>3, <1>4, <1>5, <1>6, <1>7, <1>8, <1>9 DEF Next, Shutdown

\* The order of the shutdown (run's finally block, InfluxWriter.stop): a process
\* whose last flush succeeded leaves nothing behind.
THEOREM ShutdownIsClean == Spec => []CleanExit
<1> DEFINE Inv == Memory /\ Closing
<1>1. Init => Inv
  BY MemoryInit DEF Init, WriterInit, Closing
<1>2. Inv /\ [Next]_vars => Inv'
  BY MemoryNext, ClosingNext
<1>3. Inv => CleanExit
  BY EmptySequence DEF Memory, WriterInv, OneHolds, Closing, CleanExit
<1> QED
  BY <1>1, <1>2, <1>3, PTL DEF Spec

(***************************************************************************)
(* The clocks                                                              *)
(***************************************************************************)
\* What no gap event covers yet is silence since the last message, unless a
\* frame came late.
Clocks ==
  /\ outage \in Nat /\ gap \in Nat /\ late \in BOOLEAN
  /\ silent \in Nat \cup {Never}
  /\ silent = Never => outage = 0
  /\ ~late /\ silent # Never => outage <= silent
  /\ rpc = "gap" /\ conn = "up" /\ ~late => outage <= gap
  /\ rpc \in {"recv", "trade", "mark"} /\ conn = "up" /\ ~late => outage = 0

LEMMA NeverNat == Never \in Int /\ Never \notin Nat
BY DEF Never

LEMMA ClocksInit == Init => Clocks
<1> SUFFICES ASSUME Init PROVE Clocks
  OBVIOUS
<1>1. late \in BOOLEAN
  BY DEF Init
<1>2. outage = 0 /\ gap = 0 /\ silent = Never /\ rpc = "backoff"
  BY DEF Init
<1> QED
  BY <1>1, <1>2 DEF Clocks

LEMMA ClocksNext ==
  ASSUME Clocks, [Next]_vars
  PROVE  Clocks'
<1> USE DEF Clocks
<1>1. CASE Venue
  BY <1>1 DEF Venue, VenueTrades, VenueSnapshots, VenueMoves, VenueGarbles, VenueSends,
       ConnectionDrops, VenueCloses, ConnectionEnds, receiver, clocks
<1>2. CASE Tick
  BY <1>2 DEF Tick, alpaca, Never
<1>3. CASE Receiver
  <2>1. CASE Connect
    BY <2>1 DEF Connect, GapAtConnect, clocks, Never
  <2>2. CASE WriteGap
    <3>1. Uncovered \in Nat /\ Uncovered <= outage /\ (outage <= gap => Uncovered = 0)
      BY DEF Uncovered
    <3> QED
      BY <2>2, <3>1 DEF WriteGap, alpaca
  <2>3. CASE ReceiveBook \/ TradeWritten
    <3>1. late' = (late \/ outage > 0)
      BY <2>3 DEF ReceiveBook, TradeWritten, Mark
    <3>2. late' \in BOOLEAN
      BY <3>1
    <3>3. outage' = outage /\ gap' = gap /\ silent' = 0 /\ rpc' = "recv"
      BY <2>3 DEF ReceiveBook, TradeWritten, Mark, alpaca
    <3>4. ~late' => ~(outage > 0)
      BY <3>1
    <3>5. ~late' => outage = 0
      BY <3>4
    <3> QED
      BY <3>2, <3>3, <3>5, NeverNat
  <2>4. CASE ConnectFails \/ ReceiveTrade \/ WriteTrade \/ ReceiverStops \/ ConnectionNoticed
    BY <2>4 DEF ConnectFails, ReceiveTrade, WriteTrade, ReceiverStops, ConnectionNoticed,
         NextFrame, alpaca, clocks
  <2> QED
    BY <1>3, <2>1, <2>2, <2>3, <2>4 DEF Receiver
<1>4. CASE Restart
  BY <1>4 DEF Restart, Never
<1>5. CASE Shutdown \/ RequestStop \/ Sample \/ WriteSample \/ FlushLoop \/ FlushDone
             \/ UNCHANGED vars
  BY <1>5 DEF Shutdown, CancelFeatures, OrphanReturns, LastLoopFlush, FinalFlush, Exit,
       RequestStop, Sample, WriteSample, FlushLoop, FlushDone, vars, alpaca, receiver, clocks
<1> QED
  BY <1>1, <1>2, <1>3, <1>4, <1>5 DEF Next

\* A reader of the gap events sees every outage of a running process, except
\* what passed before a frame of the old connection was handled
\* (_connect_and_stream, _recv_loop).
THEOREM GapsCoverOutages == Spec => []OutagesAreCovered
<1>1. Clocks /\ [Next]_vars => Clocks'
  BY ClocksNext
<1>2. Clocks => OutagesAreCovered
  BY DEF Clocks, OutagesAreCovered
<1> QED
  BY ClocksInit, <1>1, <1>2, PTL DEF Spec

(***************************************************************************)
(* Types                                                                   *)
(***************************************************************************)
Standing ==
  /\ conn \in {"down", "up", "lost", "closed"}
  /\ rpc \in {"backoff", "gap", "recv", "trade", "mark", "ended"}
  /\ fpc \in {"sleep", "write", "ended"}
  /\ halt \in {"run", "join", "drain", "closing", "exited"}
  /\ stop \in BOOLEAN
  /\ faults \in Nat
  /\ orphan \in Seq(Nat) /\ wasted \subseteq Nat

BookTypes ==
  /\ venue \in Books /\ book \in Books
  /\ {initialized, synced, tainted} \subseteq BOOLEAN
  /\ wire \in Seq(Frames)

LEMMA AppliedType ==
  ASSUME NEW b \in Books, NEW m \in Frames
  PROVE  Applied(b, m) \in Books
<1>1. CASE m.type = "snapshot"
  <2>1. m.book \in Books
    BY <1>1 DEF Frames, Snapshot, Delta, Trade, Malformed
  <2> QED
    BY <1>1, <2>1 DEF Applied
<1>2. CASE m.type = "delta"
  <2>1. m.level \in Levels /\ m.size \in Sizes
    BY <1>2 DEF Frames, Snapshot, Delta, Trade, Malformed
  <2> QED
    BY <1>2, <2>1 DEF Applied, Upsert, Books
<1>3. CASE m.type \notin {"snapshot", "delta"}
  BY <1>3 DEF Applied
<1> QED
  BY <1>1, <1>2, <1>3

LEMMA BooksNext ==
  ASSUME BookTypes, [Next]_vars
  PROVE  BookTypes'
<1> USE DEF BookTypes
<1>1. ASSUME NEW m \in Frames, VenueSends(m)
      PROVE  wire' \in Seq(Frames) /\ UNCHANGED bookvars
  BY <1>1 DEF VenueSends
<1>2. ASSUME NEW l \in Levels, venue' = [venue EXCEPT ![l] = 1 - @]
      PROVE  venue' \in Books /\ venue'[l] \in Sizes
  BY <1>2 DEF Books, Sizes
<1>3. Trade \in Frames /\ Malformed \in Frames /\ Snapshot(venue) \in Frames
  BY DEF Frames
<1>4. CASE Venue
  <2>1. CASE VenueTrades \/ VenueSnapshots
    BY <2>1, <1>1, <1>3 DEF VenueTrades, VenueSnapshots, bookvars
  <2>2. ASSUME NEW l \in Levels, VenueMoves(l) \/ VenueGarbles(l)
        PROVE  BookTypes'
    <3>1. venue' \in Books /\ Delta(l, venue'[l]) \in Frames
      BY <2>2, <1>2 DEF VenueMoves, VenueGarbles, Frames
    <3>2. CASE VenueGarbles(l)
      BY <3>1, <3>2, <1>1, <1>3 DEF VenueGarbles, bookvars
    <3>3. CASE VenueMoves(l)
      BY <3>1, <3>3, <1>1 DEF VenueMoves, bookvars
    <3> QED
      BY <2>2, <3>2, <3>3
  <2>3. CASE ConnectionDrops \/ VenueCloses
    BY <2>3 DEF ConnectionDrops, VenueCloses, ConnectionEnds, bookvars
  <2> QED
    BY <1>4, <2>1, <2>2, <2>3 DEF Venue
<1>5. CASE ReceiveBook
  <2>1. Head(wire) \in Frames /\ wire' \in Seq(Frames) /\ venue' = venue
    BY <1>5, HeadTailProperties DEF ReceiveBook, NextFrame
  <2>2. book' \in Books
    BY <1>5, <2>1, AppliedType DEF ReceiveBook, ApplyBook
  <2>3. {initialized', synced', tainted'} \subseteq BOOLEAN
    BY <1>5 DEF ReceiveBook, ApplyBook
  <2> QED
    BY <2>1, <2>2, <2>3
<1>6. CASE ReceiveTrade \/ ReceiverStops
  BY <1>6, HeadTailProperties DEF ReceiveTrade, ReceiverStops, NextFrame, bookvars
<1>7. CASE Connect \/ ConnectFails \/ WriteGap \/ WriteTrade \/ TradeWritten \/ ConnectionNoticed
  BY <1>7 DEF Connect, ConnectFails, WriteGap, WriteTrade, TradeWritten, ConnectionNoticed,
       alpaca, bookvars
<1>8. CASE Restart
  <2>1. [l \in Levels |-> 0] \in Books
    BY DEF Books, Sizes
  <2> QED
    BY <1>8, <2>1, EmptySeq DEF Restart
<1>9. CASE Shutdown \/ RequestStop \/ Tick \/ Sample \/ WriteSample \/ FlushLoop \/ FlushDone
             \/ UNCHANGED vars
  BY <1>9 DEF Shutdown, CancelFeatures, OrphanReturns, LastLoopFlush, FinalFlush, Exit, Tick,
       RequestStop, Sample, WriteSample, FlushLoop, FlushDone, vars, alpaca, bookvars
<1> QED
  BY <1>4, <1>5, <1>6, <1>7, <1>8, <1>9 DEF Next, Receiver

LEMMA StandingNext ==
  ASSUME Memory, Standing, [Next]_vars
  PROVE  Standing'
<1> USE DEF Standing
<1>1. CASE Venue
  <2>1. conn' \in {conn, "lost", "closed"} /\ UNCHANGED <<receiver, closing>>
        /\ faults' \in {faults, faults + 1}
    BY <1>1 DEF Venue, VenueTrades, VenueSnapshots, VenueMoves, VenueGarbles, VenueSends,
         Fault, ConnectionDrops, VenueCloses, ConnectionEnds
  <2> QED
    BY <2>1 DEF receiver, closing
<1>2. CASE Receiver
  BY <1>2 DEF Receiver, Connect, ConnectFails, WriteGap, ReceiveBook, ReceiveTrade, WriteTrade,
       TradeWritten, ReceiverStops, ConnectionNoticed, Mark, alpaca, closing
<1>3. CASE CancelFeatures
  BY <1>3 DEF CancelFeatures, StopWriter, alpaca, receiver, Memory, WriterInv, WriterTypes
<1>4. CASE OrphanReturns
  <2>1. Lines(orphan) \subseteq Nat /\ <<>> \in Seq(Nat)
    BY EmptySeq DEF Lines
  <2> QED
    BY <1>4, <2>1 DEF OrphanReturns, alpaca, receiver
<1>5. CASE LastLoopFlush \/ FinalFlush \/ Exit
  BY <1>5 DEF LastLoopFlush, FinalFlush, Exit, alpaca, receiver
<1>6. CASE Restart
  BY <1>6, EmptySeq DEF Restart
<1>7. CASE RequestStop \/ Tick \/ Sample \/ WriteSample \/ FlushLoop \/ FlushDone \/ UNCHANGED vars
  BY <1>7 DEF RequestStop, Tick, Sample, WriteSample, FlushLoop, FlushDone, vars, alpaca,
       receiver, closing
<1> QED
  BY <1>1, <1>2, <1>3, <1>4, <1>5, <1>6, <1>7 DEF Next, Shutdown

\* The types of the capture process and its writer.
THEOREM Typed == Spec => []TypeOK
<1> DEFINE Inv == Memory /\ Clocks /\ BookTypes /\ Standing
<1>1. Init => Inv
  <2>1. ASSUME Init PROVE BookTypes
    BY <2>1, EmptySeq DEF Init, BookTypes, Books, Sizes
  <2>2. ASSUME Init PROVE Standing
    BY <2>2, EmptySeq DEF Init, Standing
  <2> QED
    BY <2>1, <2>2, MemoryInit, ClocksInit
<1>2. Inv /\ [Next]_vars => Inv'
  BY MemoryNext, ClocksNext, BooksNext, StandingNext
<1>3. Inv => TypeOK
  BY DEF Memory, WriterInv, WriterTypes, Tasks, Clocks, BookTypes, Standing, TypeOK
<1> QED
  BY <1>1, <1>2, <1>3, PTL DEF Spec

(***************************************************************************)
(* The book                                                                *)
(***************************************************************************)
\* A replay is a run: the book after each frame.
LEMMA ReplayRun ==
  ASSUME NEW b \in Books, NEW s \in Seq(Frames)
  PROVE  \E f \in [0..Len(s) -> Books] :
           /\ f[0] = b
           /\ \A i \in 1..Len(s) : f[i] = Applied(f[i - 1], s[i])
           /\ f[Len(s)] = Replayed(b, s)
<1> DEFINE n == Len(s)
           step == [p \in Books \X Frames |-> Applied(p[1], p[2])]
           P(h) == h = [t \in SUBSET (DOMAIN s) |->
                          IF t = {} THEN b ELSE Applied(h[t \ {Max(t)}], s[Max(t)])]
<1>1. n \in Nat /\ DOMAIN s = 1..n /\ s \in [1..n -> Frames]
  OBVIOUS
<1>2. step \in [Books \X Frames -> Books]
  BY AppliedType
<1>3. \A c \in Books, m \in Frames : step[<<c, m>>] = Applied(c, m)
  OBVIOUS
<1> HIDE DEF n, step
<1>0. IsStep(n, Books, Frames, b, step, s)
  BY <1>1, <1>2 DEF IsStep
<1>4. \A t \in SUBSET (1..n) : t # {} => Max(t) \in 1..n /\ t \ {Max(t)} \in SUBSET (1..n)
  BY <1>1, MaxUpTo
<1>5. \E h : P(h)
  <2>1. PICK it \in [SUBSET (1..n) -> Books] : IsFold(it, n, b, step, s)
    <3> HIDE DEF P
    <3> QED
      BY <1>0, FoldExists
  <2>2. ASSUME NEW t \in SUBSET (1..n), t # {}
        PROVE  step[<<it[t \ {Max(t)}], s[Max(t)]>>] = Applied(it[t \ {Max(t)}], s[Max(t)])
    <3>1. it[t \ {Max(t)}] \in Books /\ s[Max(t)] \in Frames
      BY <1>1, <1>4, <2>2
    <3> QED
      BY <1>3, <3>1
  <2>3. it = [t \in SUBSET (1..n) |->
                IF t = {} THEN b ELSE Applied(it[t \ {Max(t)}], s[Max(t)])]
    BY <2>1, <2>2 DEF IsFold
  <2>4. P(it)
    BY <1>1, <2>3
  <2> QED
    BY <2>4
<1>6. P(CHOOSE h : P(h))
  <2> HIDE DEF P
  <2> QED
    BY <1>5
<1>7. Replayed(b, s) = (CHOOSE h : P(h))[DOMAIN s]
  BY DEF Replayed, FoldLeft, MapThenFoldSet
<1>8. PICK h : P(h) /\ Replayed(b, s) = h[1..n]
  <2> HIDE DEF P
  <2> QED
    BY <1>1, <1>6, <1>7
<1>9. h[{}] = b
  BY <1>1, <1>8
<1>10. ASSUME NEW t \in SUBSET (1..n), t # {}, h[t \ {Max(t)}] \in Books
       PROVE  h[t] = step[<<h[t \ {Max(t)}], s[Max(t)]>>]
  <2>1. h[t] = Applied(h[t \ {Max(t)}], s[Max(t)])
    BY <1>1, <1>8, <1>10
  <2>2. s[Max(t)] \in Frames
    BY <1>1, <1>4, <1>10
  <2> QED
    BY <1>3, <1>10, <2>1, <2>2
<1>11. PICK f \in [0..n -> Books] : IsRun(f, n, b, step, s) /\ f[n] = h[1..n]
  <2>1. IsFoldOn(h, Books, n, b, step, s)
    BY <1>9, <1>10 DEF IsFoldOn
  <2> HIDE DEF P
  <2> QED
    BY <1>0, <2>1, FoldIsRun
<1>12. ASSUME NEW i \in 1..n PROVE f[i] = Applied(f[i - 1], s[i])
  <2>1. i - 1 \in 0..n
    BY <1>1
  <2>2. f[i - 1] \in Books /\ s[i] \in Frames
    BY <1>1, <2>1
  <2> QED
    BY <1>3, <1>11, <2>2 DEF IsRun
<1> QED
  BY <1>8, <1>11, <1>12 DEF n, IsRun

\* The replay of a longer sequence, by its last frame and by its first.
LEMMA ReplayAppend ==
  ASSUME NEW b \in Books, NEW s \in Seq(Frames), NEW m \in Frames
  PROVE  Replayed(b, Append(s, m)) = Applied(Replayed(b, s), m)
<1> DEFINE n == Len(s)
           q == Append(s, m)
<1>1. /\ q \in Seq(Frames) /\ Len(q) = n + 1 /\ n \in Nat
      /\ q[n + 1] = m /\ \A i \in 1..n : q[i] = s[i]
  BY AppendProperties
<1> HIDE DEF n, q
<1>2. PICK f : /\ f[0] = b
               /\ \A i \in 1..n : f[i] = Applied(f[i - 1], s[i])
               /\ f[n] = Replayed(b, s)
  BY ReplayRun DEF n
<1>3. PICK g : /\ g[0] = b
               /\ \A i \in 1..Len(q) : g[i] = Applied(g[i - 1], q[i])
               /\ g[Len(q)] = Replayed(b, q)
  BY <1>1, ReplayRun
<1>4. \A i \in 1..n : f[i - 1] = g[i - 1] => f[i] = g[i]
  BY <1>1, <1>2, <1>3
<1>5. f[n] = g[n]
  <2>1. f[0] = g[0] /\ n \in 0..n
    BY <1>1, <1>2, <1>3
  <2>2. SameSteps(f, g, n)
    BY <1>1, <1>4, <2>1 DEF SameSteps
  <2>3. \A i \in 0..n : f[i] = g[i]
    BY <2>2, RunsAgree
  <2> QED
    BY <2>1, <2>3
<1>6. g[n + 1] = Applied(g[n], m)
  <2>1. n + 1 \in 1..n + 1 /\ n + 1 - 1 = n
    BY <1>1
  <2> QED
    BY <1>1, <1>3, <2>1
<1>7. Replayed(b, q) = Applied(Replayed(b, s), m)
  BY <1>1, <1>2, <1>3, <1>5, <1>6
<1> QED
  BY <1>7 DEF q

LEMMA ReplayHead ==
  ASSUME NEW b \in Books, NEW s \in Seq(Frames), s # <<>>
  PROVE  Replayed(b, s) = Replayed(Applied(b, Head(s)), Tail(s))
<1> DEFINE n == Len(Tail(s))
           c == Applied(b, Head(s))
<1>1. /\ Head(s) \in Frames /\ Head(s) = s[1] /\ Tail(s) \in Seq(Frames) /\ n \in Nat
      /\ Len(s) = n + 1 /\ \A i \in 1..n : Tail(s)[i] = s[i + 1]
  BY HeadTailProperties
<1>2. c \in Books
  BY <1>1, AppliedType
<1> HIDE DEF n, c
<1>3. PICK f : /\ f[0] = b
               /\ \A i \in 1..Len(s) : f[i] = Applied(f[i - 1], s[i])
               /\ f[Len(s)] = Replayed(b, s)
  BY ReplayRun
<1>4. PICK g : /\ g[0] = c
               /\ \A i \in 1..n : g[i] = Applied(g[i - 1], Tail(s)[i])
               /\ g[n] = Replayed(c, Tail(s))
  BY <1>1, <1>2, ReplayRun DEF n
<1> DEFINE e == [i \in 0..n |-> f[i + 1]]
<1>5. e[0] = c /\ e[n] = f[n + 1]
  <2>1. 1 \in 1..n + 1 /\ 1 - 1 = 0 /\ 0 \in 0..n /\ n \in 0..n
    BY <1>1
  <2>2. f[1] = Applied(f[0], s[1])
    BY <1>3, <2>1
  <2> QED
    BY <1>1, <1>3, <2>1, <2>2 DEF c
<1>6. ASSUME NEW i \in 1..n PROVE e[i] = Applied(e[i - 1], Tail(s)[i])
  <2>1. i + 1 \in 1..n + 1 /\ i \in 0..n /\ i - 1 \in 0..n /\ i + 1 - 1 = i /\ i - 1 + 1 = i
    BY <1>1
  <2>2. e[i] = f[i + 1] /\ e[i - 1] = f[i] /\ Tail(s)[i] = s[i + 1]
    BY <1>1, <2>1
  <2>3. f[i + 1] = Applied(f[i], s[i + 1])
    BY <1>1, <1>3, <2>1
  <2> QED
    BY <2>2, <2>3
<1> HIDE DEF e
<1>7. \A i \in 1..n : e[i - 1] = g[i - 1] => e[i] = g[i]
  BY <1>4, <1>6
<1>8. e[n] = g[n]
  <2>1. e[0] = g[0] /\ n \in 0..n
    BY <1>1, <1>4, <1>5
  <2>2. SameSteps(e, g, n)
    BY <1>1, <1>7, <2>1 DEF SameSteps
  <2>3. \A i \in 0..n : e[i] = g[i]
    BY <2>2, RunsAgree
  <2> QED
    BY <2>1, <2>3
<1>9. Replayed(b, s) = Replayed(c, Tail(s))
  BY <1>1, <1>3, <1>4, <1>5, <1>8
<1> QED
  BY <1>9 DEF c

LEMMA ReplayNothing ==
  ASSUME NEW b \in Books
  PROVE  Replayed(b, <<>>) = b
<1> DEFINE s == <<>>
<1>1. s \in Seq(Frames) /\ Len(s) = 0
  BY EmptySeq
<1> HIDE DEF s
<1>0. s \in Seq(Frames)
  BY <1>1
<1>2. PICK f : /\ f[0] = b
               /\ \A i \in 1..Len(s) : f[i] = Applied(f[i - 1], s[i])
               /\ f[Len(s)] = Replayed(b, s)
  BY <1>0, ReplayRun
<1>3. Replayed(b, s) = b
  BY <1>1, <1>2
<1> QED
  BY <1>3 DEF s

\* The frames turn the book b into v, unless one of them is malformed.
Follows(b, frames, v) == Malformed \notin Lines(frames) => Replayed(b, frames) = v

\* So they do from every snapshot among them on.
SnapshotsFollow(frames, v) ==
  \A k \in 1..Len(frames) :
    frames[k].type = "snapshot"
      => Follows(frames[k].book, SubSeq(frames, k + 1, Len(frames)), v)

LEMMA FramesOfAppend ==
  ASSUME NEW s \in Seq(Frames), NEW m \in Frames
  PROVE  Malformed \notin Lines(Append(s, m)) => Malformed \notin Lines(s) /\ m # Malformed
<1> DEFINE q == Append(s, m)
<1>1. /\ Len(q) = Len(s) + 1 /\ Len(s) \in Nat
      /\ q[Len(s) + 1] = m /\ \A i \in 1..Len(s) : q[i] = s[i]
  BY AppendProperties
<1> HIDE DEF q
<1>2. Lines(s) \subseteq Lines(q) /\ m \in Lines(q)
  BY <1>1 DEF Lines
<1> QED
  BY <1>2 DEF q

LEMMA FramesOfTail ==
  ASSUME NEW s \in Seq(Frames), s # <<>>, Head(s) # Malformed
  PROVE  Malformed \notin Lines(Tail(s)) => Malformed \notin Lines(s)
<1>1. /\ Head(s) = s[1] /\ Len(Tail(s)) + 1 = Len(s) /\ Len(s) \in Nat
      /\ \A i \in 1..Len(Tail(s)) : Tail(s)[i] = s[i + 1]
  BY HeadTailProperties
<1>2. ASSUME NEW i \in 1..Len(s), s[i] = Malformed PROVE Malformed \in Lines(Tail(s))
  <2>1. i - 1 \in 1..Len(Tail(s)) /\ i - 1 + 1 = i
    BY <1>1, <1>2
  <2> QED
    BY <1>1, <1>2, <2>1 DEF Lines
<1> QED
  BY <1>2 DEF Lines

\* A frame that is sent takes what the earlier ones lead to, to the new book.
LEMMA FollowsAppend ==
  ASSUME NEW b \in Books, NEW s \in Seq(Frames), NEW v, NEW w, NEW m \in Frames,
         Follows(b, s, v), m # Malformed => Applied(v, m) = w
  PROVE  Follows(b, Append(s, m), w)
BY ReplayAppend, FramesOfAppend DEF Follows

LEMMA SnapshotsAppend ==
  ASSUME NEW s \in Seq(Frames), NEW v, NEW w \in Books, NEW m \in Frames,
         SnapshotsFollow(s, v),
         m # Malformed => Applied(v, m) = w,
         m.type = "snapshot" => m.book = w
  PROVE  SnapshotsFollow(Append(s, m), w)
<1> DEFINE q == Append(s, m)
           n == Len(s)
<1>1. /\ q \in Seq(Frames) /\ Len(q) = n + 1 /\ n \in Nat
      /\ q[n + 1] = m /\ \A i \in 1..n : q[i] = s[i]
  BY AppendProperties
<1>2. SUFFICES ASSUME NEW k \in 1..n + 1, q[k].type = "snapshot"
               PROVE  Follows(q[k].book, SubSeq(q, k + 1, n + 1), w)
  BY <1>1 DEF SnapshotsFollow
<1>3. CASE k = n + 1
  <2>1. SubSeq(q, k + 1, n + 1) = <<>>
    BY <1>1, <1>3, SubSeqEmpty
  <2>2. q[k].book = w
    BY <1>1, <1>2, <1>3
  <2> HIDE DEF q, n
  <2> QED
    BY <2>1, <2>2, ReplayNothing DEF Follows
<1>4. CASE k \in 1..n
  <2> DEFINE r == SubSeq(s, k + 1, n)
  <2>1. q[k] = s[k] /\ s[k] \in Frames /\ k + 1 \in Int /\ n \in Int
    BY <1>1, <1>4
  <2>2. s[k].book \in Books
    BY <1>2, <2>1 DEF Frames, Snapshot, Delta, Trade, Malformed
  <2>3. r \in Seq(Frames) /\ SubSeq(q, k + 1, n + 1) = Append(r, m)
    <3>1. \A i \in k + 1..n : s[i] \in Frames
      BY <1>1, <1>4
    <3>2. /\ r \in Seq(Frames) /\ Len(r) = n - k
          /\ \A i \in 1..n - k : r[i] = s[k + i]
      <4>1. k \in Int /\ n \in Int /\ k + 1 \in Int
        BY <1>4, <2>1
      <4> HIDE DEF n, q
      <4>2. /\ r \in Seq(Frames)
            /\ Len(r) = IF k + 1 <= n THEN n - (k + 1) + 1 ELSE 0
            /\ \A i \in 1..n - (k + 1) + 1 : r[i] = s[k + 1 + i - 1]
        BY <3>1, <4>1, SubSeqProperties
      <4> HIDE DEF r
      <4>3. n - (k + 1) + 1 = n - k /\ (k + 1 <= n \/ n - k = 0)
        BY <1>1, <1>4
      <4>4. \A i \in 1..n - k : k + 1 + i - 1 = k + i
        BY <1>1, <1>4
      <4> QED
        BY <4>2, <4>3, <4>4
    <3>3. /\ SubSeq(q, k + 1, n + 1) \in Seq(Frames)
          /\ Len(SubSeq(q, k + 1, n + 1)) = n + 1 - k
          /\ \A i \in 1..n + 1 - k : SubSeq(q, k + 1, n + 1)[i] = q[k + i]
      <4> DEFINE u == SubSeq(q, k + 1, n + 1)
      <4>0. \A i \in k + 1..n + 1 : q[i] \in Frames
        BY <1>1, <1>4
      <4>1. k \in Int /\ n \in Int /\ k + 1 \in Int /\ n + 1 \in Int
        BY <1>4, <2>1
      <4> HIDE DEF n, q
      <4>2. /\ u \in Seq(Frames)
            /\ Len(u) = IF k + 1 <= n + 1 THEN n + 1 - (k + 1) + 1 ELSE 0
            /\ \A i \in 1..n + 1 - (k + 1) + 1 : u[i] = q[k + 1 + i - 1]
        BY <4>0, <4>1, SubSeqProperties
      <4> HIDE DEF u
      <4>3. n + 1 - (k + 1) + 1 = n + 1 - k /\ k + 1 <= n + 1
        BY <1>1, <1>4
      <4>4. \A i \in 1..n + 1 - k : k + 1 + i - 1 = k + i
        BY <1>1, <1>4
      <4>5. u \in Seq(Frames) /\ Len(u) = n + 1 - k /\ \A i \in 1..n + 1 - k : u[i] = q[k + i]
        BY <4>2, <4>3, <4>4
      <4> QED
        BY <4>5 DEF u
    <3>4. /\ Append(r, m) \in Seq(Frames) /\ Len(Append(r, m)) = n - k + 1
          /\ \A i \in 1..n - k : Append(r, m)[i] = r[i]
          /\ Append(r, m)[n - k + 1] = m
      BY <3>2, AppendProperties
    <3> HIDE DEF q, n, r
    <3>5. ASSUME NEW i \in 1..n + 1 - k PROVE SubSeq(q, k + 1, n + 1)[i] = Append(r, m)[i]
      <4>1. CASE i \in 1..n - k
        <5>1. k + i \in 1..n
          BY <1>1, <1>4, <4>1
        <5> QED
          BY <1>1, <3>2, <3>3, <3>4, <4>1, <5>1
      <4>2. CASE i = n - k + 1
        <5>1. k + i = n + 1
          BY <1>1, <1>4, <4>2
        <5> QED
          BY <1>1, <3>3, <3>4, <4>2, <5>1
      <4>3. n \in Int /\ k \in Int /\ i \in Int /\ 1 <= i /\ i <= n + 1 - k
        BY <1>4, <2>1
      <4>4. i <= n - k \/ i = n - k + 1
        BY <4>3
      <4>5. i \in 1..n - k \/ i = n - k + 1
        BY <4>3, <4>4
      <4> QED
        BY <4>1, <4>2, <4>5
    <3>6. SubSeq(q, k + 1, n + 1) = Append(r, m)
      <4>1. Len(SubSeq(q, k + 1, n + 1)) = Len(Append(r, m))
        BY <1>1, <1>4, <3>3, <3>4
      <4>2. \A i \in 1..Len(SubSeq(q, k + 1, n + 1)) : SubSeq(q, k + 1, n + 1)[i] = Append(r, m)[i]
        BY <3>3, <3>5
      <4> QED
        BY <3>3, <3>4, <4>1, <4>2, SeqEqual
    <3> QED
      BY <3>2, <3>6
  <2>4. Follows(s[k].book, r, v)
    BY <1>2, <1>4, <2>1 DEF SnapshotsFollow
  <2> HIDE DEF q, n, r
  <2>5. Follows(s[k].book, Append(r, m), w)
    BY <2>2, <2>3, <2>4, FollowsAppend
  <2> QED
    BY <2>1, <2>3, <2>5
<1> QED
  BY <1>1, <1>3, <1>4

\* A frame that is read is applied to the book; a snapshot brings its own.
LEMMA FollowsTail ==
  ASSUME NEW b \in Books, NEW s \in Seq(Frames), s # <<>>, NEW v,
         Follows(b, s, v), Head(s) # Malformed
  PROVE  Follows(Applied(b, Head(s)), Tail(s), v)
BY ReplayHead, FramesOfTail DEF Follows

LEMMA SnapshotsTail ==
  ASSUME NEW s \in Seq(Frames), s # <<>>, NEW v, SnapshotsFollow(s, v)
  PROVE  /\ SnapshotsFollow(Tail(s), v)
         /\ Head(s).type = "snapshot" => Follows(Head(s).book, Tail(s), v)
<1> DEFINE n == Len(s)
<1>1. /\ Head(s) = s[1] /\ Len(Tail(s)) = n - 1 /\ n \in Nat /\ n > 0
      /\ \A i \in 1..n - 1 : Tail(s)[i] = s[i + 1]
  BY HeadTailProperties
<1>2. Tail(s) = SubSeq(s, 2, n)
  BY TailIsSubSeq
<1>3. Head(s).type = "snapshot" => Follows(Head(s).book, Tail(s), v)
  <2>1. 1 \in 1..n /\ 1 + 1 = 2
    BY <1>1
  <2>2. s[1].type = "snapshot" => Follows(s[1].book, SubSeq(s, 1 + 1, n), v)
    BY <2>1 DEF SnapshotsFollow
  <2> QED
    BY <1>1, <1>2, <2>1, <2>2
<1>4. ASSUME NEW k \in 1..n - 1, Tail(s)[k].type = "snapshot"
      PROVE  Follows(Tail(s)[k].book, SubSeq(Tail(s), k + 1, n - 1), v)
  <2>1. k + 1 \in 1..n /\ Tail(s)[k] = s[k + 1]
    BY <1>1
  <2>2. Follows(s[k + 1].book, SubSeq(s, k + 2, n), v)
    BY <1>4, <2>1 DEF SnapshotsFollow
  <2>3. SubSeq(Tail(s), k + 1, n - 1) = SubSeq(s, k + 2, n)
    <3> DEFINE x == SubSeq(Tail(s), k + 1, n - 1)
               y == SubSeq(s, k + 2, n)
    <3>1. (\A i \in k + 1..n - 1 : Tail(s)[i] \in Frames) /\ (\A i \in k + 2..n : s[i] \in Frames)
      BY <1>1, <2>1
    <3>2. k + 1 \in Int /\ k + 2 \in Int /\ n - 1 \in Int /\ n \in Int
      BY <1>1
    <3>3. /\ x \in Seq(Frames)
          /\ Len(x) = IF k + 1 <= n - 1 THEN n - 1 - (k + 1) + 1 ELSE 0
          /\ \A i \in 1..n - 1 - (k + 1) + 1 : x[i] = Tail(s)[k + 1 + i - 1]
      BY <3>1, <3>2, SubSeqProperties
    <3>4. /\ y \in Seq(Frames)
          /\ Len(y) = IF k + 2 <= n THEN n - (k + 2) + 1 ELSE 0
          /\ \A i \in 1..n - (k + 2) + 1 : y[i] = s[k + 2 + i - 1]
      BY <3>1, <3>2, SubSeqProperties
    <3> HIDE DEF x, y, n
    <3>5. Len(x) = n - 1 - k /\ Len(y) = n - 1 - k
      BY <1>1, <2>1, <3>3, <3>4
    <3>6. ASSUME NEW i \in 1..Len(x) PROVE x[i] = y[i]
      <4>1. k + i \in 1..n - 1 /\ i \in 1..n - 1 - (k + 1) + 1 /\ i \in 1..n - (k + 2) + 1
        BY <1>1, <2>1, <3>5
      <4>0. k + 1 + i - 1 = k + i /\ k + 2 + i - 1 = k + i + 1
        BY <4>1, <2>1, <1>1
      <4>2. x[i] = Tail(s)[k + i]
        BY <3>3, <4>0, <4>1
      <4>3. y[i] = s[k + i + 1]
        BY <3>4, <4>0, <4>1
      <4> QED
        BY <1>1, <4>1, <4>2, <4>3
    <3>7. x = y
      BY <3>3, <3>4, <3>5, <3>6, SeqEqual
    <3> QED
      BY <3>7 DEF x, y
  <2> QED
    BY <2>1, <2>2, <2>3
<1> QED
  BY <1>1, <1>3, <1>4 DEF SnapshotsFollow

\* The book is in step with the venue: what has been sent since the last
\* snapshot of this connection leads from it to the venue's book, and nothing of
\* an earlier connection is left when a new one is made.
InStep ==
  /\ rpc = "backoff" => wire = <<>> /\ conn = "down"
  /\ synced => initialized
  /\ conn = "up" =>
       /\ SnapshotsFollow(wire, venue)
       /\ synced /\ ~tainted => Follows(book, wire, venue)

LEMMA InStepInit == Init => InStep
BY DEF Init, InStep

\* What the venue sends continues the frames before it.
LEMMA SendKeepsStep ==
  ASSUME BookTypes, InStep, NEW m \in Frames, VenueSends(m), venue' \in Books,
         m # Malformed => Applied(venue, m) = venue',
         m.type = "snapshot" => m.book = venue'
  PROVE  InStep'
<1>1. wire \in Seq(Frames) /\ book \in Books
  BY DEF BookTypes
<1>2. /\ wire' = Append(wire, m) /\ conn' = "up" /\ conn = "up"
      /\ UNCHANGED <<rpc, book, initialized, synced, tainted>> /\ rpc # "backoff"
  BY DEF VenueSends, receiver, bookvars, InStep
<1>3. PICK w \in Books : w = venue'
  OBVIOUS
<1>4. SnapshotsFollow(Append(wire, m), w)
  BY <1>1, <1>2, <1>3, SnapshotsAppend DEF InStep
<1>5. synced /\ ~tainted => Follows(book, Append(wire, m), w)
  BY <1>1, <1>2, <1>3, FollowsAppend DEF InStep
<1> QED
  BY <1>2, <1>3, <1>4, <1>5 DEF InStep

LEMMA VenueKeepsStep ==
  ASSUME BookTypes, InStep, Venue
  PROVE  InStep'
<1>1. venue \in Books
  BY DEF BookTypes
<1>2. CASE VenueTrades
  <2>1. Trade \in Frames /\ Applied(venue, Trade) = venue /\ Trade.type # "snapshot"
    BY DEF Frames, Trade, Applied
  <2> QED
    BY <1>1, <1>2, <2>1, SendKeepsStep DEF VenueTrades
<1>3. CASE VenueSnapshots
  <2>1. /\ Snapshot(venue) \in Frames /\ Applied(venue, Snapshot(venue)) = venue
        /\ Snapshot(venue).book = venue
    BY <1>1 DEF Frames, Snapshot, Applied
  <2> QED
    BY <1>1, <1>3, <2>1, SendKeepsStep DEF VenueSnapshots
<1>4. ASSUME NEW l \in Levels, venue' = [venue EXCEPT ![l] = 1 - @]
      PROVE  /\ venue' \in Books /\ venue'[l] \in Sizes
             /\ venue' = [venue EXCEPT ![l] = venue'[l]]
  BY <1>1, <1>4 DEF Books, Sizes
<1>5. ASSUME NEW l \in Levels, VenueMoves(l) PROVE InStep'
  <2>1. /\ venue' \in Books /\ venue'[l] \in Sizes
        /\ venue' = [venue EXCEPT ![l] = venue'[l]]
    BY <1>4, <1>5 DEF VenueMoves
  <2>2. CASE conn = "up"
    <3>1. PICK z \in Sizes : z = venue'[l]
      BY <2>1
    <3>2. /\ Delta(l, z) \in Frames /\ Delta(l, z).type # "snapshot"
          /\ Applied(venue, Delta(l, z)) = [venue EXCEPT ![l] = z]
      BY DEF Frames, Delta, Applied, Upsert
    <3>3. VenueSends(Delta(l, z))
      BY <1>5, <2>2, <3>1 DEF VenueMoves
    <3> QED
      BY <2>1, <3>1, <3>2, <3>3, SendKeepsStep
  <2>3. CASE conn # "up"
    <3>1. UNCHANGED <<conn, wire, rpc, synced, initialized>>
      BY <1>5, <2>3 DEF VenueMoves, VenueSends, receiver, bookvars
    <3> QED
      BY <2>3, <3>1 DEF InStep
  <2> QED
    BY <2>2, <2>3
<1>6. ASSUME NEW l \in Levels, VenueGarbles(l) PROVE InStep'
  <2>1. venue' \in Books /\ VenueSends(Malformed)
    BY <1>4, <1>6 DEF VenueGarbles
  <2>2. Malformed \in Frames /\ Malformed.type # "snapshot"
    BY DEF Frames, Malformed
  <2> QED
    BY <2>1, <2>2, SendKeepsStep
<1>7. CASE ConnectionDrops \/ VenueCloses
  <2>1. /\ conn' # "up" /\ conn = "up"
        /\ UNCHANGED <<rpc, initialized, synced>>
    BY <1>7 DEF ConnectionDrops, VenueCloses, ConnectionEnds, receiver, bookvars
  <2> QED
    BY <2>1 DEF InStep
<1> QED
  BY <1>2, <1>3, <1>5, <1>6, <1>7 DEF Venue

\* What the receiver reads is applied, or changes no book.
LEMMA ReadKeepsStep ==
  ASSUME BookTypes, InStep, ReceiveBook \/ ReceiveTrade
  PROVE  InStep'
<1>1. /\ wire \in Seq(Frames) /\ wire # <<>> /\ wire' = Tail(wire) /\ book \in Books
      /\ rpc' # "backoff" /\ UNCHANGED <<conn, venue>>
  BY DEF ReceiveBook, ReceiveTrade, NextFrame, Mark, BookTypes
<1>2. PICK m \in Frames : m = Head(wire)
  BY <1>1, HeadTailProperties
<1>3. conn = "up" => SnapshotsFollow(wire', venue')
  BY <1>1, SnapshotsTail DEF InStep
<1>4. CASE ReceiveTrade
  <2>1. m = Trade /\ UNCHANGED <<book, synced, initialized, tainted>> /\ m # Malformed
    BY <1>2, <1>4 DEF ReceiveTrade, bookvars, Trade, Malformed
  <2>2. Applied(book, m) = book
    BY <2>1 DEF Applied, Trade
  <2>3. conn = "up" /\ synced /\ ~tainted => Follows(book, Tail(wire), venue)
    BY <1>1, <1>2, <2>1, <2>2, FollowsTail DEF InStep
  <2> QED
    BY <1>1, <1>3, <2>1, <2>3 DEF InStep
<1>5. CASE ReceiveBook
  <2>1. ApplyBook(m)
    BY <1>2, <1>5 DEF ReceiveBook
  <2>2. CASE m.type = "snapshot"
    <3>1. /\ book' = m.book /\ initialized' = TRUE /\ synced' = TRUE
      BY <2>1, <2>2 DEF ApplyBook, Applied
    <3>2. conn = "up" => Follows(m.book, Tail(wire), venue)
      BY <1>1, <1>2, <2>2, SnapshotsTail DEF InStep
    <3> QED
      BY <1>1, <1>3, <3>1, <3>2 DEF InStep
  <2>3. CASE m.type # "snapshot"
    <3>1. /\ book' = IF initialized THEN Applied(book, m) ELSE book
          /\ initialized' = initialized /\ synced' = synced
          /\ tainted' = (tainted \/ m.type = "bad")
      BY <2>1, <2>3 DEF ApplyBook, BookTypes
    <3>2. m.type # "bad" => m # Malformed
      BY DEF Malformed
    <3>3. ASSUME conn = "up", synced', ~tainted'
          PROVE  Follows(book', Tail(wire), venue)
      <4>1. synced /\ ~tainted /\ initialized /\ m # Malformed
        BY <3>1, <3>2, <3>3 DEF InStep
      <4>2. Follows(book, wire, venue)
        BY <3>3, <4>1 DEF InStep
      <4>3. Follows(Applied(book, m), Tail(wire), venue)
        BY <1>1, <1>2, <4>1, <4>2, FollowsTail
      <4> QED
        BY <3>1, <4>1, <4>3
    <3>4. synced' => initialized'
      BY <3>1 DEF InStep
    <3> QED
      BY <1>1, <1>3, <3>3, <3>4 DEF InStep
  <2> QED
    BY <2>2, <2>3
<1> QED
  BY <1>4, <1>5

LEMMA InStepNext ==
  ASSUME BookTypes, InStep, [Next]_vars
  PROVE  InStep'
<1>1. CASE Venue
  BY <1>1, VenueKeepsStep
<1>2. CASE ReceiveBook \/ ReceiveTrade
  BY <1>2, ReadKeepsStep
<1>3. CASE Connect
  <2>1. /\ wire' = <<>> /\ rpc' # "backoff" /\ synced' = FALSE
    BY <1>3 DEF Connect, InStep
  <2>2. SnapshotsFollow(<<>>, venue')
    BY DEF SnapshotsFollow
  <2> QED
    BY <2>1, <2>2 DEF InStep
<1>4. CASE ConnectionNoticed \/ ReceiverStops
  <2>1. conn' = "down" /\ (rpc' = "backoff" => wire' = <<>>) /\ UNCHANGED <<synced, initialized>>
    BY <1>4 DEF ConnectionNoticed, ReceiverStops, bookvars
  <2> QED
    BY <2>1 DEF InStep
<1>5. CASE Restart
  BY <1>5 DEF Restart, InStep
\* Steps that leave the connection, the frames and the books alone.
<1>6. ASSUME UNCHANGED <<conn, wire, venue, book, initialized, synced, tainted>>,
             rpc' = "backoff" => rpc = "backoff"
      PROVE  InStep'
  BY <1>6 DEF InStep
<1>7. CASE ConnectFails \/ WriteGap \/ WriteTrade \/ TradeWritten
  BY <1>6, <1>7 DEF ConnectFails, WriteGap, WriteTrade, TradeWritten, Mark, alpaca, bookvars
<1>8. CASE Shutdown \/ RequestStop \/ Tick \/ Sample \/ WriteSample \/ FlushLoop \/ FlushDone
             \/ UNCHANGED vars
  BY <1>6, <1>8 DEF Shutdown, CancelFeatures, OrphanReturns, LastLoopFlush, FinalFlush, Exit, Tick,
       RequestStop, Sample, WriteSample, FlushLoop, FlushDone, vars, alpaca, receiver, bookvars
<1> QED
  BY <1>1, <1>2, <1>3, <1>4, <1>5, <1>7, <1>8 DEF Next, Receiver

\* Whatever connections break and come back, once one of them has brought a
\* snapshot the book is the venue's, up to the frames in flight
\* (OrderBook.apply).
THEOREM BookIsTheVenues == Spec => []BookIsVenues
<1> DEFINE Inv == BookTypes /\ InStep
<1>1. Init => Inv
  <2>1. ASSUME Init PROVE BookTypes
    BY <2>1, EmptySeq DEF Init, BookTypes, Books, Sizes
  <2> QED
    BY <2>1, InStepInit
<1>2. Inv /\ [Next]_vars => Inv'
  BY BooksNext, InStepNext
<1>3. Inv => BookIsVenues
  BY DEF InStep, Follows, BookIsVenues
<1> QED
  BY <1>1, <1>2, <1>3, PTL DEF Spec
=============================================================================
