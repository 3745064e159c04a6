------------------------------ MODULE Capture -------------------------------
(***************************************************************************)
(* The market-data capture process: a receiver that reconnects and keeps   *)
(* the order book, a loop that samples features from it, the flush loop of *)
(* the writer, and the order in which they are shut down.  The receiver's  *)
(* frames are handled one at a time; it blocks on the writer's lock while  *)
(* any task flushes.                                                       *)
(*                                                                         *)
(* The venue's book is a function from price levels to sizes.  It sends a  *)
(* delta for every change, and full snapshots whenever it likes.  A frame  *)
(* carries one message.  A tick is a unit of time; the clocks count ticks. *)
(***************************************************************************)
EXTENDS InfluxWriter, Integers

CONSTANTS
  Levels,     \* price levels of the book
  MaxLines,   \* bound: no trade or sample is made beyond this many lines
  MaxWire,    \* bound on the frames in flight
  MaxTicks,   \* bound on the clocks
  MaxFaults   \* bound on the faults of one behaviour

ASSUME CaptureAssumption == {MaxLines, MaxWire, MaxTicks, MaxFaults} \subseteq Nat

VARIABLES
  \* Alpaca
  venue,     \* the venue's book
  conn,      \* "down", "up", "lost" (dropped) or "closed" (gracefully)
  wire,      \* frames delivered and not yet read
  \* the receiver
  rpc,       \* where run() stands
  gap,       \* the gap it is about to log
  silent,    \* ticks since last_msg_at, or Never
  book,      \* OrderBook: sizes by level
  initialized,
  stop,      \* request_stop has been called
  \* the feature loop and the shutdown
  fpc,       \* the feature loop: "sleep", "write" or "ended"
  orphan,    \* a batch whose write goes on after its task was cancelled
  halt,      \* run, join, drain, closing, exited: the finally block of run()
  \* history
  synced,    \* this connection has brought a snapshot
  tainted,   \* a message of this connection was malformed since the last one
  outage,    \* ticks without a connection that no gap event covers yet
  late,      \* a frame was handled after ticks of the outage had gone by
  wasted,    \* lines lost with a cancelled batch
  faults

alpaca == <<venue, conn, wire>>
receiver == <<rpc, gap, silent, stop>>
bookvars == <<book, initialized, synced, tainted>>
closing == <<fpc, orphan, halt, wasted>>
clocks == <<outage, late>>
vars == <<writer, alpaca, receiver, bookvars, closing, clocks, faults>>

Never == -1
Sizes == {0, 1}
Books == [Levels -> Sizes]

Trade == [type |-> "trade"]
Malformed == [type |-> "bad"]
Snapshot(b) == [type |-> "snapshot", book |-> b]
Delta(l, s) == [type |-> "delta", level |-> l, size |-> s]
Frames == {Trade, Malformed} \cup {Snapshot(b) : b \in Books}
            \cup {Delta(l, s) : l \in Levels, s \in Sizes}

(***************************************************************************)
(* The book.  A level of size 0 is a level removed.                        *)
(***************************************************************************)
\* A bug: a level of size 0 is skipped instead of removed.
UpsertSkipsZero(b, l, s) == IF s = 0 THEN b ELSE [b EXCEPT ![l] = s]

Upsert(b, l, s) == [b EXCEPT ![l] = s]
Applied(b, m) == CASE m.type = "snapshot" -> m.book
                   [] m.type = "delta" -> Upsert(b, m.level, m.size)
                   [] OTHER -> b
\* The book once every frame in flight has been applied.
Replayed(b, frames) == FoldLeft(Applied, b, frames)

\* apply: a snapshot always, a delta only over a snapshot.
ApplyBook(m) ==
  /\ book' = IF m.type = "snapshot" \/ initialized THEN Applied(book, m) ELSE book
  /\ initialized' = (initialized \/ m.type = "snapshot")
  /\ synced' = (synced \/ m.type = "snapshot")
  /\ tainted' = (m.type # "snapshot" /\ (tainted \/ m.type = "bad"))

\* Both sides of the book have a level.
TwoSided == initialized /\ \A l \in Levels : book[l] # 0

Init ==
  /\ WriterInit
  /\ venue = [l \in Levels |-> 1]
  /\ conn = "down"
  /\ wire = <<>>
  /\ rpc = "backoff"
  /\ gap = 0
  /\ silent = Never
  /\ book = [l \in Levels |-> 0]
  /\ initialized = FALSE
  /\ stop = FALSE
  /\ fpc = "sleep"
  /\ orphan = <<>>
  /\ halt = "run"
  /\ synced = FALSE
  /\ tainted = FALSE
  /\ outage = 0
  /\ late = FALSE
  /\ wasted = {}
  /\ faults = 0

(***************************************************************************)
(* Alpaca and the network                                                  *)
(***************************************************************************)
VenueSends(m) ==
  /\ conn = "up"
  /\ rpc # "ended"
  /\ Len(wire) < MaxWire
  /\ wire' = Append(wire, m)
  /\ UNCHANGED <<writer, conn, receiver, bookvars, closing, clocks>>

VenueTrades ==
  /\ made + Len(wire) < MaxLines
  /\ VenueSends(Trade)
  /\ UNCHANGED <<venue, faults>>

VenueSnapshots == VenueSends(Snapshot(venue)) /\ UNCHANGED <<venue, faults>>

\* Nobody looks at the book any more once the receiver has ended.
VenueMoves(l) ==
  /\ rpc # "ended"
  /\ venue' = [venue EXCEPT ![l] = 1 - @]
  /\ \/ VenueSends(Delta(l, venue'[l])) /\ UNCHANGED faults
     \/ conn # "up" /\ UNCHANGED <<writer, conn, wire, receiver, bookvars, closing, clocks, faults>>

Fault == faults < MaxFaults /\ faults' = faults + 1

\* A delta that cannot be parsed: logged by _dispatch and dropped.
VenueGarbles(l) ==
  /\ Fault
  /\ venue' = [venue EXCEPT ![l] = 1 - @]
  /\ VenueSends(Malformed)

ConnectionEnds(how) ==
  /\ Fault
  /\ conn = "up"
  /\ rpc # "ended"
  /\ conn' = how
  /\ UNCHANGED <<writer, venue, wire, receiver, bookvars, closing, clocks>>

ConnectionDrops == ConnectionEnds("lost")
VenueCloses == ConnectionEnds("closed")

Tick ==
  /\ rpc # "ended"
  /\ silent \in 0..MaxTicks - 1
  /\ silent' = silent + 1
  /\ outage' = IF conn = "up" THEN outage ELSE outage + 1
  /\ UNCHANGED <<writer, alpaca, rpc, gap, stop, bookvars, closing, late, faults>>

(***************************************************************************)
(* The receiver: run, _connect_and_stream, _recv_loop                      *)
(***************************************************************************)
\* A bug: the time of the last message is forgotten with the connection.
GapForgotten == 0

\* gap_started_at to the subscription.
GapAtConnect == IF silent = Never THEN 0 ELSE silent

\* An attempt that reaches the subscription logs the time since the last
\* message; one that fails is retried, which changes nothing here.
Connect ==
  /\ rpc = "backoff"
  /\ conn' = "up"
  /\ synced' = FALSE
  /\ tainted' = FALSE
  /\ gap' = GapAtConnect
  /\ rpc' = IF silent = Never THEN "recv" ELSE "gap"
  /\ UNCHANGED <<writer, venue, wire, silent, stop, book, initialized, closing, clocks, faults>>

\* Only a failed attempt, or a frame, lets run() see that it should stop.
ConnectFails ==
  /\ rpc = "backoff"
  /\ stop
  /\ rpc' = "ended"
  /\ UNCHANGED <<writer, alpaca, gap, silent, stop, bookvars, closing, clocks, faults>>

\* A bug in the accounting: a gap longer than the outage covers too much.
UncoveredSigned == outage - gap

Uncovered == IF gap >= outage THEN 0 ELSE outage - gap

WriteGap ==
  /\ rpc = "gap"
  /\ Write("recv")
  /\ rpc' = "recv"
  /\ outage' = Uncovered
  /\ gap' = 0
  /\ UNCHANGED <<alpaca, silent, stop, bookvars, closing, late, faults>>

\* last_msg_at is set once the frame has been dispatched.
Mark ==
  /\ silent' = 0
  /\ late' = (late \/ outage > 0)
  /\ rpc' = "recv"

NextFrame == rpc = "recv" /\ lock # "recv" /\ wire # <<>> /\ wire' = Tail(wire)

ReceiveBook ==
  /\ NextFrame
  /\ ~stop
  /\ Head(wire) # Trade
  /\ ApplyBook(Head(wire))
  /\ Mark
  /\ UNCHANGED <<writer, venue, conn, gap, stop, closing, outage, faults>>

ReceiveTrade ==
  /\ NextFrame
  /\ ~stop
  /\ Head(wire) = Trade
  /\ rpc' = "trade"
  /\ UNCHANGED <<writer, venue, conn, gap, silent, stop, bookvars, closing, clocks, faults>>

WriteTrade ==
  /\ rpc = "trade"
  /\ Write("recv")
  /\ rpc' = "mark"
  /\ UNCHANGED <<alpaca, gap, silent, stop, bookvars, closing, clocks, faults>>

TradeWritten ==
  /\ rpc = "mark"
  /\ lock # "recv"
  /\ Mark
  /\ UNCHANGED <<writer, alpaca, gap, stop, bookvars, closing, outage, faults>>

\* A bug: leaving the loop for a stop counts as a failed attempt.
ReceiverRetries ==
  /\ NextFrame
  /\ stop
  /\ rpc' = "backoff"
  /\ conn' = "down"
  /\ UNCHANGED <<writer, venue, gap, silent, stop, bookvars, closing, clocks, faults>>

ReceiverStops ==
  /\ NextFrame
  /\ stop
  /\ rpc' = "ended"
  /\ conn' = "down"
  /\ UNCHANGED <<writer, venue, gap, silent, stop, bookvars, closing, clocks, faults>>

\* Frames still queued are read first.  A dropped connection raises, and run()
\* backs off; a graceful close ends the loop as a success, and run() with it.
ConnectionNoticed ==
  /\ rpc = "recv"
  /\ lock # "recv"
  /\ wire = <<>>
  /\ conn \in {"lost", "closed"}
  /\ conn' = "down"
  /\ rpc' = IF conn = "lost" /\ ~stop THEN "backoff" ELSE "ended"
  /\ UNCHANGED <<writer, venue, wire, gap, silent, stop, bookvars, closing, clocks, faults>>

RequestStop ==
  /\ halt = "run"
  /\ ~stop
  /\ stop' = TRUE
  /\ UNCHANGED <<writer, alpaca, rpc, gap, silent, bookvars, closing, clocks, faults>>

(***************************************************************************)
(* The feature loop and the flush loop                                     *)
(***************************************************************************)
\* Woken after a sleep that may have begun before the stop.  A book that is
\* not ready yields nothing.
Sample ==
  /\ fpc = "sleep"
  /\ \/ TwoSided /\ made < MaxLines /\ fpc' = "write"
     \/ ~TwoSided /\ stop /\ fpc' = "ended"
  /\ UNCHANGED <<writer, alpaca, receiver, bookvars, orphan, halt, wasted, clocks, faults>>

WriteSample ==
  /\ fpc = "write"
  /\ Write("feat")
  /\ fpc' = IF stop THEN "ended" ELSE "sleep"
  /\ UNCHANGED <<alpaca, receiver, bookvars, orphan, halt, wasted, clocks, faults>>

FlushLoop ==
  /\ halt = "run"
  /\ buffer # <<>>
  /\ Flush("flush")
  /\ UNCHANGED <<alpaca, receiver, bookvars, closing, clocks, faults>>

FlushDone ==
  /\ \E p \in {"recv", "feat", "flush", "stop"} : FlushReturns(p)
  /\ UNCHANGED <<alpaca, receiver, bookvars, closing, clocks, faults>>

(***************************************************************************)
(* The finally block of run(): cancel the feature loop, join the flush     *)
(* loop, flush once more, close.                                           *)
(***************************************************************************)
\* A bug: the writer is closed without joining its loop and flushing.
CloseAtOnce == "closing"

\* A flush loop found inside a flush ends with it.
StopWriter == IF lock = "flush" THEN "drain" ELSE "join"

\* Cancelling a task inside the HTTP write releases the lock, but the thread
\* goes on, and nothing puts its batch back.
CancelFeatures ==
  /\ rpc = "ended"
  /\ halt = "run"
  /\ halt' = StopWriter
  /\ fpc' = "ended"
  /\ IF lock = "feat"
     THEN orphan' = batch /\ batch' = <<>> /\ lock' = "nobody"
     ELSE UNCHANGED <<orphan, batch, lock>>
  /\ UNCHANGED <<buffer, made, stored, dropped, refused, wasted>>
  /\ UNCHANGED <<alpaca, receiver, bookvars, clocks, faults>>

OrphanReturns ==
  /\ orphan # <<>>
  /\ orphan' = <<>>
  /\ \/ stored' = stored \cup Lines(orphan) /\ UNCHANGED wasted
     \/ wasted' = wasted \cup Lines(orphan) /\ UNCHANGED stored
  /\ UNCHANGED <<lock, buffer, batch, made, dropped, refused, fpc, halt>>
  /\ UNCHANGED <<alpaca, receiver, bookvars, clocks, faults>>

\* The flush loop finishes its sleep and flushes a last time.
LastLoopFlush ==
  /\ halt = "join"
  /\ Flush("flush")
  /\ halt' = "drain"
  /\ UNCHANGED <<alpaca, receiver, bookvars, fpc, orphan, wasted, clocks, faults>>

FinalFlush ==
  /\ halt = "drain"
  /\ Flush("stop")
  /\ halt' = "closing"
  /\ UNCHANGED <<alpaca, receiver, bookvars, fpc, orphan, wasted, clocks, faults>>

Exit ==
  /\ halt = "closing"
  /\ lock = "nobody"
  /\ halt' = "exited"
  /\ UNCHANGED <<writer, alpaca, receiver, bookvars, fpc, orphan, wasted, clocks, faults>>

\* The container is started again (after a graceful close, by its restart
\* policy): every variable of the process is new.
Restart ==
  /\ halt = "exited"
  /\ orphan = <<>>
  /\ lock' = "nobody" /\ buffer' = <<>> /\ batch' = <<>> /\ made' = 0
  /\ stored' = {} /\ dropped' = {} /\ refused' = FALSE
  /\ conn' = "down" /\ wire' = <<>>
  /\ rpc' = "backoff" /\ gap' = 0 /\ silent' = Never /\ stop' = FALSE
  /\ book' = [l \in Levels |-> 0] /\ initialized' = FALSE
  /\ synced' = FALSE /\ tainted' = FALSE
  /\ fpc' = "sleep" /\ orphan' = <<>> /\ halt' = "run" /\ wasted' = {}
  /\ outage' = 0 /\ late' = FALSE
  /\ UNCHANGED <<venue, faults>>

Venue ==
  \/ VenueTrades \/ VenueSnapshots
  \/ \E l \in Levels : VenueMoves(l) \/ VenueGarbles(l)
  \/ ConnectionDrops \/ VenueCloses

Receiver ==
  \/ Connect \/ ConnectFails \/ WriteGap
  \/ ReceiveBook \/ ReceiveTrade \/ WriteTrade \/ TradeWritten
  \/ ReceiverStops \/ ConnectionNoticed

Shutdown ==
  \/ CancelFeatures \/ OrphanReturns \/ LastLoopFlush \/ FinalFlush \/ Exit

Next ==
  \/ Venue \/ Receiver \/ Shutdown
  \/ RequestStop \/ Tick
  \/ Sample \/ WriteSample \/ FlushLoop \/ FlushDone
  \/ Restart

Spec == Init /\ [][Next]_vars

\* Attempts end, HTTP writes end (they time out), the venue goes on sending
\* snapshots, and the lock is granted in the order it was asked for, so nobody
\* waits for it for ever.
Fairness ==
  /\ WF_vars(Connect \/ ConnectFails)
  /\ SF_vars(WriteGap) /\ SF_vars(WriteTrade)
  /\ WF_vars(ReceiveBook \/ ReceiveTrade \/ TradeWritten \/ ReceiverStops \/ ConnectionNoticed)
  /\ WF_vars(FlushDone) /\ WF_vars(Shutdown)
  /\ WF_vars(VenueSnapshots)

FairSpec == Spec /\ Fairness
-----------------------------------------------------------------------------
TypeOK ==
  /\ lock \in {"nobody", "recv", "feat", "flush", "stop"}
  /\ {buffer, batch, orphan} \subseteq Seq(Nat)
  /\ made \in Nat
  /\ stored \subseteq Nat /\ dropped \subseteq Nat /\ wasted \subseteq Nat
  /\ {refused, initialized, stop, synced, tainted, late} \subseteq BOOLEAN
  /\ venue \in Books /\ book \in Books
  /\ conn \in {"down", "up", "lost", "closed"}
  /\ wire \in Seq(Frames)
  /\ rpc \in {"backoff", "gap", "recv", "trade", "mark", "ended"}
  /\ gap \in Nat /\ outage \in Nat /\ faults \in Nat
  /\ silent \in Nat \cup {Never}
  /\ fpc \in {"sleep", "write", "ended"}
  /\ halt \in {"run", "join", "drain", "closing", "exited"}

\* However long Influx is down, the writer holds at most Cap lines and the
\* line just appended, and a line it gave up has that many newer ones behind it
\* (_flush_now_locked keeps the tail).
OverflowIsBounded ==
  /\ Len(buffer) + Len(batch) <= Cap + 1
  /\ \A d \in dropped : d + Cap <= made

Held == Lines(buffer) \cup Lines(batch) \cup Lines(orphan)

\* A line that was appended is in Influx, in memory, or lost for one of two
\* reasons: the buffer overflowed, or the shutdown cancelled the feature task
\* inside a write that then failed.
NothingLostQuietly ==
  /\ 1..made \subseteq stored \cup Held \cup dropped \cup wasted
  /\ wasted # {} => halt # "run"

\* A process that ends after a flush Influx accepted leaves no line in its
\* memory: features are cancelled before the writer's last flush, not after.
CleanExit == halt = "exited" /\ ~refused => Lines(buffer) \cup Lines(batch) = {}

\* From the first snapshot of a connection on, the book is the venue's once the
\* frames in flight are applied, unless a message of it was malformed and no
\* snapshot has come since (OrderBook.apply across reconnects).
BookIsVenues ==
  synced /\ ~tainted /\ Malformed \notin Lines(wire) /\ rpc # "ended"
    /\ conn = "up" => Replayed(book, wire) = venue

\* Once the stream is read again, gap events cover every tick of the outage,
\* except those after which a frame of the old connection was still handled:
\* the gap is counted from the last message dispatched.
OutagesAreCovered == rpc \in {"recv", "trade", "mark"} /\ conn = "up" /\ ~late => outage = 0

\* A requested stop ends the process, whatever the connection and Influx do.
StopEnds == stop ~> halt = "exited"
=============================================================================
