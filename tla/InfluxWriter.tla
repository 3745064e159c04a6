---------------------------- MODULE InfluxWriter ----------------------------
(***************************************************************************)
(* The buffered writer every task of the capture process appends to: one   *)
(* buffer, one asyncio lock held across the HTTP write, and a batch that   *)
(* goes back to the head of the buffer when the write fails.  A line is    *)
(* its number in the order of the appends.  Influx may accept any write or *)
(* refuse it.                                                              *)
(***************************************************************************)
EXTENDS Naturals, Sequences, SequencesExt

CONSTANTS
  MaxBatch,  \* max_batch: lines that make write() flush at once
  Cap        \* lines kept when a flush fails; the code has 3 * max_batch

ASSUME WriterAssumption ==
  /\ MaxBatch \in Nat \ {0}
  /\ Cap \in Nat
  /\ MaxBatch <= Cap

VARIABLES
  lock,      \* the task that holds the lock across a flush, or "nobody"
  buffer,    \* lines waiting, oldest first
  batch,     \* lines taken by the flush in progress
  made,      \* lines appended so far
  stored,    \* history: lines Influx has
  dropped,   \* history: lines cut off when the buffer overflowed
  refused    \* history: the latest flush to return failed

writer == <<lock, buffer, batch, made, stored, dropped, refused>>

Lines(s) == {s[i] : i \in 1..Len(s)}

WriterInit ==
  /\ lock = "nobody"
  /\ buffer = <<>>
  /\ batch = <<>>
  /\ made = 0
  /\ stored = {}
  /\ dropped = {}
  /\ refused = FALSE

\* _flush_now_locked up to its await: p takes everything there is.
Take(p, lines) ==
  /\ lock' = p
  /\ batch' = lines
  /\ buffer' = <<>>

\* write: append, and flush under the same lock at max_batch.
Write(p) ==
  /\ lock = "nobody"
  /\ made' = made + 1
  /\ LET lines == Append(buffer, made + 1)
     IN  IF Len(lines) >= MaxBatch
         THEN Take(p, lines)
         ELSE buffer' = lines /\ UNCHANGED <<lock, batch>>
  /\ UNCHANGED <<stored, dropped, refused>>

\* _flush_now: an empty buffer is left alone.
Flush(p) ==
  /\ lock = "nobody"
  /\ IF buffer = <<>> THEN UNCHANGED <<lock, buffer, batch>> ELSE Take(p, buffer)
  /\ UNCHANGED <<made, stored, dropped, refused>>

\* A bug: the buffer grows for as long as Influx is down.
KeptAll(s) == s

\* The newest Cap lines of s, and the others.
Kept(s) == IF Len(s) > Cap THEN SubSeq(s, Len(s) - Cap + 1, Len(s)) ELSE s
CutOff(s) == IF Len(s) > Cap THEN SubSeq(s, 1, Len(s) - Cap) ELSE <<>>

FlushAccepted(p) ==
  /\ lock = p
  /\ stored' = stored \cup Lines(batch)
  /\ lock' = "nobody"
  /\ batch' = <<>>
  /\ refused' = FALSE
  /\ UNCHANGED <<buffer, made, dropped>>

\* A bug: the failed batch is only logged.
FlushForgets(p) ==
  /\ lock = p
  /\ lock' = "nobody"
  /\ batch' = <<>>
  /\ refused' = TRUE
  /\ UNCHANGED <<buffer, made, stored, dropped>>

\* The write raised: the batch goes back in front, and the oldest lines over
\* the cap are dropped.  That Influx may have stored it all the same changes
\* nothing: a line written twice is one point.
FlushFailed(p) ==
  /\ lock = p
  /\ buffer' = Kept(batch \o buffer)
  /\ dropped' = dropped \cup Lines(CutOff(batch \o buffer))
  /\ lock' = "nobody"
  /\ batch' = <<>>
  /\ refused' = TRUE
  /\ UNCHANGED <<made, stored>>

FlushReturns(p) == FlushAccepted(p) \/ FlushFailed(p)
=============================================================================
