----------------------------- MODULE AudioRingBuffer -----------------------------
(***************************************************************************)
(* core/audio/audio_ring_buffer_io_impl.cc over audio_buffer_common_reader: *)
(* a bounded buffer of samples with one blocking reader, one blocking       *)
(* writer and any number of threads that make the calls that do not block.  *)
(* Every call is one critical section of mutex_; a blocking call that has   *)
(* to wait is cut where cv_reader_ or cv_writer_ releases it.               *)
(*                                                                          *)
(* Samples are counted in bytes of one plane.  The planes are filled and    *)
(* read together, so items is what each of them holds: the n-th sample that *)
(* was handed to a write is n.  ByteFifo says what a RingBufferWrapper does *)
(* with them.  The buffer is one made by Create, whose ring does not grow   *)
(* by itself.                                                               *)
(***************************************************************************)
EXTENDS Integers, Sequences

CONSTANTS
  Planes,        \* circular_buffer_vec_.size()
  Capacity,      \* of the constructor, of one plane
  ReadSizes,     \* bytes of one plane in a call of Read and BlockingRead
  WriteSizes,    \* bytes of one plane in a call of Write and BlockingWrite
  DiscardSizes,  \* bytes of one plane in a call of DiscardDataSizeInByte
  ZeroSizes,     \* bytes of one plane in a call of FillZeroFront
  Capacities,    \* bytes of one plane in a call of ResetUseableCapacity
  MaxWritten,    \* bound: samples handed to writes in one behaviour
  MaxSeek        \* bound: samples discarded before they were written

ASSUME PlanesAssumption == Planes \in Nat \ {0}
ASSUME CapacityAssumption == Capacity \in Nat \ {0}
ASSUME SizesAssumption ==
  ReadSizes \union WriteSizes \union DiscardSizes \union ZeroSizes \union Capacities
    \subseteq Nat \ {0}
ASSUME BoundsAssumption == MaxWritten \in Nat /\ MaxSeek \in Nat

VARIABLES
  items,        \* what is in the ring of a plane, oldest first
  ringCapacity, \* BufferCapacity() of a plane
  useable,      \* buffer_useable_capacity_
  seek,         \* should_seek_size_: above 0 to skip, below 0 zeros to come first
  status,       \* status_
  reader,       \* what BlockingRead waits for, 0 when it does not
  writer,       \* the size of the BlockingWrite that waits, 0 when none does
  cancelRead,   \* cancel_read_
  cancelWrite,  \* cancel_write_
  notified,     \* those of "reader" and "writer" whose condition variable was notified
  written,      \* samples handed to writes so far
  head,         \* samples delivered, discarded or overwritten so far
  silent,       \* those of "reader" and "writer" whose wait was ended by a silent call
  transfer      \* whether the only users are one that writes and one that reads, blocking

bufferVars == <<items, ringCapacity, useable, seek, status>>
waitVars == <<reader, writer, cancelRead, cancelWrite, notified, silent>>
vars == <<bufferVars, waitVars, written, head, transfer>>

Greatest(m, n) == IF m < n THEN n ELSE m
Least(m, n) == IF m < n THEN m ELSE n

Fifo == INSTANCE ByteFifo WITH capacity <- ringCapacity, answer <- <<>>

-----------------------------------------------------------------------------
(* What the calls compute.  Sizes of one plane, except where "total" says otherwise. *)

\* CurrentSizeInternal, total
CurrentSizeOf(q, s) == IF Len(q) > s THEN (Len(q) - s) * Planes ELSE 0
CurrentSize == CurrentSizeOf(items, seek)

\* FreeSpaceBeforeOverwritingNoLock, total
FreeSpaceOf(q, s, u, st) ==
  IF st = "kStatic" THEN 0 ELSE Greatest(0, (u - Len(q) + Greatest(0, s)) * Planes)
FreeSpace == FreeSpaceOf(items, seek, useable, status)

\* Mutant: a discard takes what is there and forgets the rest
ForgetsTheRest(s, q) == 0

\* What is left to skip when the samples of q are gone
LeftToSkip(s, q) == IF s > 0 THEN s - Least(Len(q), s) ELSE s

\* BaseDiscardDataSizeInByte of n samples
Discarded(q, s, n) ==
  [items |-> IF s + n > 0 THEN Fifo!Dropped(q, s + n) ELSE q, seek |-> LeftToSkip(s + n, q)]

\* BaseRead of n samples: first the zeros, then what is in the ring.  The size it reads
\* is bounded by the total of the planes.
ZerosRead(n) == Least(n, Greatest(0, -seek))

SamplesRead(n) ==
  Least(CurrentSizeOf(items, seek + ZerosRead(n)), n - ZerosRead(n))
ReadSize(n) == (ZerosRead(n) + SamplesRead(n)) * Planes

\* What WritePlanarInternal discards to make room for n samples.  Free space is counted
\* over all planes, the samples of one.
Overwrite(n) ==
  IF n > FreeSpace /\ (n - FreeSpace) % Planes = 0
    THEN Discarded(items, seek, (n - FreeSpace) \div Planes)
    ELSE [items |-> items, seek |-> seek]

\* Mutant: the wait is tested once, not again after a wake-up
WaitsOnce(n) == writer = 0 /\ status = "kStreaming" /\ FreeSpace < n

\* The waits, as WaitingRead and WaitingWrite test them
MustWaitToRead(n) == status = "kStreaming" /\ CurrentSize < n * Planes
MustWaitToWrite(n) == status = "kStreaming" /\ FreeSpace < n

-----------------------------------------------------------------------------
(* Condition variables *)

\* Mutant: the reader is told when there is more than it waits for
NotifyWhenMore ==
  IF reader' > 0 /\ CurrentSize' > reader' * Planes THEN {"reader"} ELSE {}

\* CheckIfNotifyRead: after a write
CheckIfNotifyRead ==
  IF reader' > 0 /\ CurrentSize' >= reader' * Planes THEN {"reader"} ELSE {}

\* Mutant: the writer is told only when the buffer is empty
NotifyWhenEmpty == IF writer' > 0 /\ items' = <<>> THEN {"writer"} ELSE {}

\* CheckIfNotifyWrite: after a read or a discard
CheckIfNotifyWrite ==
  IF writer' > 0 /\ FreeSpace' >= writer' THEN {"writer"} ELSE {}

Init ==
  /\ items = <<>> /\ ringCapacity = Capacity /\ useable = Capacity
  /\ seek = 0 /\ status = "kStreaming"
  /\ reader = 0 /\ writer = 0
  /\ cancelRead = FALSE /\ cancelWrite = FALSE
  /\ notified = {} /\ silent = {}
  /\ written = 0 /\ head = 0
  /\ transfer \in BOOLEAN

\* BaseRead and the notification behind it, for a call that has waited or need not
TakeSamples(n) ==
  /\ items' = Fifo!Dropped(items, SamplesRead(n))
  /\ seek' = seek + ZerosRead(n)
  /\ head' = head + Least(Len(items), SamplesRead(n))
  /\ UNCHANGED <<ringCapacity, useable, status, written>>

Read(n) ==
  /\ TakeSamples(n)
  /\ UNCHANGED <<reader, writer, cancelRead, cancelWrite, silent>>
  /\ notified' = notified \union CheckIfNotifyWrite

BlockingRead(n) ==
  /\ reader = 0
  /\ UNCHANGED <<writer, cancelRead, cancelWrite, silent>>
  /\ IF MustWaitToRead(n)
       THEN /\ reader' = n
            /\ UNCHANGED <<bufferVars, notified, written, head>>
       ELSE /\ TakeSamples(n)
            /\ notified' = notified \union CheckIfNotifyWrite
            /\ UNCHANGED reader

\* cv_reader_.wait returns, after a notification or for no reason
WakeReader ==
  /\ reader > 0
  /\ UNCHANGED <<writer, cancelWrite>>
  /\ silent' = silent \ {"reader"}
  /\ IF ~cancelRead /\ MustWaitToRead(reader)
       THEN /\ notified' = notified \ {"reader"}
            /\ UNCHANGED <<bufferVars, reader, cancelRead, written, head>>
       ELSE /\ TakeSamples(reader)
            /\ reader' = 0
            /\ cancelRead' = FALSE
            /\ notified' = (notified \ {"reader"}) \union CheckIfNotifyWrite

\* WritePlanarInternal behind its wait: overwrites, skips what was discarded beforehand
\* and stores the rest
PutSamples(n) ==
  LET room == Overwrite(n)
      skip == Least(n, Greatest(0, room.seek))
      stored == [k \in 1 .. n - skip |-> written + skip + k]
  IN  /\ items' = Fifo!Newest(room.items \o stored, ringCapacity)
      /\ seek' = room.seek - skip
      /\ written' = written + n
      /\ head' = head + (Len(items) - Len(room.items))
                      + (Greatest(0, room.seek) - Greatest(0, seek))
                      + Greatest(0, Len(room.items) + Len(stored) - ringCapacity)
      /\ UNCHANGED <<ringCapacity, useable, status>>

\* A write of more than the useable capacity fails an RTC_DCHECK and is left out
Write(n) ==
  /\ status = "kStreaming"
  /\ n <= useable /\ written + n <= MaxWritten
  /\ PutSamples(n)
  /\ UNCHANGED <<reader, writer, cancelRead, cancelWrite, silent>>
  /\ notified' = notified \union CheckIfNotifyRead

BlockingWrite(n) ==
  /\ writer = 0
  /\ status = "kStreaming"
  /\ UNCHANGED <<reader, cancelRead, cancelWrite, silent>>
  /\ n <= useable /\ written + n <= MaxWritten
  /\ IF MustWaitToWrite(n)
       THEN /\ writer' = n
            /\ UNCHANGED <<bufferVars, notified, written, head>>
       ELSE /\ PutSamples(n)
            /\ notified' = notified \union CheckIfNotifyRead
            /\ UNCHANGED writer

\* cv_writer_.wait returns; whatever ended the wait, the samples are stored
WakeWriter ==
  /\ writer > 0
  /\ UNCHANGED <<reader, cancelRead>>
  /\ silent' = silent \ {"writer"}
  /\ IF ~cancelWrite /\ MustWaitToWrite(writer)
       THEN /\ notified' = notified \ {"writer"}
            /\ UNCHANGED <<bufferVars, writer, cancelWrite, written, head>>
       ELSE /\ PutSamples(writer)
            /\ writer' = 0
            /\ cancelWrite' = FALSE
            /\ notified' = (notified \ {"writer"}) \union CheckIfNotifyRead

DiscardDataSizeInByte(n) ==
  /\ seek + n <= MaxSeek
  /\ items' = Discarded(items, seek, n).items
  /\ seek' = Discarded(items, seek, n).seek
  /\ head' = head + Greatest(0, seek + n) - Greatest(0, seek)
  /\ UNCHANGED <<ringCapacity, useable, status, reader, writer, cancelRead, cancelWrite,
                 silent, written>>
  /\ notified' = notified \union CheckIfNotifyWrite

\* NotifyReader and NotifyWriter, of CancelRead, CancelWrite, CancelAll and Reset
Cancel(who) ==
  /\ cancelRead' = (cancelRead \/ ("reader" \in who /\ reader > 0))
  /\ cancelWrite' = (cancelWrite \/ ("writer" \in who /\ writer > 0))
  /\ notified' = notified \union (IF reader > 0 THEN who \intersect {"reader"} ELSE {})
                          \union (IF writer > 0 THEN who \intersect {"writer"} ELSE {})
  /\ UNCHANGED <<reader, writer, silent>>

CancelWaits(who) ==
  /\ Cancel(who)
  /\ UNCHANGED <<bufferVars, written, head>>

Reset ==
  /\ Cancel({"reader", "writer"})
  /\ items' = <<>>
  /\ seek' = 0
  /\ status' = "kStreaming"
  /\ head' = written
  /\ UNCHANGED <<ringCapacity, useable, written>>

-----------------------------------------------------------------------------
(* Three calls that may end a wait and notify nobody *)

Silently ==
  /\ silent' = silent \union {w \in {"reader"} : reader > 0} \union
                              {w \in {"writer"} : writer > 0}
  /\ UNCHANGED <<reader, writer, cancelRead, cancelWrite, notified>>

\* BaseFillZeroFront replaces what was left to skip
FillZeroFront(n) ==
  /\ Silently
  /\ seek' = -n
  /\ head' = head - Greatest(0, seek)
  /\ UNCHANGED <<items, ringCapacity, useable, status, written>>

WriteCompletion ==
  /\ Silently
  /\ status' = "kStatic"
  /\ UNCHANGED <<items, ringCapacity, useable, seek, written, head>>

\* Only a useable capacity that grows adjusts the ring.  A ring that is full when it is
\* adjusted may come out in another order (FullInside of RingBuffer); such a call is left
\* out here.
ResetUseableCapacity(c) ==
  /\ useable < c => Len(items) < ringCapacity
  /\ Silently
  /\ ringCapacity' = IF useable < c /\ c >= Len(items) THEN c ELSE ringCapacity
  /\ useable' = c
  /\ UNCHANGED <<items, seek, status, written, head>>

Calls ==
  \/ \E n \in ReadSizes : Read(n) \/ BlockingRead(n)
  \/ WakeReader
  \/ \E n \in WriteSizes : Write(n) \/ BlockingWrite(n)
  \/ WakeWriter
  \/ \E n \in DiscardSizes : DiscardDataSizeInByte(n)
  \/ CancelWaits({"reader"}) \/ CancelWaits({"writer"}) \/ CancelWaits({"reader", "writer"})
  \/ Reset
  \/ \E n \in ZeroSizes : FillZeroFront(n)
  \/ WriteCompletion
  \/ \E c \in Capacities : ResetUseableCapacity(c)

-----------------------------------------------------------------------------
(* One thread that writes TotalSize samples and one that reads them, both blocking, as  *)
(* in TestBlockReadAndWrite of the unit test.  Wakes are after notifications only.      *)

Transfers(call) == transfer /\ call /\ UNCHANGED transfer

ReadsAll == Transfers(\E n \in ReadSizes : head + n <= MaxWritten /\ BlockingRead(n))
GoesOnReading == Transfers("reader" \in notified /\ WakeReader)
WritesAll == Transfers(\E n \in WriteSizes : BlockingWrite(n))
GoesOnWriting == Transfers("writer" \in notified /\ WakeWriter)

\* All is read, and both threads are done
Transferred == transfer /\ head = MaxWritten /\ UNCHANGED vars

-----------------------------------------------------------------------------

Next ==
  \/ ~transfer /\ Calls /\ UNCHANGED transfer
  \/ ReadsAll
  \/ GoesOnReading
  \/ WritesAll
  \/ GoesOnWriting
  \/ Transferred

Spec == Init /\ [][Next]_vars

\* Either thread of a transfer goes on when it can
FairSpec ==
  Spec /\ WF_vars(ReadsAll) /\ WF_vars(GoesOnReading) /\ WF_vars(WritesAll) /\ WF_vars(GoesOnWriting)

\* Two waits may exclude each other only when their sizes do not fit the buffer together
TransferFits == \A r \in ReadSizes, w \in WriteSizes : r + w <= Capacity + 1

-----------------------------------------------------------------------------

\* Whatever is written, read, discarded, overwritten, clamped or cancelled: the ring
\* holds the newest samples without a gap, and the next one that a read delivers is the
\* one behind all that was delivered, discarded or overwritten.
EverySampleIsAccountedFor ==
  /\ items = [k \in 1 .. Len(items) |-> written - Len(items) + k]
  /\ head = written - Len(items) + Greatest(0, seek)

\* A call sleeps only while its wait holds or its wake-up is under way, however calls of
\* other threads take the samples or the space before it wakes; but for the three calls
\* that notify nobody.
NoLostWakeup ==
  /\ reader > 0 /\ "reader" \notin notified \union silent =>
       ~cancelRead /\ MustWaitToRead(reader)
  /\ writer > 0 /\ "writer" \notin notified \union silent =>
       ~cancelWrite /\ MustWaitToWrite(writer)

\* A blocking write that nobody cancelled keeps what was not read, however the buffer was
\* emptied, filled by other writes and resized while it waited.
BlockingWriteKeeps ==
  [][WakeWriter /\ ~cancelWrite /\ status = "kStreaming"
       => Len(items) <= Len(items') /\ SubSeq(items', 1, Len(items)) = items]_vars

\* Every sample of a transfer between a blocking reader and a blocking writer arrives,
\* also when all that is there, or all the room there is, is less than a call asks for; if
\* the sizes fit the buffer together.
TransferCompletes == transfer /\ TransferFits => <>(head = MaxWritten)

==================================================================================
