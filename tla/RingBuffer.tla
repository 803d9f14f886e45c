------------------------------- MODULE RingBuffer -------------------------------
(***************************************************************************)
(* util/ring_buffer_wrapper.{h,cc} over WebRTC's ring_buffer.c: the ring of *)
(* bytes under every plane of an AudioRingBufferIo.  Two positions and a    *)
(* wrap flag say what is readable; a position may rest at the end of the    *)
(* ring before it wraps.  The wrapper adds the policy of a full ring: it    *)
(* grows, or drops the oldest bytes.                                        *)
(*                                                                          *)
(* The n-th byte written is n, so that order and loss are visible.          *)
(***************************************************************************)
EXTENDS Integers, Sequences

CONSTANTS
  Capacity,         \* of the constructor
  AutoAdjusts,      \* what auto_adjust_capacity of the constructor may be
  MaxCapacity,      \* max_buffer_capacity_
  GrowthThreshold,  \* kExponentialGrowthThreshold
  Capacities,       \* what AdjustCapacity is called with
  MaxWrite,         \* bound: bytes in one call of BufferWrite
  MaxWritten        \* bound: bytes written in one behaviour

\* A write fits into the capacity, and a capacity is never less than a write
Parameters ==
  /\ Capacity \in Nat \ {0} /\ MaxCapacity \in Nat \ {0} /\ GrowthThreshold \in Nat \ {0}
  /\ AutoAdjusts \subseteq BOOLEAN /\ AutoAdjusts # {}
  /\ MaxWrite \in 1 .. Capacity /\ Capacity <= MaxCapacity
  /\ Capacities \subseteq MaxWrite .. MaxCapacity
  /\ MaxWritten \in Nat

ASSUME ParametersAssumption == Parameters

VARIABLES
  ring,        \* buff_handle_
  autoAdjust,  \* auto_adjust_capacity_
  written,     \* bytes written so far
  answer       \* what the last BufferRead returned

vars == <<ring, autoAdjust, written, answer>>

Byte == 0 .. MaxWritten

\* WebRtc_CreateBuffer
NewRing(n) ==
  [count |-> n, data |-> [i \in 0 .. n - 1 |-> 0], read |-> 0, write |-> 0, wrap |-> "same"]

Readable(r) == IF r.wrap = "same" THEN r.write - r.read ELSE r.count - r.read + r.write

Writable(r) == r.count - Readable(r)

Least(m, n) == IF m < n THEN m ELSE n

\* Mutant: a position that comes to the end of the ring wraps at once
WrapsAtEnd(r, p) == p >= r.count

\* A position may rest at the end of the ring
Wraps(r, p) == p > r.count

\* The read position stops at the write position
Advance(r, n) == Least(n, Readable(r))

\* WebRtc_MoveReadPtr forwards
MovedRead(r, n) ==
  LET p == r.read + Advance(r, n) IN
  IF Wraps(r, p)
    THEN [r EXCEPT !.read = p - r.count, !.wrap = "same"]
    ELSE [r EXCEPT !.read = p]

\* WebRtc_WriteBuffer: as much of xs as there is room for, in two pieces at the end
Stored(r, xs) ==
  LET n == Least(Writable(r), Len(xs))
      margin == r.count - r.write
      ahead == r.write .. r.write + n - 1
  IN  IF n > margin
        THEN [r EXCEPT !.data = [i \in DOMAIN r.data |->
                                   IF i >= r.write THEN xs[i - r.write + 1]
                                   ELSE IF i < n - margin THEN xs[margin + i + 1]
                                   ELSE r.data[i]],
                       !.write = n - margin,
                       !.wrap = "diff"]
        ELSE [r EXCEPT !.data = [i \in DOMAIN r.data |->
                                   IF i \in ahead THEN xs[i - r.write + 1] ELSE r.data[i]],
                       !.write = r.write + n]

\* n bytes of the ring from position p, which do not cross its end
Piece(r, p, n) == [k \in 1 .. n |-> r.data[p + k - 1]]

\* WebRtc_ReadBuffer: up to n bytes, in two pieces at the end
Loaded(r, n) ==
  LET k == Least(Readable(r), n)
      margin == r.count - r.read
  IN  IF k > margin THEN Piece(r, r.read, margin) \o Piece(r, 0, k - margin)
                    ELSE Piece(r, r.read, k)

\* RingBufferWrapper::AdjustCapacity.  What it copies first ends at the write position
\* or, when that is behind the read position, at the end of the ring.
FirstPiece(r) == IF r.write - r.read < 0 THEN r.count - r.read ELSE r.write - r.read

Adjusted(r, n) ==
  IF n < Readable(r) \/ n = r.count THEN r
  ELSE LET first == FirstPiece(r)
           start == Stored(NewRing(n), Piece(r, r.read, first))
       IN  IF Readable(r) > first THEN Stored(start, Piece(r, 0, Readable(r) - first))
           ELSE start

\* CalculatedExpansionCapacity: doubled, or enlarged by the threshold, until n fit
Expansion(r, n) ==
  LET fit[c \in Nat] ==
        IF c - Readable(r) >= n THEN c
        ELSE fit[c + (IF c > GrowthThreshold THEN GrowthThreshold ELSE c)]
  IN  Least(fit[r.count], MaxCapacity)

\* The part of BufferWrite that makes room for n bytes
Room(r, n) ==
  IF Writable(r) >= n THEN r
  ELSE IF ~autoAdjust THEN MovedRead(r, n - Writable(r))
  ELSE LET grown == Adjusted(r, Expansion(r, n)) IN
       IF grown.count >= MaxCapacity /\ Writable(grown) < n
         THEN MovedRead(grown, n - Writable(grown))
         ELSE grown

-----------------------------------------------------------------------------

Init ==
  /\ ring = NewRing(Capacity)
  /\ autoAdjust \in AutoAdjusts
  /\ written = 0
  /\ answer = <<>>

\* The ring stops growing once it has its greatest capacity
AutoAdjustAfter(r) == autoAdjust /\ r.count < MaxCapacity

BufferWrite(n) ==
  /\ written + n <= MaxWritten
  /\ written' = written + n
  /\ LET room == Room(ring, n) IN
       /\ ring' = Stored(room, [k \in 1 .. n |-> written + k])
       /\ autoAdjust' = IF Writable(ring) < n THEN AutoAdjustAfter(room) ELSE autoAdjust
  /\ UNCHANGED answer

BufferRead(n) ==
  /\ answer' = Loaded(ring, n)
  /\ ring' = MovedRead(ring, Len(Loaded(ring, n)))
  /\ UNCHANGED <<autoAdjust, written>>

BufferSeek(n) ==
  /\ ring' = MovedRead(ring, n)
  /\ UNCHANGED <<autoAdjust, written, answer>>

AdjustCapacity(n) ==
  /\ ring' = Adjusted(ring, n)
  /\ UNCHANGED <<autoAdjust, written, answer>>

\* WebRtc_InitBuffer
Clear ==
  /\ ring' = NewRing(ring.count)
  /\ UNCHANGED <<autoAdjust, written, answer>>

Next ==
  \/ \E n \in 1 .. MaxWrite : BufferWrite(n) \/ BufferRead(n) \/ BufferSeek(n)
  \/ \E n \in Capacities : AdjustCapacity(n)
  \/ Clear

Spec == Init /\ [][Next]_vars

-----------------------------------------------------------------------------

\* The readable bytes
Items == Loaded(ring, ring.count)

\* A ring that is full with both positions inside it: AdjustCapacity takes the
\* distance of the positions, 0, for what is readable before the end
FullInside == ring.wrap = "diff" /\ ring.read = ring.write /\ ring.read < ring.count

\* Steps that do not change the capacity of such a ring
AlignedSpec == Init /\ [][Next /\ (FullInside => ring'.count = ring.count)]_vars

Fifo == INSTANCE ByteFifo WITH items <- Items, capacity <- ring.count

\* Through every other growth, wrap and overwrite the ring is the queue of bytes its
\* users count on: BufferRead returns the oldest bytes in order, a write into a full
\* ring loses exactly the oldest ones.
ImplementsFifo == Fifo!Spec

================================================================================
