-------------------------- MODULE AudioRingBufferProofs --------------------------
(***************************************************************************)
(* Proofs about AudioRingBuffer, for any capacity, sizes and number of      *)
(* planes, whatever the order of the calls and of the spurious wakes: no    *)
(* sample is lost or repeated unaccounted for, no wake-up is lost, and, of  *)
(* one plane, no write that waited overwrites what was not read.            *)
(* The last section is about RingBuffer, the ring of bytes under a plane:   *)
(* it implements the queue that AudioRingBuffer takes it for.               *)
(***************************************************************************)
EXTENDS AudioRingBuffer, SequenceTheorems, WellFoundedInduction, TLAPS

\* q ends with the newest of w samples, without a gap
Ascends(q, w) == q = [k \in 1 .. Len(q) |-> w - Len(q) + k]

\* What a ring and what is left to skip may be when w samples were written
IsRing(q, s, w) == q \in Seq(Int) /\ s \in Int /\ Ascends(q, w) /\ (s > 0 => q = <<>>)

\* There is something to skip only when nothing is left to skip it in, and all that is useable
\* is there: a write that found room does not meet the end of the ring.
DataInv ==
  /\ IsRing(items, seek, written)
  /\ written \in Nat /\ head \in Int
  /\ ringCapacity \in Nat \ {0} /\ useable \in Nat \ {0}
  /\ status \in {"kStreaming", "kStatic"}
  /\ head = written - Len(items) + Greatest(0, seek)
  /\ Len(items) <= ringCapacity
  /\ useable <= ringCapacity

ReaderSleeps == reader > 0 /\ "reader" \notin notified \union silent
WriterSleeps == writer > 0 /\ "writer" \notin notified \union silent

\* A cancellation is for a call that waits; NoLostWakeup is of these two
ReaderInv ==
  /\ reader \in Nat
  /\ cancelRead => reader > 0
  /\ ReaderSleeps => ~cancelRead /\ MustWaitToRead(reader)

WriterInv ==
  /\ writer \in Nat
  /\ cancelWrite => writer > 0
  /\ WriterSleeps => ~cancelWrite /\ MustWaitToWrite(writer)

BufferInv == DataInv /\ ReaderInv /\ WriterInv

-----------------------------------------------------------------------------
(* Sequences of samples *)

LEMMA LenIsNat == ASSUME NEW q \in Seq(Int) PROVE Len(q) \in Nat
  BY LenProperties

\* Samples that go leave those behind them
LEMMA DroppedAscends ==
  ASSUME NEW q \in Seq(Int), NEW w \in Int, Ascends(q, w), NEW m \in Nat
  PROVE  /\ Fifo!Dropped(q, m) \in Seq(Int)
         /\ Len(Fifo!Dropped(q, m)) = Greatest(0, Len(q) - m)
         /\ Ascends(Fifo!Dropped(q, m), w)
  <1> DEFINE d == Fifo!Dropped(q, m)
  <1>1. Len(q) \in Nat
    BY LenIsNat
  <1>2. CASE m < Len(q)
    <2>1. d = SubSeq(q, m + 1, Len(q))
      BY <1>2 DEF Fifo!Dropped
    <2>2. /\ d \in Seq(Int)
          /\ Len(d) = Len(q) - m
          /\ \A k \in 1 .. Len(q) - m : d[k] = q[m + k]
      <3>1. \A i \in m + 1 .. Len(q) : q[i] \in Int
        BY <1>1, ElementOfSeq
      <3>2. /\ d \in Seq(Int)
            /\ Len(d) = Len(q) - (m + 1) + 1
            /\ \A k \in 1 .. Len(q) - (m + 1) + 1 : d[k] = q[(m + 1) + k - 1]
        BY <1>1, <1>2, <2>1, <3>1, SubSeqProperties
      <3>3. Len(q) - (m + 1) + 1 = Len(q) - m
        BY <1>1
      <3>4. ASSUME NEW k \in 1 .. Len(q) - m
            PROVE  d[k] = q[m + k]
        <4>1. d[k] = q[(m + 1) + k - 1]
          BY <3>2, <3>3
        <4>2. (m + 1) + k - 1 = m + k
          OBVIOUS
        <4> QED
          BY <4>1, <4>2
      <3> QED
        BY <3>2, <3>3, <3>4
    <2>3. \A k \in 1 .. Len(d) : d[k] = w - Len(d) + k
      <3> SUFFICES ASSUME NEW k \in 1 .. Len(d)
                   PROVE  d[k] = w - Len(d) + k
        OBVIOUS
      <3>1. d[k] = q[m + k] /\ m + k \in 1 .. Len(q)
        BY <1>1, <1>2, <2>2
      <3>2. q[m + k] = w - Len(q) + (m + k)
        BY <3>1 DEF Ascends
      <3> QED
        BY <1>1, <2>2, <3>1, <3>2
    <2>4. d = [k \in 1 .. Len(d) |-> d[k]]
      BY <2>2, LenProperties
    <2>5. Ascends(d, w)
      BY <2>3, <2>4 DEF Ascends
    <2> QED
      BY <1>1, <1>2, <2>2, <2>5 DEF Greatest
  <1>3. CASE ~(m < Len(q))
    <2>1. d = <<>>
      BY <1>3 DEF Fifo!Dropped
    <2>2. d \in Seq(Int) /\ Len(d) = 0
      BY <2>1, EmptySeq
    <2>3. Ascends(d, w)
      BY <2>1, <2>2 DEF Ascends
    <2> QED
      BY <1>1, <1>3, <2>2, <2>3 DEF Greatest
  <1> QED
    BY <1>2, <1>3

\* Samples that are written behind others; the first of them may be skipped when nothing is there
LEMMA AppendedAscends ==
  ASSUME NEW q \in Seq(Int), NEW w \in Int, Ascends(q, w),
         NEW n \in Nat, NEW skip \in 0 .. n, skip > 0 => q = <<>>
  PROVE  LET all == q \o [k \in 1 .. n - skip |-> w + skip + k]
         IN  /\ all \in Seq(Int)
             /\ Len(all) = Len(q) + (n - skip)
             /\ Ascends(all, w + n)
  <1> DEFINE stored == [k \in 1 .. n - skip |-> w + skip + k]
             all == q \o stored
  <1>1. Len(q) \in Nat /\ n - skip \in Nat
    BY LenIsNat
  <1>2. stored \in Seq(Int) /\ Len(stored) = n - skip
    <2>1. \A k \in 1 .. n - skip : w + skip + k \in Int
      OBVIOUS
    <2>2. stored \in [1 .. n - skip -> Int]
      BY <2>1
    <2> QED
      BY <1>1, <2>2, SeqDef, LenProperties
  <1>3. /\ all \in Seq(Int)
        /\ Len(all) = Len(q) + Len(stored)
        /\ \A k \in 1 .. Len(q) + Len(stored) :
             all[k] = IF k <= Len(q) THEN q[k] ELSE stored[k - Len(q)]
    BY <1>2, ConcatProperties
  <1>4. \A k \in 1 .. Len(all) : all[k] = (w + n) - Len(all) + k
    <2> SUFFICES ASSUME NEW k \in 1 .. Len(all)
                 PROVE  all[k] = (w + n) - Len(all) + k
      OBVIOUS
    <2>1. CASE k <= Len(q)
      <3>1. all[k] = q[k] /\ k \in 1 .. Len(q)
        BY <1>1, <1>2, <1>3, <2>1
      <3>2. q[k] = w - Len(q) + k
        BY <3>1 DEF Ascends
      <3>3. skip = 0
        BY <1>1, <2>1, EmptySeq
      <3> QED
        BY <1>1, <1>2, <1>3, <3>1, <3>2, <3>3
    <2>2. CASE ~(k <= Len(q))
      <3>1. all[k] = stored[k - Len(q)] /\ k - Len(q) \in 1 .. n - skip
        BY <1>1, <1>2, <1>3, <2>2
      <3>2. stored[k - Len(q)] = w + skip + (k - Len(q))
        BY <3>1
      <3> QED
        BY <1>1, <1>2, <1>3, <3>1, <3>2
    <2> QED
      BY <2>1, <2>2
  <1>5. all = [k \in 1 .. Len(all) |-> all[k]]
    BY <1>3, LenProperties
  <1>6. Ascends(all, w + n)
    BY <1>4, <1>5 DEF Ascends
  <1> QED
    BY <1>1, <1>2, <1>3, <1>6

\* A ring keeps the newest of what is written to it
LEMMA NewestAscends ==
  ASSUME NEW q \in Seq(Int), NEW w \in Int, Ascends(q, w), NEW m \in Nat
  PROVE  /\ Fifo!Newest(q, m) \in Seq(Int)
         /\ Len(Fifo!Newest(q, m)) = Least(Len(q), m)
         /\ Ascends(Fifo!Newest(q, m), w)
  <1>1. Len(q) \in Nat
    BY LenIsNat
  <1>2. CASE m < Len(q)
    <2>1. Len(q) - m \in Nat /\ Fifo!Newest(q, m) = Fifo!Dropped(q, Len(q) - m)
      BY <1>1, <1>2 DEF Fifo!Newest
    <2>2. /\ Fifo!Newest(q, m) \in Seq(Int)
          /\ Len(Fifo!Newest(q, m)) = Greatest(0, Len(q) - (Len(q) - m))
          /\ Ascends(Fifo!Newest(q, m), w)
      BY <2>1, DroppedAscends
    <2>3. Greatest(0, Len(q) - (Len(q) - m)) = Least(Len(q), m)
      BY <1>1, <1>2 DEF Greatest, Least
    <2> QED
      BY <2>2, <2>3
  <1>3. CASE ~(m < Len(q))
    BY <1>1, <1>3 DEF Fifo!Newest, Least
  <1> QED
    BY <1>2, <1>3

\* A discard takes zeros that are still to come, then samples, and leaves the rest to be skipped
LEMMA DiscardedRing ==
  ASSUME NEW q, NEW s, NEW w \in Int, IsRing(q, s, w), NEW n \in Nat
  PROVE  LET d == Discarded(q, s, n)
         IN  /\ IsRing(d.items, d.seek, w)
             /\ Len(d.items) <= Len(q)
             /\ Len(q) - Len(d.items) + Greatest(0, d.seek) = Greatest(0, s + n)
             /\ Len(d.items) - d.seek <= Len(q) - s
  <1> DEFINE d == Discarded(q, s, n)
  <1>1. q \in Seq(Int) /\ s \in Int /\ Len(q) \in Nat /\ Ascends(q, w) /\ s + n \in Int
    BY LenIsNat DEF IsRing
  <1>2. CASE s + n > 0
    <2>1. d.items = Fifo!Dropped(q, s + n) /\ d.seek = (s + n) - Least(Len(q), s + n)
      BY <1>2 DEF Discarded, LeftToSkip
    <2>2. /\ d.items \in Seq(Int)
          /\ Len(d.items) = Greatest(0, Len(q) - (s + n))
          /\ Ascends(d.items, w)
      BY <1>1, <1>2, <2>1, DroppedAscends
    <2> HIDE DEF d
    <2>3. CASE s + n < Len(q)
      <3>1. /\ Least(Len(q), s + n) = s + n
            /\ Greatest(0, Len(q) - (s + n)) = Len(q) - (s + n)
            /\ Greatest(0, s + n) = s + n
        BY <1>1, <1>2, <2>3 DEF Least, Greatest
      <3>2. d.seek = 0 /\ Len(d.items) = Len(q) - (s + n) /\ Greatest(0, d.seek) = 0
        BY <1>1, <2>1, <2>2, <3>1 DEF Greatest
      <3>3. IsRing(d.items, d.seek, w)
        BY <2>2, <3>2 DEF IsRing
      <3> QED
        BY <1>1, <1>2, <3>1, <3>2, <3>3 DEF d
    <2>4. CASE ~(s + n < Len(q))
      <3>1. /\ Least(Len(q), s + n) = Len(q)
            /\ Greatest(0, Len(q) - (s + n)) = 0
            /\ Greatest(0, s + n) = s + n
        BY <1>1, <1>2, <2>4 DEF Least, Greatest
      <3>2. d.seek = (s + n) - Len(q) /\ Len(d.items) = 0
        BY <2>1, <2>2, <3>1
      <3>3. Greatest(0, d.seek) = d.seek /\ d.seek \in Int
        BY <1>1, <2>4, <3>2 DEF Greatest
      <3>4. d.items = <<>>
        BY <2>2, <3>2, EmptySeq
      <3>5. IsRing(d.items, d.seek, w)
        BY <2>2, <3>3, <3>4 DEF IsRing
      <3> QED
        BY <1>1, <1>2, <3>1, <3>2, <3>3, <3>5, SMTT(30) DEF d
    <2> QED
      BY <2>3, <2>4
  <1>3. CASE ~(s + n > 0)
    <2>1. d.items = q /\ d.seek = s + n
      BY <1>3 DEF Discarded, LeftToSkip
    <2>2. IsRing(d.items, d.seek, w)
      BY <1>1, <1>3, <2>1 DEF IsRing
    <2> QED
      BY <1>1, <1>3, <2>1, <2>2 DEF Greatest
  <1> QED
    BY <1>2, <1>3

-----------------------------------------------------------------------------
(* Sizes *)

LEMMA PlanesIsPositive == Planes \in Nat /\ Planes >= 1
  BY PlanesAssumption

LEMMA TimesPlanes ==
  ASSUME NEW a \in Int
  PROVE  /\ a * Planes \in Int
         /\ a >= 0 => a * Planes >= a
         /\ a <= 0 => a * Planes <= 0
         /\ \A b \in Int : a <= b => a * Planes <= b * Planes
  <1>1. /\ Planes \in Int /\ Planes >= 1
    BY PlanesIsPositive
  <1>2. a * Planes \in Int
    BY <1>1
  <1>3. a >= 0 => a * Planes >= a
    BY <1>1
  <1>4. a <= 0 => a * Planes <= 0
    BY <1>1
  <1>5. ASSUME NEW b \in Int, a <= b
        PROVE  a * Planes <= b * Planes
    <2>1. (b - a) * Planes >= 0
      BY <1>1, <1>5
    <2>2. (b - a) * Planes = b * Planes - a * Planes
      BY <1>1
    <2> QED
      BY <1>1, <2>1, <2>2
  <1> QED
    BY <1>2, <1>3, <1>4, <1>5

LEMMA ShareOfPlanes == ASSUME NEW a \in Nat PROVE a \div Planes \in 0 .. a
  BY PlanesIsPositive

\* What is there to be read only depends on how much more the ring holds than is to be skipped
LEMMA CurrentSizes ==
  ASSUME NEW q \in Seq(Int), NEW s \in Int
  PROVE  /\ CurrentSizeOf(q, s) \in Nat
         /\ \A q2 \in Seq(Int), s2 \in Int :
              Len(q2) - s2 <= Len(q) - s => CurrentSizeOf(q2, s2) <= CurrentSizeOf(q, s)
  <1>1. ASSUME NEW r \in Seq(Int), NEW t \in Int
        PROVE  CurrentSizeOf(r, t) = IF Len(r) - t > 0 THEN (Len(r) - t) * Planes ELSE 0
    <2>1. Len(r) \in Nat
      BY LenIsNat
    <2> QED
      BY <2>1 DEF CurrentSizeOf
  <1>2. Len(q) \in Nat
    BY LenIsNat
  <1>3. CurrentSizeOf(q, s) \in Nat
    <2>1. (Len(q) - s) * Planes \in Int /\ (Len(q) - s >= 0 => (Len(q) - s) * Planes >= Len(q) - s)
      BY <1>2, TimesPlanes
    <2> QED
      BY <1>1, <1>2, <2>1
  <1>4. ASSUME NEW q2 \in Seq(Int), NEW s2 \in Int, Len(q2) - s2 <= Len(q) - s
        PROVE  CurrentSizeOf(q2, s2) <= CurrentSizeOf(q, s)
    <2>1. Len(q2) \in Nat
      BY LenIsNat
    <2>2. (Len(q2) - s2) * Planes <= (Len(q) - s) * Planes
      BY <1>2, <1>4, <2>1, TimesPlanes
    <2>3. CASE Len(q2) - s2 > 0
      BY <1>1, <1>2, <1>4, <2>1, <2>2, <2>3
    <2>4. CASE ~(Len(q2) - s2 > 0)
      BY <1>1, <1>3, <2>1, <2>4
    <2> QED
      BY <2>3, <2>4
  <1> QED
    BY <1>3, <1>4

\* Room in samples of one plane, below 0 when the ring holds more than is useable
Room(q, s, u) == u - Len(q) + Greatest(0, s)

LEMMA FreeSpaces ==
  ASSUME NEW q \in Seq(Int), NEW s \in Int, NEW u \in Nat, NEW st
  PROVE  /\ Room(q, s, u) \in Int
         /\ FreeSpaceOf(q, s, u, st) \in Nat
         /\ st # "kStatic" => FreeSpaceOf(q, s, u, st) >= Room(q, s, u)
         /\ \A q2 \in Seq(Int), s2 \in Int :
              Room(q2, s2, u) <= Greatest(0, Room(q, s, u))
                => FreeSpaceOf(q2, s2, u, st) <= FreeSpaceOf(q, s, u, st)
  <1>1. ASSUME NEW r \in Seq(Int), NEW t \in Int
        PROVE  /\ Room(r, t, u) \in Int
               /\ Room(r, t, u) * Planes \in Int
               /\ FreeSpaceOf(r, t, u, st) =
                    IF st = "kStatic" THEN 0 ELSE Greatest(0, Room(r, t, u) * Planes)
               /\ Room(r, t, u) >= 0 => Room(r, t, u) * Planes >= Room(r, t, u)
               /\ Room(r, t, u) <= 0 => Room(r, t, u) * Planes <= 0
    <2>1. Len(r) \in Nat
      BY LenIsNat
    <2>2. Room(r, t, u) \in Int
      BY <2>1 DEF Room, Greatest
    <2>3. FreeSpaceOf(r, t, u, st) =
            IF st = "kStatic" THEN 0 ELSE Greatest(0, Room(r, t, u) * Planes)
      BY DEF FreeSpaceOf, Room
    <2> QED
      BY <2>2, <2>3, TimesPlanes
  <1> DEFINE a == Room(q, s, u)
             Free(r, t) == FreeSpaceOf(r, t, u, st)
  <1>2. /\ a \in Int /\ a * Planes \in Int
        /\ Free(q, s) = IF st = "kStatic" THEN 0 ELSE Greatest(0, a * Planes)
        /\ (a >= 0 => a * Planes >= a) /\ (a <= 0 => a * Planes <= 0)
    BY <1>1
  <1>3. Greatest(0, a * Planes) \in Nat /\ Greatest(0, a * Planes) >= a
    BY <1>2 DEF Greatest
  <1>4. Free(q, s) \in Nat /\ (st # "kStatic" => Free(q, s) >= a)
    BY <1>2, <1>3
  <1>5. ASSUME NEW q2 \in Seq(Int), NEW s2 \in Int, Room(q2, s2, u) <= Greatest(0, a)
        PROVE  Free(q2, s2) <= Free(q, s)
    <2> DEFINE b == Room(q2, s2, u)
    <2>1. /\ b \in Int /\ b * Planes \in Int
          /\ Free(q2, s2) = IF st = "kStatic" THEN 0 ELSE Greatest(0, b * Planes)
          /\ (b <= 0 => b * Planes <= 0)
      BY <1>1
    <2>2. Greatest(0, b * Planes) <= Greatest(0, a * Planes)
      <3>1. CASE b <= 0
        <4>1. Greatest(0, b * Planes) = 0
          BY <2>1, <3>1 DEF Greatest
        <4> QED
          BY <1>3, <4>1
      <3>2. CASE b > 0
        <4>1. b <= a
          BY <1>2, <1>5, <2>1, <3>2 DEF Greatest
        <4>2. b * Planes <= a * Planes
          BY <1>2, <2>1, <4>1, TimesPlanes
        <4> QED
          BY <1>2, <2>1, <4>2 DEF Greatest
      <3> QED
        BY <2>1, <3>1, <3>2
    <2> QED
      BY <1>2, <2>1, <2>2
  <1> QED
    BY <1>2, <1>4, <1>5

LEMMA SizesAreNumbers ==
  ASSUME DataInv
  PROVE  /\ Len(items) \in Nat /\ seek \in Int /\ Greatest(0, seek) \in Nat
         /\ CurrentSize \in Nat /\ FreeSpace \in Nat
  <1>1. items \in Seq(Int) /\ seek \in Int /\ useable \in Nat
    BY DEF DataInv, IsRing
  <1>2. Len(items) \in Nat
    BY <1>1, LenIsNat
  <1>3. CurrentSize \in Nat
    BY <1>1, CurrentSizes DEF CurrentSize
  <1>4. FreeSpace \in Nat
    BY <1>1, FreeSpaces DEF FreeSpace
  <1>5. Greatest(0, seek) \in Nat
    BY <1>1 DEF Greatest
  <1> QED
    BY <1>1, <1>2, <1>3, <1>4, <1>5

-----------------------------------------------------------------------------
(* What the calls do to the samples *)

LEMMA InitData == Init => DataInv
  <1> SUFFICES ASSUME Init
               PROVE  DataInv
    OBVIOUS
  <1>1. /\ items = <<>> /\ seek = 0 /\ written = 0 /\ head = 0 /\ status = "kStreaming"
        /\ ringCapacity = Capacity /\ useable = Capacity
    BY DEF Init
  <1>2. items \in Seq(Int) /\ Len(items) = 0
    BY <1>1, EmptySeq
  <1>3. Ascends(items, written)
    BY <1>1, <1>2 DEF Ascends
  <1>4. IsRing(items, seek, written)
    BY <1>1, <1>2, <1>3 DEF IsRing
  <1>5. Greatest(0, seek) = 0
    BY <1>1 DEF Greatest
  <1> QED
    BY <1>1, <1>2, <1>4, <1>5, CapacityAssumption DEF DataInv

\* Zeros come first, and then what is there
LEMMA ReadsTypes ==
  ASSUME DataInv, NEW n \in Nat \ {0}
  PROVE  /\ ZerosRead(n) \in Nat /\ SamplesRead(n) \in Nat
         /\ seek >= 0 => ZerosRead(n) = 0
         /\ seek < 0 => seek + ZerosRead(n) <= 0
  <1>1. items \in Seq(Int) /\ seek \in Int
    BY DEF DataInv, IsRing
  <1>2. /\ ZerosRead(n) \in 0 .. n
        /\ seek >= 0 => ZerosRead(n) = 0
        /\ seek < 0 => seek + ZerosRead(n) <= 0
    BY <1>1 DEF ZerosRead, Least, Greatest
  <1>3. CurrentSizeOf(items, seek + ZerosRead(n)) \in Nat
    BY <1>1, <1>2, CurrentSizes, SMTT(30)
  <1> QED
    BY <1>2, <1>3 DEF SamplesRead, Least

LEMMA TakesData ==
  ASSUME DataInv, NEW n \in Nat \ {0}, TakeSamples(n)
  PROVE  DataInv' /\ status' = status /\ CurrentSize' <= CurrentSize
  <1> DEFINE z == ZerosRead(n)
             r == SamplesRead(n)
  <1>1. /\ items \in Seq(Int) /\ Len(items) \in Nat /\ seek \in Int /\ written \in Nat
        /\ Ascends(items, written) /\ (seek > 0 => items = <<>>)
        /\ z \in Nat /\ r \in Nat
    BY SizesAreNumbers, ReadsTypes DEF DataInv, IsRing
  <1>2. /\ items' = Fifo!Dropped(items, r)
        /\ seek' = seek + z
        /\ head' = head + Least(Len(items), r)
        /\ ringCapacity' = ringCapacity /\ useable' = useable /\ status' = status
        /\ written' = written
    BY DEF TakeSamples
  <1>3. /\ items' \in Seq(Int)
        /\ Len(items') = Greatest(0, Len(items) - r)
        /\ Ascends(items', written')
    <2> HIDE DEF r
    <2>1. items \in Seq(Int) /\ written \in Int /\ Ascends(items, written) /\ r \in Nat
      BY <1>1
    <2>2. /\ Fifo!Dropped(items, r) \in Seq(Int)
          /\ Len(Fifo!Dropped(items, r)) = Greatest(0, Len(items) - r)
          /\ Ascends(Fifo!Dropped(items, r), written)
      BY <2>1, DroppedAscends
    <2> QED
      BY <1>2, <2>2
  <1>4. /\ seek' \in Int
        /\ Greatest(0, seek') = Greatest(0, seek)
        /\ seek' > 0 => seek > 0
    <2>1. (seek >= 0 => z = 0) /\ (seek < 0 => seek + z <= 0)
      BY ReadsTypes
    <2>2. seek' = seek + z
      BY <1>2
    <2> HIDE DEF z
    <2>3. CASE seek >= 0
      BY <1>1, <2>1, <2>2, <2>3
    <2>4. CASE seek < 0
      BY <1>1, <2>1, <2>2, <2>4 DEF Greatest
    <2> QED
      BY <1>1, <2>3, <2>4
  <1>5. Len(items') <= Len(items) /\ Len(items') = Len(items) - Least(Len(items), r)
    BY <1>1, <1>3 DEF Greatest, Least
  <1>6. seek' > 0 => items' = <<>>
    <2> SUFFICES ASSUME seek' > 0
                 PROVE  items' = <<>>
      OBVIOUS
    <2>1. Len(items) = 0
      BY <1>1, <1>4, EmptySeq
    <2>2. Len(items') = 0
      BY <1>1, <1>3, <2>1 DEF Greatest
    <2> QED
      BY <1>3, <2>2, EmptySeq
  <1>7. IsRing(items', seek', written')
    BY <1>3, <1>4, <1>6 DEF IsRing
  <1>8. head' \in Int /\ head' = written' - Len(items') + Greatest(0, seek')
    <2>1. head = written - Len(items) + Greatest(0, seek) /\ Greatest(0, seek) \in Nat
      BY SizesAreNumbers DEF DataInv
    <2>2. Least(Len(items), r) \in Nat
      BY <1>1 DEF Least
    <2> QED
      BY <1>1, <1>2, <1>4, <1>5, <2>1, <2>2, SMTT(30)
  <1>9. DataInv'
    BY <1>1, <1>2, <1>5, <1>7, <1>8 DEF DataInv
  <1>10. CurrentSize' <= CurrentSize
    <2>1. Len(items') - seek' <= Len(items) - seek /\ Len(items') \in Nat
      BY <1>1, <1>2, <1>3, <1>5, LenIsNat
    <2> QED
      BY <1>1, <1>3, <1>4, <2>1, CurrentSizes DEF CurrentSize
  <1> QED
    BY <1>2, <1>9, <1>10

LEMMA DiscardsData ==
  ASSUME DataInv, NEW n \in Nat \ {0}, DiscardDataSizeInByte(n)
  PROVE  DataInv' /\ CurrentSize' <= CurrentSize
  <1> DEFINE d == Discarded(items, seek, n)
  <1>1. /\ IsRing(items, seek, written) /\ items \in Seq(Int) /\ Len(items) \in Nat
        /\ seek \in Int /\ written \in Nat /\ Greatest(0, seek) \in Nat
    BY SizesAreNumbers DEF DataInv, IsRing
  <1>2. /\ items' = d.items /\ seek' = d.seek
        /\ head' = head + Greatest(0, seek + n) - Greatest(0, seek)
        /\ ringCapacity' = ringCapacity /\ useable' = useable /\ status' = status
        /\ written' = written
    BY DEF DiscardDataSizeInByte
  <1>3. /\ IsRing(items', seek', written')
        /\ Len(items') <= Len(items)
        /\ Len(items) - Len(items') + Greatest(0, seek') = Greatest(0, seek + n)
        /\ Len(items') - seek' <= Len(items) - seek
    BY <1>1, <1>2, DiscardedRing
  <1>4. items' \in Seq(Int) /\ Len(items') \in Nat /\ seek' \in Int /\ Greatest(0, seek') \in Nat
    BY <1>3, LenIsNat DEF IsRing, Greatest
  <1>5. head' \in Int /\ head' = written' - Len(items') + Greatest(0, seek')
    <2>1. head = written - Len(items) + Greatest(0, seek)
      BY DEF DataInv
    <2>2. Greatest(0, seek + n) \in Int
      BY <1>1 DEF Greatest
    <2>3. Len(items) - Len(items') + Greatest(0, seek') = Greatest(0, seek + n)
      BY <1>3
    <2>4. head' = head + Greatest(0, seek + n) - Greatest(0, seek) /\ written' = written
      BY <1>2
    <2>5. Len(items) \in Nat /\ Greatest(0, seek) \in Nat /\ written \in Nat
      BY <1>1
    <2> QED
      BY <1>4, <2>1, <2>2, <2>3, <2>4, <2>5, SMTT(30)
  <1>6. DataInv'
    BY <1>1, <1>2, <1>3, <1>4, <1>5 DEF DataInv
  <1>7. CurrentSize' <= CurrentSize
    BY <1>1, <1>3, <1>4, CurrentSizes DEF CurrentSize
  <1> QED
    BY <1>6, <1>7

\* What a write finds when it has made room: it gives up no more than what it lacks
LEMMA RoomForWrite ==
  ASSUME DataInv, NEW n \in Nat \ {0}
  PROVE  LET room == Overwrite(n)
         IN  /\ IsRing(room.items, room.seek, written)
             /\ Len(room.items) <= Len(items)
             /\ status = "kStreaming" =>
                  Room(room.items, room.seek, useable) - n <= Greatest(0, Room(items, seek, useable))
             /\ n <= FreeSpace => room.items = items /\ room.seek = seek
  <1> DEFINE room == Overwrite(n)
             k == (n - FreeSpace) \div Planes
             d == Discarded(items, seek, k)
             f == Room(items, seek, useable)
  <1>1. /\ IsRing(items, seek, written) /\ items \in Seq(Int) /\ Len(items) \in Nat
        /\ seek \in Int /\ written \in Nat /\ useable \in Nat
        /\ FreeSpace \in Nat /\ Greatest(0, seek) \in Nat
    BY SizesAreNumbers DEF DataInv, IsRing
  <1>2. f \in Int /\ (status = "kStreaming" => FreeSpace >= f)
    BY <1>1, FreeSpaces DEF FreeSpace
  <1>3. CASE n > FreeSpace /\ (n - FreeSpace) % Planes = 0
    <2>1. room = d
      BY <1>3 DEF Overwrite
    <2>2. n - FreeSpace \in Nat
      BY <1>1, <1>3
    <2>3. k \in Nat /\ k <= n - FreeSpace
      BY <2>2, ShareOfPlanes
    <2>4. /\ IsRing(d.items, d.seek, written)
          /\ Len(d.items) <= Len(items)
          /\ Len(items) - Len(d.items) + Greatest(0, d.seek) = Greatest(0, seek + k)
      <3> HIDE DEF k
      <3> QED
        BY <1>1, <2>3, DiscardedRing
    <2>5. Len(d.items) \in Nat /\ Greatest(0, d.seek) \in Nat
      BY <2>4, LenIsNat DEF IsRing, Greatest
    <2>6. Greatest(0, seek + k) <= Greatest(0, seek) + k
      BY <1>1, <2>3 DEF Greatest
    <2>7. Greatest(0, seek + k) \in Int
      BY <1>1, <2>3 DEF Greatest
    <2>8. Room(d.items, d.seek, useable) <= f + k
      <3>1. /\ Room(d.items, d.seek, useable) = useable - Len(d.items) + Greatest(0, d.seek)
            /\ f = useable - Len(items) + Greatest(0, seek)
        BY DEF Room
      <3>2. Len(items) - Len(d.items) + Greatest(0, d.seek) = Greatest(0, seek + k)
        BY <2>4
      <3>3. Len(items) \in Nat /\ Greatest(0, seek) \in Nat /\ useable \in Nat
        BY <1>1
      <3> HIDE DEF d, k, f
      <3> QED
        BY <2>3, <2>5, <2>6, <2>7, <3>1, <3>2, <3>3, SMTT(30)
    <2>9. Room(d.items, d.seek, useable) \in Int
      BY <1>1, <2>5 DEF Room
    <2>10. status = "kStreaming" => Room(d.items, d.seek, useable) - n <= 0
      <3> HIDE DEF d, k, f
      <3> QED
        BY <1>1, <1>2, <2>3, <2>8, <2>9
    <2>11. Greatest(0, f) >= 0
      BY <1>2 DEF Greatest
    <2>12. ~(n <= FreeSpace)
      BY <1>1, <1>3
    <2>13. status = "kStreaming" => Room(d.items, d.seek, useable) - n <= Greatest(0, f)
      <3>1. Greatest(0, f) \in Int
        BY <1>2 DEF Greatest
      <3> HIDE DEF d, k, f
      <3> QED
        BY <2>9, <2>10, <2>11, <3>1
    <2> QED
      BY <2>1, <2>4, <2>12, <2>13
  <1>4. CASE ~(n > FreeSpace /\ (n - FreeSpace) % Planes = 0)
    <2>1. room.items = items /\ room.seek = seek
      BY <1>4 DEF Overwrite
    <2>2. f - n <= Greatest(0, f)
      BY <1>2 DEF Greatest
    <2> QED
      BY <1>1, <2>1, <2>2
  <1> QED
    BY <1>3, <1>4

\* What a ring keeps of a samples, and what it gives up
LEMMA KeepsAndGivesUp ==
  ASSUME NEW a \in Nat, NEW b \in Nat
  PROVE  /\ Least(a, b) \in Nat /\ Least(a, b) <= b
         /\ Least(a, b) + Greatest(0, a - b) = a
  BY DEF Least, Greatest

\* Room u - l + g, when n samples come of which k are skipped
LEMMA RoomMoves ==
  ASSUME NEW u \in Int, NEW l \in Int, NEW g \in Int, NEW n \in Int, NEW k \in Int,
         NEW h \in Int, k + h = g
  PROVE  u - (l + (n - k)) + h = (u - l + g) - n
  OBVIOUS

\* A write stores what is not to be skipped behind what the ring keeps
LEMMA PutsData ==
  ASSUME DataInv, NEW n \in Nat \ {0}, PutSamples(n)
  PROVE  DataInv' /\ status' = status /\ (status = "kStreaming" => FreeSpace' <= FreeSpace)
  <1> DEFINE room == Overwrite(n)
             q == room.items
             s == room.seek
             skip == Least(n, Greatest(0, s))
             stored == [k \in 1 .. n - skip |-> written + skip + k]
             all == q \o stored
             f == Room(items, seek, useable)
  <1>1. /\ items \in Seq(Int) /\ Len(items) \in Nat /\ seek \in Int /\ Greatest(0, seek) \in Nat
        /\ written \in Nat /\ ringCapacity \in Nat \ {0} /\ useable \in Nat \ {0}
        /\ useable <= ringCapacity /\ head \in Int
        /\ head = written - Len(items) + Greatest(0, seek)
    BY SizesAreNumbers DEF DataInv, IsRing
  <1>2. /\ IsRing(q, s, written)
        /\ status = "kStreaming" => Room(q, s, useable) - n <= Greatest(0, f)
    BY RoomForWrite
  <1>3. /\ q \in Seq(Int) /\ s \in Int /\ Len(q) \in Nat
        /\ Ascends(q, written) /\ (s > 0 => q = <<>>)
    BY <1>2, LenIsNat DEF IsRing
  <1>4. /\ items' = Fifo!Newest(all, ringCapacity)
        /\ seek' = s - skip
        /\ written' = written + n
        /\ head' = head + (Len(items) - Len(q)) + (Greatest(0, s) - Greatest(0, seek))
                        + Greatest(0, Len(q) + Len(stored) - ringCapacity)
        /\ ringCapacity' = ringCapacity /\ useable' = useable /\ status' = status
    BY DEF PutSamples
  <1> HIDE DEF room
  <1>5. /\ skip \in 0 .. n
        /\ (skip > 0 => s > 0)
        /\ skip + Greatest(0, s - skip) = Greatest(0, s)
        /\ (s - skip > 0 => skip = n /\ s > 0)
        /\ Greatest(0, s) \in Nat /\ Greatest(0, s - skip) \in Nat
    <2>1. CASE s > 0
      BY <1>3, <2>1 DEF Least, Greatest
    <2>2. CASE ~(s > 0)
      BY <1>3, <2>2 DEF Least, Greatest
    <2> QED
      BY <2>1, <2>2
  <1> HIDE DEF skip, q, s
  <1>6. /\ all \in Seq(Int)
        /\ Len(all) = Len(q) + (n - skip)
        /\ Ascends(all, written + n)
    <2>1. /\ q \in Seq(Int) /\ written \in Int /\ Ascends(q, written)
          /\ n \in Nat /\ skip \in 0 .. n /\ (skip > 0 => q = <<>>)
      BY <1>1, <1>3, <1>5
    <2> QED
      BY <2>1, AppendedAscends
  <1>7. Len(stored) = n - skip
    <2>1. n - skip \in Nat
      BY <1>5
    <2>2. \A k \in 1 .. n - skip : written + skip + k \in Int
      BY <1>1, <1>5
    <2>3. stored \in [1 .. n - skip -> Int]
      BY <2>2
    <2> QED
      BY <2>1, <2>3, SeqDef, LenProperties
  <1> HIDE DEF stored, all
  <1>8. /\ items' \in Seq(Int)
        /\ Len(items') = Least(Len(q) + (n - skip), ringCapacity)
        /\ Ascends(items', written')
    BY <1>1, <1>4, <1>6, NewestAscends, SMTT(30)
  <1>9. seek' > 0 => items' = <<>>
    <2> SUFFICES ASSUME seek' > 0
                 PROVE  items' = <<>>
      OBVIOUS
    <2>1. Len(q) = 0 /\ skip = n
      BY <1>3, <1>4, <1>5, EmptySeq
    <2>2. Len(items') = 0
      BY <1>1, <1>8, <2>1 DEF Least
    <2> QED
      BY <1>8, <2>2, EmptySeq
  <1>10. IsRing(items', seek', written')
    BY <1>3, <1>4, <1>5, <1>8, <1>9 DEF IsRing
  <1>11. /\ Len(items') \in Nat /\ Len(items') <= ringCapacity
         /\ Len(items') + Greatest(0, Len(q) + (n - skip) - ringCapacity) = Len(q) + (n - skip)
    <2>1. /\ Len(q) + (n - skip) \in Nat /\ ringCapacity \in Nat
          /\ Len(items') = Least(Len(q) + (n - skip), ringCapacity)
      BY <1>1, <1>3, <1>5, <1>8
    <2>2. Len(q) + (n - skip) - ringCapacity = (Len(q) + (n - skip)) - ringCapacity
      BY <1>1, <1>3, <1>5
    <2>3. /\ Least(Len(q) + (n - skip), ringCapacity) \in Nat
          /\ Least(Len(q) + (n - skip), ringCapacity) <= ringCapacity
          /\ Least(Len(q) + (n - skip), ringCapacity)
               + Greatest(0, (Len(q) + (n - skip)) - ringCapacity) = Len(q) + (n - skip)
      BY <2>1, KeepsAndGivesUp, Zenon
    <2> QED
      BY <2>1, <2>2, <2>3
  <1>12. head' \in Int /\ head' = written' - Len(items') + Greatest(0, seek')
    <2>1. head' = head + (Len(items) - Len(q)) + (Greatest(0, s) - Greatest(0, seek))
                       + Greatest(0, Len(q) + (n - skip) - ringCapacity)
      <3>1. Len(q) + Len(stored) = Len(q) + (n - skip)
        BY <1>7
      <3> QED
        BY <1>4, <1>3, <1>5, <3>1, SMTT(30)
    <2>2. Greatest(0, Len(q) + (n - skip) - ringCapacity) \in Int
      BY <1>1, <1>3, <1>5 DEF Greatest
    <2>3. Greatest(0, seek') = Greatest(0, s) - skip /\ written' = written + n
      BY <1>4, <1>5
    <2>4. /\ head = written - Len(items) + Greatest(0, seek)
          /\ written \in Nat /\ Len(items) \in Nat /\ Greatest(0, seek) \in Nat
          /\ Len(q) \in Nat /\ n \in Nat /\ skip \in Nat /\ Greatest(0, s) \in Nat
          /\ Len(items') \in Nat
      BY <1>1, <1>3, <1>5, <1>11
    <2>5. Len(items') + Greatest(0, Len(q) + (n - skip) - ringCapacity) = Len(q) + (n - skip)
      BY <1>11
    <2>6. head' = (written - Len(items) + Greatest(0, seek)) + (Len(items) - Len(q))
                   + (Greatest(0, s) - Greatest(0, seek))
                   + Greatest(0, Len(q) + (n - skip) - ringCapacity)
      BY <2>1, <2>4
    <2>7. head' = (written + n) - Len(items') + (Greatest(0, s) - skip)
      <3> DEFINE o == Greatest(0, Len(q) + (n - skip) - ringCapacity)
      <3>1. o \in Int /\ Len(items') + o = Len(q) + (n - skip)
        BY <2>2, <2>5
      <3>2. head' = (written - Len(items) + Greatest(0, seek)) + (Len(items) - Len(q))
                      + (Greatest(0, s) - Greatest(0, seek)) + o
        BY <2>6
      <3> HIDE DEF o
      <3>3. (written - Len(items) + Greatest(0, seek)) + (Len(items) - Len(q))
              + (Greatest(0, s) - Greatest(0, seek)) + o
              = (written + n) - Len(items') + (Greatest(0, s) - skip)
        <4>1. /\ written \in Int /\ Len(items) \in Int /\ Greatest(0, seek) \in Int
              /\ Len(q) \in Int /\ Greatest(0, s) \in Int /\ n \in Int /\ skip \in Int
              /\ o \in Int /\ Len(items') \in Int
          BY <2>4, <3>1
        <4> DEFINE w == written
                   l == Len(items)
                   g == Greatest(0, seek)
                   l1 == Len(q)
                   g1 == Greatest(0, s)
                   l2 == Len(items')
        <4>2. /\ w \in Int /\ l \in Int /\ g \in Int /\ l1 \in Int /\ g1 \in Int /\ l2 \in Int
              /\ l2 + o = l1 + (n - skip)
          BY <3>1, <4>1
        <4> HIDE DEF w, l, g, l1, g1, l2
        <4>3. (w - l + g) + (l - l1) + (g1 - g) + o = (w + n) - l2 + (g1 - skip)
          BY <4>1, <4>2
        <4> QED
          BY <4>3 DEF w, l, g, l1, g1, l2
      <3> QED
        BY <3>2, <3>3
    <2> QED
      BY <2>3, <2>4, <2>7
  <1>13. DataInv'
    BY <1>1, <1>4, <1>10, <1>11, <1>12 DEF DataInv
  <1>14. status = "kStreaming" => FreeSpace' <= FreeSpace
    <2> SUFFICES ASSUME status = "kStreaming"
                 PROVE  FreeSpace' <= FreeSpace
      OBVIOUS
    <2>1. f \in Int
      BY <1>1, FreeSpaces
    <2> HIDE DEF f
    <2>2. Greatest(0, f) \in Nat
      BY <2>1 DEF Greatest
    <2>3. /\ Len(q) \in Nat /\ n \in Nat /\ skip \in 0 .. n /\ Greatest(0, s) \in Nat
          /\ Greatest(0, s - skip) \in Nat /\ skip + Greatest(0, s - skip) = Greatest(0, s)
          /\ useable \in Nat /\ ringCapacity \in Nat /\ useable <= ringCapacity
          /\ Len(items') = Least(Len(q) + (n - skip), ringCapacity)
      BY <1>1, <1>3, <1>5, <1>8
    <2>4. Room(items', seek', useable) = useable - Len(items') + Greatest(0, s - skip)
      BY <1>4 DEF Room
    <2>5. Room(q, s, useable) = useable - Len(q) + Greatest(0, s)
      BY DEF Room
    <2>6. Room(items', seek', useable) <= Greatest(0, f)
      <3>1. CASE Len(q) + (n - skip) < ringCapacity
        <4>1. Len(items') = Len(q) + (n - skip)
          BY <2>3, <3>1 DEF Least
        <4>2. Room(items', seek', useable) = Room(q, s, useable) - n
          <5>1. useable - (Len(q) + (n - skip)) + Greatest(0, s - skip)
                  = (useable - Len(q) + Greatest(0, s)) - n
            BY <2>3, RoomMoves
          <5> QED
            BY <2>4, <2>5, <4>1, <5>1
        <4> QED
          BY <1>2, <4>2
      <3>2. CASE ~(Len(q) + (n - skip) < ringCapacity)
        <4>1. Len(items') = ringCapacity
          BY <2>3, <3>2 DEF Least
        <4>2. ringCapacity > 0
          BY <1>1
        <4>3. ~(s - skip > 0)
          <5>1. ASSUME s - skip > 0
                PROVE  FALSE
            <6>1. Len(q) = 0 /\ skip = n
              BY <1>3, <1>5, <5>1, EmptySeq
            <6> QED
              BY <2>3, <3>2, <4>2, <6>1
          <5> QED
            BY <5>1
        <4>4. Greatest(0, s - skip) = 0
          BY <1>3, <1>5, <4>3 DEF Greatest
        <4> QED
          BY <2>2, <2>3, <2>4, <4>1, <4>4
      <3> QED
        BY <3>1, <3>2
    <2>7. seek' \in Int
      BY <1>10 DEF IsRing
    <2>8. Room(items', seek', useable) <= Greatest(0, Room(items, seek, useable))
      BY <2>6 DEF f
    <2> QED
      BY <1>1, <1>4, <1>8, <2>7, <2>8, FreeSpaces DEF FreeSpace
  <1> QED
    BY <1>4, <1>13, <1>14

\* The calls that neither read, write nor discard
LEMMA OthersData ==
  ASSUME DataInv,
         \/ \E who : CancelWaits(who)
         \/ Reset
         \/ \E n \in ZeroSizes : FillZeroFront(n)
         \/ WriteCompletion
         \/ \E c \in Capacities : ResetUseableCapacity(c)
  PROVE  DataInv'
  <1>1. /\ items \in Seq(Int) /\ Len(items) \in Nat /\ seek \in Int /\ Greatest(0, seek) \in Nat
        /\ Ascends(items, written) /\ (seek > 0 => items = <<>>)
        /\ written \in Nat /\ head \in Int
        /\ ringCapacity \in Nat \ {0} /\ useable \in Nat \ {0}
        /\ status \in {"kStreaming", "kStatic"}
        /\ head = written - Len(items) + Greatest(0, seek)
        /\ Len(items) <= ringCapacity /\ useable <= ringCapacity
    BY SizesAreNumbers DEF DataInv, IsRing
  <1>2. ASSUME NEW who, CancelWaits(who)
        PROVE  DataInv'
    BY <1>2 DEF CancelWaits, bufferVars, DataInv
  <1>3. CASE Reset
    <2>1. /\ items' = <<>> /\ seek' = 0 /\ status' = "kStreaming" /\ head' = written
          /\ UNCHANGED <<ringCapacity, useable, written>>
      BY <1>3 DEF Reset
    <2>2. items' \in Seq(Int) /\ Len(items') = 0
      BY <2>1, EmptySeq
    <2>3. Ascends(items', written')
      BY <2>1, <2>2 DEF Ascends
    <2>4. IsRing(items', seek', written')
      BY <2>1, <2>2, <2>3 DEF IsRing
    <2>5. Greatest(0, seek') = 0
      BY <2>1 DEF Greatest
    <2>6. head' = written' - Len(items') + Greatest(0, seek') /\ Len(items') <= ringCapacity'
      BY <1>1, <2>1, <2>2, <2>5
    <2> QED
      BY <1>1, <2>1, <2>4, <2>6 DEF DataInv
  <1>4. ASSUME NEW n \in ZeroSizes, FillZeroFront(n)
        PROVE  DataInv'
    <2>1. n \in Nat \ {0}
      BY SizesAssumption
    <2>2. /\ seek' = -n /\ head' = head - Greatest(0, seek)
          /\ UNCHANGED <<items, ringCapacity, useable, status, written>>
      BY <1>4 DEF FillZeroFront
    <2>3. seek' \in Int /\ seek' < 0 /\ Greatest(0, seek') = 0
      BY <2>1, <2>2 DEF Greatest
    <2>4. IsRing(items', seek', written')
      BY <1>1, <2>2, <2>3 DEF IsRing
    <2>5. head' \in Int /\ head' = written' - Len(items') + Greatest(0, seek')
      BY <1>1, <2>2, <2>3
    <2> QED
      BY <1>1, <2>2, <2>4, <2>5 DEF DataInv
  <1>5. CASE WriteCompletion
    BY <1>1, <1>5 DEF WriteCompletion, DataInv
  <1>6. ASSUME NEW c \in Capacities, ResetUseableCapacity(c)
        PROVE  DataInv'
    <2>1. c \in Nat \ {0}
      BY SizesAssumption
    <2>2. /\ ringCapacity' = IF useable < c /\ c >= Len(items) THEN c ELSE ringCapacity
          /\ useable' = c
          /\ UNCHANGED <<items, seek, status, written, head>>
      BY <1>6 DEF ResetUseableCapacity
    <2>3. ringCapacity' \in Nat \ {0} /\ Len(items') <= ringCapacity' /\ useable' <= ringCapacity'
      BY <1>1, <2>1, <2>2
    <2>4. IsRing(items', seek', written')
      BY <2>2 DEF DataInv
    <2> QED
      BY <1>1, <2>1, <2>2, <2>3, <2>4 DEF DataInv
  <1> QED
    BY <1>2, <1>3, <1>4, <1>5, <1>6

-----------------------------------------------------------------------------
(* What the calls do to those who wait *)

\* A reader that goes on sleeping does so for less than it slept for before
LEMMA ReaderSleepsOn ==
  ASSUME DataInv, DataInv', ReaderInv, status' = status, CurrentSize' <= CurrentSize,
         UNCHANGED <<reader, cancelRead>>,
         "reader" \in notified \union silent => "reader" \in notified' \union silent'
  PROVE  ReaderInv'
  <1>1. ReaderSleeps' => ReaderSleeps
    BY DEF ReaderSleeps
  <1>2. MustWaitToRead(reader) => MustWaitToRead(reader)'
    <2>1. CurrentSize \in Nat /\ CurrentSize' \in Nat
      <3>1. items' \in Seq(Int) /\ seek' \in Int
        BY DEF DataInv, IsRing
      <3> QED
        BY <3>1, SizesAreNumbers, CurrentSizes DEF CurrentSize
    <2>2. reader * Planes \in Int /\ reader' * Planes = reader * Planes
      BY PlanesIsPositive DEF ReaderInv
    <2> QED
      BY <2>1, <2>2 DEF MustWaitToRead
  <1> QED
    BY <1>1, <1>2 DEF ReaderInv

\* A reader is told when there is what it waits for
LEMMA ReaderIsTold ==
  ASSUME DataInv', ReaderInv, UNCHANGED <<reader, cancelRead>>, status' = status,
         "reader" \in notified \union silent => "reader" \in notified' \union silent',
         CheckIfNotifyRead \subseteq notified'
  PROVE  ReaderInv'
  <1>1. ReaderSleeps' => ReaderSleeps
    BY DEF ReaderSleeps
  <1>2. ReaderSleeps' => ~(CurrentSize' >= reader' * Planes)
    BY DEF ReaderSleeps, CheckIfNotifyRead
  <1>3. CurrentSize' \in Int /\ reader' * Planes \in Int
    <2>1. items' \in Seq(Int) /\ seek' \in Int
      BY DEF DataInv, IsRing
    <2>2. reader' \in Nat
      BY DEF ReaderInv
    <2> QED
      BY <2>1, <2>2, CurrentSizes, PlanesIsPositive DEF CurrentSize
  <1>4. ReaderSleeps' => MustWaitToRead(reader)'
    BY <1>1, <1>2, <1>3 DEF ReaderInv, MustWaitToRead
  <1> QED
    BY <1>1, <1>4 DEF ReaderInv

\* So is a writer that goes on sleeping, and so is one told
LEMMA WriterSleepsOn ==
  ASSUME DataInv, DataInv', WriterInv, status' = status,
         status = "kStreaming" => FreeSpace' <= FreeSpace,
         UNCHANGED <<writer, cancelWrite>>,
         "writer" \in notified \union silent => "writer" \in notified' \union silent'
  PROVE  WriterInv'
  <1>1. WriterSleeps' => WriterSleeps
    BY DEF WriterSleeps
  <1>2. MustWaitToWrite(writer) => MustWaitToWrite(writer)'
    <2>1. FreeSpace \in Nat /\ FreeSpace' \in Nat
      <3>1. items' \in Seq(Int) /\ seek' \in Int /\ useable' \in Nat
        BY DEF DataInv, IsRing
      <3> QED
        BY <3>1, SizesAreNumbers, FreeSpaces DEF FreeSpace
    <2> QED
      BY <2>1 DEF MustWaitToWrite, WriterInv
  <1> QED
    BY <1>1, <1>2 DEF WriterInv

LEMMA WriterIsTold ==
  ASSUME DataInv', WriterInv, UNCHANGED <<writer, cancelWrite>>, status' = status,
         "writer" \in notified \union silent => "writer" \in notified' \union silent',
         CheckIfNotifyWrite \subseteq notified'
  PROVE  WriterInv'
  <1>1. WriterSleeps' => WriterSleeps
    BY DEF WriterSleeps
  <1>2. WriterSleeps' => ~(FreeSpace' >= writer')
    BY DEF WriterSleeps, CheckIfNotifyWrite
  <1>3. FreeSpace' \in Int /\ writer' \in Int
    <2>1. items' \in Seq(Int) /\ seek' \in Int /\ useable' \in Nat
      BY DEF DataInv, IsRing
    <2>2. writer' \in Nat
      BY DEF WriterInv
    <2>3. FreeSpace' = FreeSpaceOf(items', seek', useable', status')
      BY DEF FreeSpace
    <2>4. FreeSpace' \in Nat
      BY <2>1, <2>3, FreeSpaces
    <2> QED
      BY <2>2, <2>4
  <1>4. WriterSleeps' => MustWaitToWrite(writer)'
    BY <1>1, <1>2, <1>3 DEF WriterInv, MustWaitToWrite
  <1> QED
    BY <1>1, <1>4 DEF WriterInv

\* Nothing is said of a reader or a writer that does not wait
LEMMA NoReader == reader = 0 /\ ~cancelRead => ReaderInv
  BY DEF ReaderInv, ReaderSleeps

LEMMA NoWriter == writer = 0 /\ ~cancelWrite => WriterInv
  BY DEF WriterInv, WriterSleeps

LEMMA ReadBuffer ==
  ASSUME BufferInv, (\E n \in ReadSizes : Read(n) \/ BlockingRead(n)) \/ WakeReader
  PROVE  BufferInv'
  <1>1. DataInv /\ ReaderInv /\ WriterInv /\ ReadSizes \subseteq Nat \ {0}
    BY SizesAssumption DEF BufferInv
  <1>2. ASSUME NEW m \in Nat \ {0}, TakeSamples(m), UNCHANGED <<writer, cancelWrite>>,
               "writer" \in notified \union silent => "writer" \in notified' \union silent',
               CheckIfNotifyWrite \subseteq notified'
        PROVE  DataInv' /\ status' = status /\ CurrentSize' <= CurrentSize /\ WriterInv'
    <2>1. DataInv' /\ status' = status /\ CurrentSize' <= CurrentSize
      BY <1>1, <1>2, TakesData
    <2> QED
      BY <1>1, <1>2, <2>1, WriterIsTold
  <1>3. ASSUME NEW n \in ReadSizes, Read(n)
        PROVE  BufferInv'
    <2>1. /\ TakeSamples(n) /\ UNCHANGED <<reader, writer, cancelRead, cancelWrite, silent>>
          /\ notified' = notified \union CheckIfNotifyWrite
      BY <1>3 DEF Read
    <2>2. DataInv' /\ status' = status /\ CurrentSize' <= CurrentSize /\ WriterInv'
      BY <1>1, <1>2, <2>1
    <2>3. ReaderInv'
      BY <1>1, <2>1, <2>2, ReaderSleepsOn
    <2> QED
      BY <2>2, <2>3 DEF BufferInv
  <1>4. ASSUME NEW n \in ReadSizes, BlockingRead(n), MustWaitToRead(n)
        PROVE  BufferInv'
    <2>1. /\ reader = 0 /\ reader' = n
          /\ UNCHANGED <<writer, cancelRead, cancelWrite, silent, bufferVars, notified, written, head>>
      BY <1>4 DEF BlockingRead
    <2>2. DataInv' /\ WriterInv'
      BY <1>1, <2>1
      DEF bufferVars, DataInv, WriterInv, WriterSleeps, MustWaitToWrite, FreeSpace
    <2>3. ~cancelRead
      BY <1>1, <2>1 DEF ReaderInv
    <2>4. MustWaitToRead(reader)'
      BY <1>4, <2>1 DEF MustWaitToRead, CurrentSize, bufferVars
    <2>5. ReaderInv'
      BY <1>1, <2>1, <2>3, <2>4 DEF ReaderInv
    <2> QED
      BY <2>2, <2>5 DEF BufferInv
  <1>5. ASSUME NEW n \in ReadSizes, BlockingRead(n), ~MustWaitToRead(n)
        PROVE  BufferInv'
    <2>1. /\ reader = 0 /\ reader' = reader /\ TakeSamples(n)
          /\ UNCHANGED <<writer, cancelRead, cancelWrite, silent>>
          /\ notified' = notified \union CheckIfNotifyWrite
      BY <1>5 DEF BlockingRead
    <2>2. DataInv' /\ WriterInv'
      BY <1>1, <1>2, <2>1
    <2>3. ReaderInv'
      BY <1>1, <2>1 DEF ReaderInv, ReaderSleeps
    <2> QED
      BY <2>2, <2>3 DEF BufferInv
  <1>6. CASE WakeReader /\ ~cancelRead /\ MustWaitToRead(reader)
    <2>1. /\ ~cancelRead /\ MustWaitToRead(reader)
          /\ UNCHANGED <<writer, cancelWrite, bufferVars, reader, cancelRead, written, head>>
          /\ silent' = silent \ {"reader"} /\ notified' = notified \ {"reader"}
      BY <1>6 DEF WakeReader
    <2>2. DataInv' /\ WriterInv'
      BY <1>1, <2>1
      DEF bufferVars, DataInv, WriterInv, WriterSleeps, MustWaitToWrite, FreeSpace
    <2>3. MustWaitToRead(reader)'
      BY <2>1 DEF MustWaitToRead, CurrentSize, bufferVars
    <2>4. ReaderInv'
      BY <1>1, <2>1, <2>3 DEF ReaderInv
    <2> QED
      BY <2>2, <2>4 DEF BufferInv
  <1>7. CASE WakeReader /\ ~(~cancelRead /\ MustWaitToRead(reader))
    <2>1. /\ reader > 0 /\ TakeSamples(reader) /\ reader' = 0 /\ cancelRead' = FALSE
          /\ UNCHANGED <<writer, cancelWrite>>
          /\ silent' = silent \ {"reader"}
          /\ notified' = (notified \ {"reader"}) \union CheckIfNotifyWrite
      BY <1>7 DEF WakeReader
    <2>2. reader \in Nat \ {0}
      BY <1>1, <2>1 DEF ReaderInv
    <2>3. DataInv' /\ WriterInv'
      BY <1>1, <1>2, <2>1, <2>2
    <2>4. ReaderInv'
      BY <2>1 DEF ReaderInv, ReaderSleeps
    <2> QED
      BY <2>3, <2>4 DEF BufferInv
  <1> QED
    BY <1>3, <1>4, <1>5, <1>6, <1>7

LEMMA WriteBuffer ==
  ASSUME BufferInv, (\E n \in WriteSizes : Write(n) \/ BlockingWrite(n)) \/ WakeWriter
  PROVE  BufferInv'
  <1>1. DataInv /\ ReaderInv /\ WriterInv /\ WriteSizes \subseteq Nat \ {0}
    BY SizesAssumption DEF BufferInv
  <1>2. ASSUME NEW m \in Nat \ {0}, PutSamples(m), UNCHANGED <<reader, cancelRead>>,
               "reader" \in notified \union silent => "reader" \in notified' \union silent',
               CheckIfNotifyRead \subseteq notified'
        PROVE  /\ DataInv' /\ status' = status /\ ReaderInv'
               /\ status = "kStreaming" => FreeSpace' <= FreeSpace
    <2>1. DataInv' /\ status' = status /\ (status = "kStreaming" => FreeSpace' <= FreeSpace)
      BY <1>1, <1>2, PutsData
    <2> QED
      BY <1>1, <1>2, <2>1, ReaderIsTold
  <1>3. ASSUME NEW n \in WriteSizes, Write(n)
        PROVE  BufferInv'
    <2>1. /\ PutSamples(n) /\ UNCHANGED <<reader, writer, cancelRead, cancelWrite, silent>>
          /\ notified' = notified \union CheckIfNotifyRead
      BY <1>3 DEF Write
    <2>2. /\ DataInv' /\ status' = status /\ ReaderInv'
          /\ status = "kStreaming" => FreeSpace' <= FreeSpace
      BY <1>1, <1>2, <2>1
    <2>3. WriterInv'
      BY <1>1, <2>1, <2>2, WriterSleepsOn
    <2> QED
      BY <2>2, <2>3 DEF BufferInv
  <1>4. ASSUME NEW n \in WriteSizes, BlockingWrite(n), MustWaitToWrite(n)
        PROVE  BufferInv'
    <2>1. /\ writer = 0 /\ writer' = n
          /\ UNCHANGED <<reader, cancelRead, cancelWrite, silent, bufferVars, notified, written, head>>
      BY <1>4 DEF BlockingWrite
    <2>2. DataInv' /\ ReaderInv'
      BY <1>1, <2>1
      DEF bufferVars, DataInv, ReaderInv, ReaderSleeps, MustWaitToRead, CurrentSize
    <2>3. ~cancelWrite
      BY <1>1, <2>1 DEF WriterInv
    <2>4. MustWaitToWrite(writer)'
      BY <1>4, <2>1 DEF MustWaitToWrite, FreeSpace, bufferVars
    <2>5. WriterInv'
      BY <1>1, <2>1, <2>3, <2>4 DEF WriterInv
    <2> QED
      BY <2>2, <2>5 DEF BufferInv
  <1>5. ASSUME NEW n \in WriteSizes, BlockingWrite(n), ~MustWaitToWrite(n)
        PROVE  BufferInv'
    <2>1. /\ writer = 0 /\ writer' = writer /\ PutSamples(n)
          /\ UNCHANGED <<reader, cancelRead, cancelWrite, silent>>
          /\ notified' = notified \union CheckIfNotifyRead
      BY <1>5 DEF BlockingWrite
    <2>2. DataInv' /\ ReaderInv'
      BY <1>1, <1>2, <2>1
    <2>3. WriterInv'
      BY <1>1, <2>1 DEF WriterInv, WriterSleeps
    <2> QED
      BY <2>2, <2>3 DEF BufferInv
  <1>6. CASE WakeWriter /\ ~cancelWrite /\ MustWaitToWrite(writer)
    <2>1. /\ ~cancelWrite /\ MustWaitToWrite(writer)
          /\ UNCHANGED <<reader, cancelRead, bufferVars, writer, cancelWrite, written, head>>
          /\ silent' = silent \ {"writer"} /\ notified' = notified \ {"writer"}
      BY <1>6 DEF WakeWriter
    <2>2. DataInv' /\ ReaderInv'
      BY <1>1, <2>1
      DEF bufferVars, DataInv, ReaderInv, ReaderSleeps, MustWaitToRead, CurrentSize
    <2>3. MustWaitToWrite(writer)'
      BY <2>1 DEF MustWaitToWrite, FreeSpace, bufferVars
    <2>4. WriterInv'
      BY <1>1, <2>1, <2>3 DEF WriterInv
    <2> QED
      BY <2>2, <2>4 DEF BufferInv
  <1>7. CASE WakeWriter /\ ~(~cancelWrite /\ MustWaitToWrite(writer))
    <2>1. /\ writer > 0 /\ PutSamples(writer) /\ writer' = 0 /\ cancelWrite' = FALSE
          /\ UNCHANGED <<reader, cancelRead>>
          /\ silent' = silent \ {"writer"}
          /\ notified' = (notified \ {"writer"}) \union CheckIfNotifyRead
      BY <1>7 DEF WakeWriter
    <2>2. writer \in Nat \ {0}
      BY <1>1, <2>1 DEF WriterInv
    <2>3. DataInv' /\ ReaderInv'
      BY <1>1, <1>2, <2>1, <2>2
    <2>4. WriterInv'
      BY <2>1 DEF WriterInv, WriterSleeps
    <2> QED
      BY <2>3, <2>4 DEF BufferInv
  <1> QED
    BY <1>3, <1>4, <1>5, <1>6, <1>7

LEMMA DiscardBuffer ==
  ASSUME BufferInv, NEW n \in DiscardSizes, DiscardDataSizeInByte(n)
  PROVE  BufferInv'
  <1>1. DataInv /\ ReaderInv /\ WriterInv /\ n \in Nat \ {0}
    BY SizesAssumption DEF BufferInv
  <1>2. DataInv' /\ CurrentSize' <= CurrentSize
    BY <1>1, DiscardsData
  <1>3. /\ UNCHANGED <<status, reader, writer, cancelRead, cancelWrite, silent>>
        /\ notified' = notified \union CheckIfNotifyWrite
    BY DEF DiscardDataSizeInByte
  <1>4. ReaderInv'
    BY <1>1, <1>2, <1>3, ReaderSleepsOn
  <1>5. WriterInv'
    BY <1>1, <1>2, <1>3, WriterIsTold
  <1> QED
    BY <1>2, <1>4, <1>5 DEF BufferInv

\* Cancelling tells those it is for, and the three silent calls count those who wait
LEMMA OthersBuffer ==
  ASSUME BufferInv,
         \/ \E who \in {{"reader"}, {"writer"}, {"reader", "writer"}} : CancelWaits(who)
         \/ Reset
         \/ \E n \in ZeroSizes : FillZeroFront(n)
         \/ WriteCompletion
         \/ \E c \in Capacities : ResetUseableCapacity(c)
  PROVE  BufferInv'
  <1>1. DataInv /\ ReaderInv /\ WriterInv
    BY DEF BufferInv
  <1>2. DataInv'
    BY <1>1, OthersData
  <1>3. ASSUME NEW who \in {{"reader"}, {"writer"}, {"reader", "writer"}}, CancelWaits(who)
        PROVE  ReaderInv' /\ WriterInv'
    <2>1. /\ cancelRead' = (cancelRead \/ ("reader" \in who /\ reader > 0))
          /\ cancelWrite' = (cancelWrite \/ ("writer" \in who /\ writer > 0))
          /\ notified \subseteq notified'
          /\ ("reader" \in who /\ reader > 0) => "reader" \in notified'
          /\ ("writer" \in who /\ writer > 0) => "writer" \in notified'
          /\ UNCHANGED <<reader, writer, silent, items, seek, useable, status>>
      BY <1>3 DEF CancelWaits, Cancel, bufferVars
    <2>2. ReaderInv'
      BY <1>1, <2>1 DEF ReaderInv, ReaderSleeps, MustWaitToRead, CurrentSize
    <2>3. WriterInv'
      BY <1>1, <2>1 DEF WriterInv, WriterSleeps, MustWaitToWrite, FreeSpace
    <2> QED
      BY <2>2, <2>3
  <1>4. ASSUME Reset
        PROVE  ReaderInv' /\ WriterInv'
    <2>1. /\ cancelRead' = (cancelRead \/ reader > 0)
          /\ cancelWrite' = (cancelWrite \/ writer > 0)
          /\ reader > 0 => "reader" \in notified'
          /\ writer > 0 => "writer" \in notified'
          /\ UNCHANGED <<reader, writer>>
      BY <1>4 DEF Reset, Cancel
    <2> QED
      BY <1>1, <2>1 DEF ReaderInv, WriterInv, ReaderSleeps, WriterSleeps
  <1>5. ASSUME Silently
        PROVE  ReaderInv' /\ WriterInv'
    <2>1. /\ reader > 0 => "reader" \in silent'
          /\ writer > 0 => "writer" \in silent'
          /\ UNCHANGED <<reader, writer, cancelRead, cancelWrite>>
      BY <1>5 DEF Silently
    <2> QED
      BY <1>1, <2>1 DEF ReaderInv, WriterInv, ReaderSleeps, WriterSleeps
  <1>6. (\E n \in ZeroSizes : FillZeroFront(n)) \/ WriteCompletion
          \/ (\E c \in Capacities : ResetUseableCapacity(c)) => Silently
    BY DEF FillZeroFront, WriteCompletion, ResetUseableCapacity
  <1>7. ReaderInv' /\ WriterInv'
    BY <1>3, <1>4, <1>5, <1>6
  <1> QED
    BY <1>2, <1>7 DEF BufferInv

-----------------------------------------------------------------------------

LEMMA InitBuffer == Init => BufferInv
  <1>1. Init => ReaderInv /\ WriterInv
    BY DEF Init, ReaderInv, WriterInv, ReaderSleeps, WriterSleeps
  <1> QED
    BY <1>1, InitData DEF BufferInv

LEMMA NextBuffer == BufferInv /\ [Next]_vars => BufferInv'
  <1> SUFFICES ASSUME BufferInv, [Next]_vars
               PROVE  BufferInv'
    OBVIOUS
  <1>1. CASE UNCHANGED vars
    BY <1>1
    DEF vars, bufferVars, waitVars, BufferInv, DataInv, ReaderInv, WriterInv, ReaderSleeps,
        WriterSleeps, MustWaitToRead, MustWaitToWrite, CurrentSize, FreeSpace
  <1>2. CASE Calls
    BY <1>2, ReadBuffer, WriteBuffer, DiscardBuffer, OthersBuffer DEF Calls
  <1>3. Next => Calls \/ UNCHANGED vars
    BY DEF Next, Calls, Transfers, ReadsAll, GoesOnReading, WritesAll, GoesOnWriting, Transferred
  <1> QED
    BY <1>1, <1>2, <1>3

\* Nothing is lost, repeated or reordered but what was discarded or overwritten: the members of
\* audio_buffer_common_reader.h count the samples of the ring as the calls say (EverySampleIsAccountedFor).
THEOREM AccountingCorrect == Spec => []EverySampleIsAccountedFor
  <1>1. BufferInv => EverySampleIsAccountedFor
    BY DEF BufferInv, DataInv, IsRing, Ascends, EverySampleIsAccountedFor
  <1> QED
    BY <1>1, InitBuffer, NextBuffer, PTL DEF Spec

\* Who sleeps has reason to, or will be woken: the tests behind each read, write and discard
\* (CheckIfNotifyRead, CheckIfNotifyWrite) tell whoever can go on, but for the three silent calls.
THEOREM WakeupsCorrect == Spec => []NoLostWakeup
  <1>1. BufferInv => NoLostWakeup
    BY DEF BufferInv, ReaderInv, WriterInv, ReaderSleeps, WriterSleeps, NoLostWakeup
  <1> QED
    BY <1>1, InitBuffer, NextBuffer, PTL DEF Spec

-----------------------------------------------------------------------------

\* A write that found room for itself is stored behind all that is there
LEMMA WriteKeeps ==
  ASSUME BufferInv, Planes = 1, WakeWriter, ~cancelWrite, status = "kStreaming"
  PROVE  Len(items) <= Len(items') /\ SubSeq(items', 1, Len(items)) = items
  <1>1. /\ items \in Seq(Int) /\ Len(items) \in Nat /\ seek \in Int /\ Greatest(0, seek) \in Nat
        /\ (seek > 0 => items = <<>>)
        /\ useable \in Nat /\ ringCapacity \in Nat /\ useable <= ringCapacity
        /\ Len(items) <= ringCapacity
        /\ FreeSpace \in Nat /\ writer \in Nat /\ writer > 0 /\ written \in Nat
    BY SizesAreNumbers DEF BufferInv, DataInv, WriterInv, IsRing, WakeWriter
  <1>2. CASE MustWaitToWrite(writer)
    <2>1. items' = items
      BY <1>2 DEF WakeWriter, bufferVars
    <2> QED
      BY <1>1, <2>1, SubSeqFull
  <1>3. CASE ~MustWaitToWrite(writer)
    <2> DEFINE n == writer
               skip == Least(n, Greatest(0, seek))
               stored == [k \in 1 .. n - skip |-> written + skip + k]
               all == items \o stored
    <2>1. n <= FreeSpace
      BY <1>1, <1>3 DEF MustWaitToWrite
    <2>2. Overwrite(n).items = items /\ Overwrite(n).seek = seek
      BY <1>1, <2>1 DEF Overwrite
    <2>3. items' = Fifo!Newest(all, ringCapacity)
      BY <1>3, <2>2 DEF WakeWriter, PutSamples
    <2>4. FreeSpace = Greatest(0, useable - Len(items) + Greatest(0, seek))
      BY <1>1 DEF FreeSpace, FreeSpaceOf
    <2>5. n <= useable - Len(items) + Greatest(0, seek)
      BY <1>1, <2>1, <2>4 DEF Greatest
    <2>6. skip \in 0 .. n /\ n - skip \in Nat /\ Len(items) + (n - skip) <= useable
      <3>1. CASE seek > 0
        <4>1. Len(items) = 0 /\ Greatest(0, seek) = seek
          BY <1>1, <3>1, EmptySeq DEF Greatest
        <4> QED
          BY <1>1, <2>5, <3>1, <4>1 DEF Least
      <3>2. CASE ~(seek > 0)
        <4>1. Greatest(0, seek) = 0 /\ skip = 0
          BY <1>1, <3>2 DEF Greatest, Least
        <4> QED
          BY <1>1, <2>5, <4>1
      <3> QED
        BY <3>1, <3>2
    <2> HIDE DEF skip
    <2>7. stored \in Seq(Int) /\ Len(stored) = n - skip
      <3>1. \A k \in 1 .. n - skip : written + skip + k \in Int
        BY <1>1, <2>6
      <3>2. stored \in [1 .. n - skip -> Int]
        BY <3>1
      <3> QED
        BY <2>6, <3>2, SeqDef, LenProperties
    <2> HIDE DEF stored
    <2>8. all \in Seq(Int) /\ Len(all) = Len(items) + (n - skip)
      <3>1. items \in Seq(Int) /\ stored \in Seq(Int)
        BY <1>1, <2>7
      <3>2. all \in Seq(Int) /\ Len(all) = Len(items) + Len(stored)
        BY <3>1, ConcatProperties
      <3> QED
        BY <2>7, <3>2
    <2>9. items' = all
      BY <1>1, <2>3, <2>6, <2>8 DEF Fifo!Newest
    <2> HIDE DEF all
    <2>10. SubSeq(all, 1, Len(items)) = items
      BY <1>1, <2>7, SubSeqOfConcat1 DEF all
    <2> QED
      BY <1>1, <2>6, <2>8, <2>9, <2>10
  <1> QED
    BY <1>2, <1>3

\* A blocking write of one plane that nobody cancelled keeps what was not read, whatever happened
\* while it waited: it tests the room again behind each wake-up (WaitingWrite).
THEOREM KeepsCorrect == Planes = 1 => (Spec => BlockingWriteKeeps)
  <1> SUFFICES ASSUME Planes = 1
               PROVE  Spec => BlockingWriteKeeps
    OBVIOUS
  <1>1. BufferInv /\ [Next]_vars =>
          [WakeWriter /\ ~cancelWrite /\ status = "kStreaming"
             => Len(items) <= Len(items') /\ SubSeq(items', 1, Len(items)) = items]_vars
    BY WriteKeeps
  <1> QED
    BY <1>1, InitBuffer, NextBuffer, PTL DEF Spec, BlockingWriteKeeps

-----------------------------------------------------------------------------
(***************************************************************************)
(* The ring of bytes under a plane.  It is made with the capacity of the    *)
(* plane and told the same capacities; it may also be one that grows.       *)
(* Parameters are what RingBuffer assumes of its constants.                 *)
(***************************************************************************)
CONSTANTS AutoAdjusts, MaxCapacity, GrowthThreshold, MaxWrite
VARIABLES ring, autoAdjust, bytes, answer

Ring == INSTANCE RingBuffer WITH written <- bytes

\* A ring with both positions in it, the write position ahead of the read position or, once it
\* wrapped, behind it
IsRingOfBytes(r) ==
  /\ r = [count |-> r.count, data |-> r.data, read |-> r.read, write |-> r.write, wrap |-> r.wrap]
  /\ r.count \in Nat \ {0}
  /\ r.data \in [0 .. r.count - 1 -> Int]
  /\ r.read \in 0 .. r.count /\ r.write \in 0 .. r.count
  /\ \/ r.wrap = "same" /\ r.read <= r.write
     \/ r.wrap = "diff" /\ r.write <= r.read

\* Where the k-th readable byte is, and the readable bytes
Place(r, k) ==
  IF r.read + k - 1 < r.count THEN r.read + k - 1 ELSE r.read + k - 1 - r.count

Contents(r) == [k \in 1 .. Ring!Readable(r) |-> r.data[Place(r, k)]]

-----------------------------------------------------------------------------
(* The ring and the bytes in it *)

\* What is readable lies in the ring and fits into it
LEMMA ReadableFacts ==
  ASSUME NEW r, IsRingOfBytes(r)
  PROVE  /\ Ring!Readable(r) \in 0 .. r.count /\ Ring!Writable(r) \in 0 .. r.count
         /\ \A k \in 1 .. Ring!Readable(r) : Place(r, k) \in 0 .. r.count - 1
         /\ Contents(r) \in Seq(Int) /\ Len(Contents(r)) = Ring!Readable(r)
  <1>1. Ring!Readable(r) \in 0 .. r.count
    BY DEF IsRingOfBytes, Ring!Readable
  <1>2. Ring!Writable(r) \in 0 .. r.count
    BY <1>1 DEF IsRingOfBytes, Ring!Writable
  <1>3. ASSUME NEW k \in 1 .. Ring!Readable(r)
        PROVE  Place(r, k) \in 0 .. r.count - 1
    BY <1>1 DEF IsRingOfBytes, Ring!Readable, Place
  <1>4. \A k \in 1 .. Ring!Readable(r) : r.data[Place(r, k)] \in Int
    BY <1>3 DEF IsRingOfBytes
  <1>5. Contents(r) \in [1 .. Ring!Readable(r) -> Int]
    BY <1>4 DEF Contents
  <1>6. Contents(r) \in Seq(Int)
    BY <1>1, <1>5, SeqDef
  <1>7. Len(Contents(r)) = Ring!Readable(r)
    BY <1>1, <1>5, <1>6, LenProperties
  <1> QED
    BY <1>1, <1>2, <1>3, <1>6, <1>7

\* A sequence that is given by its elements
LEMMA SequenceOf ==
  ASSUME NEW n \in Nat, NEW f \in [1 .. n -> Int]
  PROVE  f \in Seq(Int) /\ Len(f) = n
  <1>1. f \in Seq(Int)
    BY SeqDef
  <1> QED
    BY <1>1, LenProperties

\* Bytes of the ring that do not cross its end
LEMMA PieceFacts ==
  ASSUME NEW r, IsRingOfBytes(r), NEW p \in Nat, NEW m \in Nat, p + m <= r.count
  PROVE  /\ Ring!Piece(r, p, m) \in Seq(Int) /\ Len(Ring!Piece(r, p, m)) = m
         /\ \A k \in 1 .. m : Ring!Piece(r, p, m)[k] = r.data[p + k - 1]
  <1>1. \A k \in 1 .. m : p + k - 1 \in 0 .. r.count - 1
    BY DEF IsRingOfBytes
  <1>2. Ring!Piece(r, p, m) \in [1 .. m -> Int]
    BY <1>1 DEF Ring!Piece, IsRingOfBytes
  <1>3. \A k \in 1 .. m : Ring!Piece(r, p, m)[k] = r.data[p + k - 1]
    BY DEF Ring!Piece
  <1> QED
    BY <1>2, <1>3, SequenceOf

\* WebRtc_ReadBuffer returns the oldest of the readable bytes, up to n
LEMMA LoadedContents ==
  ASSUME NEW r, IsRingOfBytes(r), NEW n \in Nat
  PROVE  /\ Ring!Loaded(r, n) \in Seq(Int)
         /\ Len(Ring!Loaded(r, n)) = Ring!Least(Ring!Readable(r), n)
         /\ \A k \in 1 .. Ring!Least(Ring!Readable(r), n) : Ring!Loaded(r, n)[k] = Contents(r)[k]
  <1> DEFINE len == Ring!Least(Ring!Readable(r), n)
             margin == r.count - r.read
  <1>1. /\ Ring!Readable(r) \in 0 .. r.count /\ len \in 0 .. Ring!Readable(r) /\ margin \in Nat
        /\ \A k \in 1 .. Ring!Readable(r) : Place(r, k) \in 0 .. r.count - 1
    BY ReadableFacts DEF IsRingOfBytes, Ring!Least
  <1>2. ASSUME NEW k \in 1 .. len
        PROVE  Contents(r)[k] = r.data[Place(r, k)]
    BY <1>1 DEF Contents
  <1>4. CASE len > margin
    <2> DEFINE p1 == Ring!Piece(r, r.read, margin)
               p2 == Ring!Piece(r, 0, len - margin)
    <2>1. Ring!Loaded(r, n) = p1 \o p2
      BY <1>4 DEF Ring!Loaded
    <2>2. /\ r.read \in Nat /\ len - margin \in Nat
          /\ r.read + margin <= r.count /\ 0 + (len - margin) <= r.count
      BY <1>1, <1>4 DEF IsRingOfBytes
    <2>3. /\ p1 \in Seq(Int) /\ Len(p1) = margin
          /\ \A k \in 1 .. margin : p1[k] = r.data[r.read + k - 1]
      BY <1>1, <2>2, PieceFacts
    <2>4. /\ p2 \in Seq(Int) /\ Len(p2) = len - margin
          /\ \A k \in 1 .. len - margin : p2[k] = r.data[0 + k - 1]
      BY <2>2, PieceFacts
    <2> HIDE DEF p1, p2
    <2>5. /\ p1 \o p2 \in Seq(Int) /\ Len(p1 \o p2) = Len(p1) + Len(p2)
          /\ \A k \in 1 .. Len(p1) + Len(p2) :
               (p1 \o p2)[k] = IF k <= Len(p1) THEN p1[k] ELSE p2[k - Len(p1)]
      BY <2>3, <2>4, ConcatProperties
    <2>6. Len(p1) + Len(p2) = len
      BY <1>1, <2>3, <2>4
    <2>7. ASSUME NEW k \in 1 .. len
          PROVE  (p1 \o p2)[k] = r.data[Place(r, k)]
      <3>1. CASE k <= margin
        <4>1. (p1 \o p2)[k] = p1[k] /\ k \in 1 .. margin
          BY <1>1, <2>3, <2>5, <2>6, <3>1
        <4>2. Place(r, k) = r.read + k - 1
          BY <1>1, <3>1 DEF IsRingOfBytes, Place
        <4> QED
          BY <2>3, <4>1, <4>2
      <3>2. CASE ~(k <= margin)
        <4>1. k - margin \in 1 .. len - margin
          BY <1>1, <3>2
        <4>2. (p1 \o p2)[k] = p2[k - margin]
          BY <2>3, <2>5, <2>6, <3>2
        <4>3. Place(r, k) = 0 + (k - margin) - 1
          BY <1>1, <3>2 DEF IsRingOfBytes, Place
        <4> QED
          BY <2>4, <4>1, <4>2, <4>3
      <3> QED
        BY <3>1, <3>2
    <2> QED
      BY <1>2, <2>1, <2>5, <2>6, <2>7
  <1>5. CASE ~(len > margin)
    <2>1. Ring!Loaded(r, n) = Ring!Piece(r, r.read, len)
      BY <1>5 DEF Ring!Loaded
    <2>2. r.read \in Nat /\ len \in Nat /\ r.read + len <= r.count
      BY <1>1, <1>5 DEF IsRingOfBytes
    <2>3. ASSUME NEW k \in 1 .. len
          PROVE  Place(r, k) = r.read + k - 1
      BY <1>1, <2>2 DEF IsRingOfBytes, Place
    <2>4. /\ Ring!Piece(r, r.read, len) \in Seq(Int) /\ Len(Ring!Piece(r, r.read, len)) = len
          /\ \A k \in 1 .. len : Ring!Piece(r, r.read, len)[k] = r.data[r.read + k - 1]
      BY <2>2, PieceFacts
    <2>5. ASSUME NEW k \in 1 .. len
          PROVE  Ring!Piece(r, r.read, len)[k] = Contents(r)[k]
      BY <1>2, <2>3, <2>4
    <2> QED
      BY <2>1, <2>4, <2>5
  <1> QED
    BY <1>4, <1>5

\* The readable bytes, all of them
LEMMA AllLoaded ==
  ASSUME NEW r, IsRingOfBytes(r), NEW n \in Nat, n >= Ring!Readable(r)
  PROVE  Ring!Loaded(r, n) = Contents(r)
  <1>1. Ring!Least(Ring!Readable(r), n) = Ring!Readable(r)
    BY ReadableFacts DEF IsRingOfBytes, Ring!Least
  <1>2. /\ Contents(r) \in Seq(Int) /\ Len(Contents(r)) = Ring!Readable(r)
        /\ Ring!Loaded(r, n) \in Seq(Int) /\ Len(Ring!Loaded(r, n)) = Ring!Readable(r)
        /\ \A k \in 1 .. Ring!Readable(r) : Ring!Loaded(r, n)[k] = Contents(r)[k]
    BY <1>1, ReadableFacts, LoadedContents
  <1> QED
    BY <1>2, SeqEqual

\* What Dropped of ByteFifo leaves
LEMMA LeftAfterDrop ==
  ASSUME NEW q \in Seq(Int), NEW d \in 0 .. Len(q)
  PROVE  /\ Ring!Fifo!Dropped(q, d) \in Seq(Int)
         /\ Len(Ring!Fifo!Dropped(q, d)) = Len(q) - d
         /\ \A k \in 1 .. Len(q) - d : Ring!Fifo!Dropped(q, d)[k] = q[k + d]
  <1>1. Len(q) \in Nat
    BY LenProperties
  <1>2. CASE d < Len(q)
    <2>1. Ring!Fifo!Dropped(q, d) = SubSeq(q, d + 1, Len(q))
      BY <1>2 DEF Ring!Fifo!Dropped
    <2>2. \A i \in d + 1 .. Len(q) : q[i] \in Int
      BY <1>1, ElementOfSeq
    <2>3. /\ Ring!Fifo!Dropped(q, d) \in Seq(Int)
          /\ Len(Ring!Fifo!Dropped(q, d)) = Len(q) - (d + 1) + 1
          /\ \A k \in 1 .. Len(q) - (d + 1) + 1 : Ring!Fifo!Dropped(q, d)[k] = q[(d + 1) + k - 1]
      BY <1>1, <1>2, <2>1, <2>2, SubSeqProperties
    <2>4. Len(q) - (d + 1) + 1 = Len(q) - d
      BY <1>1
    <2>5. ASSUME NEW k \in 1 .. Len(q) - d
          PROVE  Ring!Fifo!Dropped(q, d)[k] = q[k + d]
      <3>1. (d + 1) + k - 1 = k + d
        OBVIOUS
      <3> QED
        BY <2>3, <2>4, <3>1
    <2> QED
      BY <2>3, <2>4, <2>5
  <1>3. CASE ~(d < Len(q))
    <2>1. Ring!Fifo!Dropped(q, d) = <<>> /\ Len(q) - d = 0
      BY <1>1, <1>3 DEF Ring!Fifo!Dropped
    <2> QED
      BY <2>1, EmptySeq
  <1> QED
    BY <1>2, <1>3

\* WebRtc_MoveReadPtr takes the oldest bytes away
LEMMA MovedReadContents ==
  ASSUME NEW r, IsRingOfBytes(r), NEW n \in Nat
  PROVE  LET m == Ring!MovedRead(r, n)
             d == Ring!Least(n, Ring!Readable(r))
         IN  /\ IsRingOfBytes(m) /\ m.count = r.count
             /\ Ring!Readable(m) = Ring!Readable(r) - d
             /\ Contents(m) = Ring!Fifo!Dropped(Contents(r), d)
  <1> DEFINE m == Ring!MovedRead(r, n)
             d == Ring!Least(n, Ring!Readable(r))
             p == r.read + d
  <1>1. /\ Ring!Readable(r) \in 0 .. r.count /\ d \in 0 .. Ring!Readable(r)
        /\ Contents(r) \in Seq(Int) /\ Len(Contents(r)) = Ring!Readable(r)
    BY ReadableFacts DEF IsRingOfBytes, Ring!Least
  <1>2. /\ m.count = r.count /\ m.data = r.data /\ m.write = r.write
        /\ m.read = IF p > r.count THEN p - r.count ELSE p
        /\ m.wrap = IF p > r.count THEN "same" ELSE r.wrap
        /\ m = [count |-> m.count, data |-> m.data, read |-> m.read, write |-> m.write,
                wrap |-> m.wrap]
    BY DEF Ring!MovedRead, Ring!Advance, Ring!Wraps, IsRingOfBytes
  <1>3. IsRingOfBytes(m)
    BY <1>1, <1>2, SMTT(30) DEF IsRingOfBytes, Ring!Readable
  <1>4. Ring!Readable(m) = Ring!Readable(r) - d
    BY <1>1, <1>2 DEF IsRingOfBytes, Ring!Readable
  <1>5. ASSUME NEW k \in 1 .. Ring!Readable(m)
        PROVE  Contents(m)[k] = Contents(r)[k + d]
    <2>1. k + d \in 1 .. Ring!Readable(r)
      BY <1>1, <1>4
    <2>2. Place(m, k) = Place(r, k + d)
      <3>1. /\ r.read \in Int /\ r.count \in Int /\ d \in Int /\ k \in Int
            /\ k <= Ring!Readable(r) - d /\ Ring!Readable(r) <= r.count /\ r.read <= r.count
        BY <1>1, <1>4 DEF IsRingOfBytes
      <3>2. CASE p > r.count
        <4>1. m.read = p - r.count /\ p = r.read + d
          BY <1>2, <3>2
        <4>2. /\ r.wrap = "diff" /\ r.write \in 0 .. r.read
              /\ Ring!Readable(r) = r.count - r.read + r.write
          BY <1>1, <3>2 DEF IsRingOfBytes, Ring!Readable
        <4> QED
          BY <1>2, <3>1, <3>2, <4>1, <4>2 DEF Place
      <3>3. CASE ~(p > r.count)
        <4>1. m.read = r.read + d
          BY <1>2, <3>3
        <4> QED
          BY <1>2, <3>1, <4>1 DEF Place
      <3> QED
        BY <3>2, <3>3
    <2> QED
      BY <1>2, <2>1, <2>2 DEF Contents
  <1>6. Contents(m) \in Seq(Int) /\ Len(Contents(m)) = Ring!Readable(m)
    BY <1>3, ReadableFacts
  <1>7. /\ Ring!Fifo!Dropped(Contents(r), d) \in Seq(Int)
        /\ Len(Ring!Fifo!Dropped(Contents(r), d)) = Ring!Readable(r) - d
        /\ \A k \in 1 .. Ring!Readable(r) - d :
             Ring!Fifo!Dropped(Contents(r), d)[k] = Contents(r)[k + d]
    BY <1>1, LeftAfterDrop
  <1>8. Contents(m) = Ring!Fifo!Dropped(Contents(r), d)
    BY <1>4, <1>5, <1>6, <1>7, SeqEqual
  <1> QED
    BY <1>2, <1>3, <1>4, <1>8

\* WebRtc_WriteBuffer puts what there is room for behind the readable bytes, and leaves those
LEMMA StoredContents ==
  ASSUME NEW r, IsRingOfBytes(r), NEW xs \in Seq(Int), Len(xs) <= Ring!Writable(r)
  PROVE  LET m == Ring!Stored(r, xs)
         IN  /\ IsRingOfBytes(m) /\ m.count = r.count
             /\ Ring!Readable(m) = Ring!Readable(r) + Len(xs)
             /\ Contents(m) = Contents(r) \o xs
  <1> DEFINE m == Ring!Stored(r, xs)
             ahead == r.write .. r.write + Len(xs) - 1
  <1>1. PICK c \in Nat, p \in Nat, w \in Nat, q \in Nat, n \in Nat :
          c = r.count /\ p = r.read /\ w = r.write /\ q = Ring!Readable(r) /\ n = Len(xs)
    BY ReadableFacts, LenProperties, SMTT(30) DEF IsRingOfBytes
  <1>0. c \in Nat /\ p \in Nat /\ w \in Nat /\ q \in Nat /\ n \in Nat
    OBVIOUS
  <1>2. c > 0 /\ p <= c /\ w <= c /\ q <= c /\ q + n <= c
    <2>1. c > 0 /\ p <= c /\ w <= c
      BY <1>1 DEF IsRingOfBytes
    <2>2. q <= c /\ n <= c - q
      BY <1>1, ReadableFacts DEF Ring!Writable
    <2> QED
      BY ONLY <1>0, <2>1, <2>2
  <1>3. Ring!Least(Ring!Writable(r), Len(xs)) = Len(xs) /\ xs \in [1 .. n -> Int]
    BY <1>1, ReadableFacts, LenProperties DEF Ring!Least
  <1>4. DOMAIN r.data = 0 .. c - 1 /\ \A i \in 0 .. c - 1 : r.data[i] \in Int
    BY <1>1 DEF IsRingOfBytes
  <1>5. \/ r.wrap = "same" /\ q = w - p /\ p <= w
        \/ r.wrap = "diff" /\ q = c - p + w /\ w <= p
    BY <1>1 DEF IsRingOfBytes, Ring!Readable
  <1>6. ASSUME IsRingOfBytes(m), m.count = r.count, Ring!Readable(m) = q + n,
               \A k \in 1 .. q : m.data[Place(m, k)] = r.data[Place(r, k)],
               \A k \in 1 .. n : m.data[Place(m, q + k)] = xs[k]
        PROVE  Contents(m) = Contents(r) \o xs
    <2>1. /\ Contents(m) \in Seq(Int) /\ Len(Contents(m)) = q + n
          /\ Contents(r) \in Seq(Int) /\ Len(Contents(r)) = q
      BY <1>1, <1>6, ReadableFacts
    <2>2. /\ Contents(r) \o xs \in Seq(Int)
          /\ Len(Contents(r) \o xs) = Len(Contents(r)) + Len(xs)
          /\ \A k \in 1 .. Len(Contents(r)) + Len(xs) :
               (Contents(r) \o xs)[k] = IF k <= Len(Contents(r)) THEN Contents(r)[k]
                                        ELSE xs[k - Len(Contents(r))]
      BY <2>1, ConcatProperties
    <2>3. ASSUME NEW k \in 1 .. q + n
          PROVE  Contents(m)[k] = (Contents(r) \o xs)[k]
      <3>1. Contents(m)[k] = m.data[Place(m, k)]
        BY <1>6 DEF Contents
      <3>2. (Contents(r) \o xs)[k] = IF k <= q THEN Contents(r)[k] ELSE xs[k - q]
        BY <1>1, <2>1, <2>2
      <3>3. CASE k <= q
        <4>1. k \in 1 .. q
          BY ONLY <1>0, <3>3, k \in 1 .. q + n
        <4>2. Contents(r)[k] = r.data[Place(r, k)]
          BY <1>1, <4>1 DEF Contents
        <4> QED
          BY <1>6, <3>1, <3>2, <3>3, <4>1, <4>2
      <3>4. CASE ~(k <= q)
        <4>1. k - q \in 1 .. n /\ q + (k - q) = k
          BY ONLY <1>0, <3>4, k \in 1 .. q + n
        <4>2. m.data[Place(m, k)] = xs[k - q]
          BY <1>6, <4>1
        <4> QED
          BY <3>1, <3>2, <3>4, <4>2
      <3> QED
        BY <3>3, <3>4
    <2> QED
      BY <1>1, <2>1, <2>2, <2>3, SeqEqual
  <1>7. CASE n > c - w
    <2>1. p <= w /\ q = w - p /\ r.wrap = "same"
      <3>1. CASE r.wrap = "same" /\ q = w - p /\ p <= w
        BY <3>1
      <3>2. CASE q = c - p + w /\ w <= p
        BY ONLY <1>0, <1>2, <1>7, <3>2
      <3> QED
        BY <1>5, <3>1, <3>2
    <2>2. p <= w /\ q = w - p
      BY <2>1
    <2>3. m.count = c /\ m.read = p /\ m.write = n - (c - w) /\ m.wrap = "diff"
      BY <1>1, <1>3, <1>7 DEF Ring!Stored, IsRingOfBytes
    <2>4. /\ m.data = [i \in DOMAIN r.data |->
                         IF i >= r.write THEN xs[i - r.write + 1]
                         ELSE IF i < Len(xs) - (r.count - r.write)
                                THEN xs[r.count - r.write + i + 1]
                         ELSE r.data[i]]
          /\ m = [count |-> m.count, data |-> m.data, read |-> m.read, write |-> m.write,
                  wrap |-> m.wrap]
      BY <1>1, <1>3, <1>7 DEF Ring!Stored, IsRingOfBytes
    <2>5. m.data = [i \in 0 .. c - 1 |->
                      IF i >= w THEN xs[i - w + 1]
                      ELSE IF i < n - (c - w) THEN xs[c - w + i + 1] ELSE r.data[i]]
      BY <1>1, <1>4, <2>4
    <2>6. n - (c - w) \in Nat /\ n - (c - w) <= p
      BY ONLY <1>0, <1>2, <1>7, <2>2
    <2>7. ASSUME NEW i \in 0 .. c - 1
          PROVE  /\ i >= w => i - w + 1 \in 1 .. n
                 /\ i < n - (c - w) => c - w + i + 1 \in 1 .. n
      BY ONLY <1>0, <1>2, <1>7, <2>2, i \in 0 .. c - 1
    <2>8. m.data \in [0 .. c - 1 -> Int]
      BY <1>3, <1>4, <2>5, <2>7
    <2>9. IsRingOfBytes(m)
      <3>1. m.write \in 0 .. m.count /\ m.read \in 0 .. m.count /\ m.write <= m.read
        BY ONLY <1>0, <1>2, <2>3, <2>6
      <3> QED
        BY <1>1, <1>2, <2>3, <2>4, <2>8, <3>1 DEF IsRingOfBytes
    <2>10. Ring!Readable(m) = q + n
      <3>1. Ring!Readable(m) = c - p + (n - (c - w))
        BY <2>3 DEF Ring!Readable
      <3>2. c - p + (n - (c - w)) = q + n
        BY ONLY <1>0, <2>2
      <3> QED
        BY <3>1, <3>2
    <2>11. ASSUME NEW k \in 1 .. q
           PROVE  m.data[Place(m, k)] = r.data[Place(r, k)]
      <3>1. /\ p + k - 1 \in 0 .. c - 1 /\ p + k - 1 < c
            /\ ~(p + k - 1 >= w) /\ ~(p + k - 1 < n - (c - w))
        BY ONLY <1>0, <1>2, <2>2, <2>6, k \in 1 .. q
      <3>2. Place(r, k) = p + k - 1 /\ Place(m, k) = p + k - 1
        BY <1>1, <2>3, <3>1 DEF Place
      <3> QED
        BY <2>5, <3>1, <3>2
    <2>12. ASSUME NEW k \in 1 .. n
           PROVE  m.data[Place(m, q + k)] = xs[k]
      <3>1. CASE k <= c - w
        <4>1. /\ p + (q + k) - 1 < c /\ p + (q + k) - 1 = w + k - 1
              /\ w + k - 1 \in 0 .. c - 1 /\ w + k - 1 >= w /\ (w + k - 1) - w + 1 = k
          BY ONLY <1>0, <1>2, <2>2, <3>1, k \in 1 .. n
        <4>2. Place(m, q + k) = w + k - 1
          BY <2>3, <4>1 DEF Place
        <4> QED
          BY <2>5, <4>1, <4>2
      <3>2. CASE ~(k <= c - w)
        <4> DEFINE i == k - (c - w) - 1
        <4>1. /\ ~(p + (q + k) - 1 < c) /\ p + (q + k) - 1 - c = i
              /\ i \in 0 .. c - 1 /\ ~(i >= w) /\ i < n - (c - w) /\ c - w + i + 1 = k
          BY ONLY <1>0, <1>2, <2>2, <2>6, <3>2, k \in 1 .. n
        <4>2. Place(m, q + k) = i
          BY <2>3, <4>1 DEF Place
        <4> HIDE DEF i
        <4> QED
          BY <2>5, <4>1, <4>2
      <3> QED
        BY <3>1, <3>2
    <2> QED
      BY <1>1, <1>6, <2>3, <2>9, <2>10, <2>11, <2>12
  <1>8. CASE ~(n > c - w)
    <2>1. m.count = c /\ m.read = p /\ m.write = w + n /\ m.wrap = r.wrap
      BY <1>1, <1>3, <1>8 DEF Ring!Stored, IsRingOfBytes
    <2>2. /\ m.data = [i \in DOMAIN r.data |->
                         IF i \in ahead THEN xs[i - r.write + 1] ELSE r.data[i]]
          /\ m = [count |-> m.count, data |-> m.data, read |-> m.read, write |-> m.write,
                  wrap |-> m.wrap]
      BY <1>1, <1>3, <1>8 DEF Ring!Stored, IsRingOfBytes
    <2>3. m.data = [i \in 0 .. c - 1 |->
                      IF i \in w .. w + n - 1 THEN xs[i - w + 1] ELSE r.data[i]]
      BY <1>1, <1>4, <2>2
    <2>4. w + n <= c
      BY ONLY <1>0, <1>8
    <2>5. (q = w - p /\ p <= w) \/ (q = c - p + w /\ w + n <= p)
      <3>1. CASE q = w - p /\ p <= w
        BY ONLY <3>1
      <3>2. CASE q = c - p + w /\ w <= p
        BY ONLY <1>0, <1>2, <3>2
      <3> QED
        BY <1>5, <3>1, <3>2
    <2>6. \A i \in w .. w + n - 1 : i - w + 1 \in 1 .. n
      BY ONLY <1>0
    <2>7. m.data \in [0 .. c - 1 -> Int]
      BY <1>3, <1>4, <2>3, <2>6
    <2>8. IsRingOfBytes(m) /\ Ring!Readable(m) = q + n
      <3>1. m.write \in 0 .. m.count /\ m.read \in 0 .. m.count
        BY ONLY <1>0, <1>2, <2>1, <2>4
      <3>2. CASE r.wrap = "same" /\ q = w - p /\ p <= w
        <4>1. p <= w + n /\ (w + n) - p = q + n
          BY ONLY <1>0, <3>2
        <4>2. m.wrap = "same" /\ m.read <= m.write /\ Ring!Readable(m) = q + n
          BY <2>1, <3>2, <4>1 DEF Ring!Readable
        <4> QED
          BY <1>1, <1>2, <2>1, <2>2, <2>7, <3>1, <4>2 DEF IsRingOfBytes
      <3>3. CASE r.wrap = "diff" /\ q = c - p + w /\ w <= p
        <4>1. w + n <= p /\ c - p + (w + n) = q + n
          BY ONLY <1>0, <1>2, <3>3
        <4>2. m.wrap = "diff" /\ m.write <= m.read /\ Ring!Readable(m) = q + n
          BY <2>1, <3>3, <4>1 DEF Ring!Readable
        <4> QED
          BY <1>1, <1>2, <2>1, <2>2, <2>7, <3>1, <4>2 DEF IsRingOfBytes
      <3> QED
        BY <1>5, <3>2, <3>3
    <2>9. ASSUME NEW k \in 1 .. q
          PROVE  m.data[Place(m, k)] = r.data[Place(r, k)]
      <3>1. CASE p + k - 1 < c
        <4>1. p + k - 1 \in 0 .. c - 1 /\ p + k - 1 \notin w .. w + n - 1
          BY ONLY <1>0, <2>5, <3>1, k \in 1 .. q
        <4>2. Place(r, k) = p + k - 1 /\ Place(m, k) = p + k - 1
          BY <1>1, <2>1, <3>1 DEF Place
        <4> QED
          BY <2>3, <4>1, <4>2
      <3>2. CASE ~(p + k - 1 < c)
        <4> DEFINE i == p + k - 1 - c
        <4>1. i \in 0 .. c - 1 /\ i \notin w .. w + n - 1
          BY ONLY <1>0, <1>2, <2>4, <2>5, <3>2, k \in 1 .. q
        <4>2. Place(r, k) = i /\ Place(m, k) = i
          BY <1>1, <2>1, <3>2 DEF Place
        <4> QED
          BY <2>3, <4>1, <4>2
      <3> QED
        BY <3>1, <3>2
    <2>10. ASSUME NEW k \in 1 .. n
           PROVE  m.data[Place(m, q + k)] = xs[k]
      <3>1. /\ w + k - 1 \in 0 .. c - 1 /\ w + k - 1 \in w .. w + n - 1
            /\ (w + k - 1) - w + 1 = k
        BY ONLY <1>0, <2>4, k \in 1 .. n
      <3>2. (IF p + (q + k) - 1 < c THEN p + (q + k) - 1 ELSE p + (q + k) - 1 - c) = w + k - 1
        BY ONLY <1>0, <1>2, <2>4, <2>5, k \in 1 .. n
      <3>3. Place(m, q + k) = w + k - 1
        BY <2>1, <3>2 DEF Place
      <3> QED
        BY <2>3, <3>1, <3>3
    <2> QED
      BY <1>1, <1>6, <2>1, <2>8, <2>9, <2>10
  <1> QED
    BY <1>7, <1>8

\* WebRtc_CreateBuffer, WebRtc_InitBuffer
LEMMA NewRingContents ==
  ASSUME NEW n \in Nat \ {0}
  PROVE  /\ IsRingOfBytes(Ring!NewRing(n)) /\ Ring!NewRing(n).count = n
         /\ Ring!Readable(Ring!NewRing(n)) = 0 /\ Contents(Ring!NewRing(n)) = <<>>
  <1>1. /\ IsRingOfBytes(Ring!NewRing(n)) /\ Ring!NewRing(n).count = n
        /\ Ring!Readable(Ring!NewRing(n)) = 0
    BY DEF Ring!NewRing, IsRingOfBytes, Ring!Readable
  <1>2. Contents(Ring!NewRing(n)) \in Seq(Int) /\ Len(Contents(Ring!NewRing(n))) = 0
    BY <1>1, ReadableFacts
  <1> QED
    BY <1>1, <1>2, EmptySeq

\* A ring that is full with both positions inside it
IsFullInside(r) == r.wrap = "diff" /\ r.read = r.write /\ r.read < r.count

\* AdjustCapacity copies what is readable, and all of it in order unless the ring is full with
\* both positions inside it
LEMMA AdjustedContents ==
  ASSUME NEW r, IsRingOfBytes(r), NEW n \in Nat \ {0}
  PROVE  LET m == Ring!Adjusted(r, n)
         IN  /\ IsRingOfBytes(m) /\ Ring!Readable(m) = Ring!Readable(r)
             /\ m.count = IF n < Ring!Readable(r) THEN r.count ELSE n
             /\ ~IsFullInside(r) => Contents(m) = Contents(r)
  <1>1. CASE n < Ring!Readable(r) \/ n = r.count
    <2>1. Ring!Adjusted(r, n) = r
      BY <1>1 DEF Ring!Adjusted
    <2>2. Ring!Readable(r) <= r.count /\ Ring!Readable(r) \in Nat /\ r.count \in Nat
      BY ReadableFacts DEF IsRingOfBytes
    <2> QED
      BY <1>1, <2>1, <2>2
  <1>2. CASE ~(n < Ring!Readable(r) \/ n = r.count)
    <2> DEFINE p1 == Ring!Piece(r, r.read, Ring!FirstPiece(r))
               p2 == Ring!Piece(r, 0, Ring!Readable(r) - Ring!FirstPiece(r))
               start == Ring!Stored(Ring!NewRing(n), p1)
               full == Ring!Stored(start, p2)
    <2>1. PICK c \in Nat, p \in Nat, w \in Nat, q \in Nat, first \in Int :
            /\ c = r.count /\ p = r.read /\ w = r.write /\ q = Ring!Readable(r)
            /\ first = Ring!FirstPiece(r)
      BY ReadableFacts DEF IsRingOfBytes, Ring!FirstPiece
    <2>2. c \in Nat /\ p \in Nat /\ w \in Nat /\ q \in Nat /\ first \in Int
      OBVIOUS
    <2>3. c > 0 /\ p <= c /\ w <= c /\ q <= c /\ q <= n
      <3>1. c > 0 /\ p <= c /\ w <= c
        BY <2>1 DEF IsRingOfBytes
      <3>2. q <= c /\ q <= n
        BY <1>2, <2>1, ReadableFacts
      <3> QED
        BY <3>1, <3>2
    <2>4. first = IF w - p < 0 THEN c - p ELSE w - p
      BY <2>1 DEF Ring!FirstPiece
    <2>5. \/ r.wrap = "same" /\ q = w - p /\ p <= w
          \/ r.wrap = "diff" /\ q = c - p + w /\ w <= p
      BY <2>1 DEF IsRingOfBytes, Ring!Readable
    <2>6. (q = w - p /\ p <= w) \/ (q = c - p + w /\ w <= p)
      BY <2>5
    <2>7. first \in Nat /\ first <= q /\ p + first <= c /\ q - first \in Nat /\ 0 + (q - first) <= c
      BY ONLY <2>2, <2>3, <2>4, <2>6
    <2>8. p1 \in Seq(Int) /\ Len(p1) = first
      BY <2>1, <2>7, PieceFacts
    <2>9. p2 \in Seq(Int) /\ Len(p2) = q - first
      BY <2>1, <2>7, PieceFacts
    <2>10. /\ IsRingOfBytes(Ring!NewRing(n)) /\ Ring!NewRing(n).count = n
           /\ Ring!Readable(Ring!NewRing(n)) = 0 /\ Contents(Ring!NewRing(n)) = <<>>
      BY NewRingContents
    <2>11. /\ IsRingOfBytes(start) /\ start.count = n /\ Ring!Readable(start) = first
           /\ Contents(start) = p1
      <3> HIDE DEF p1
      <3>1. Len(p1) <= Ring!Writable(Ring!NewRing(n))
        <4>1. Ring!Writable(Ring!NewRing(n)) = n - 0
          BY <2>10 DEF Ring!Writable
        <4> QED
          BY <2>3, <2>7, <2>8, <4>1
      <3>2. /\ IsRingOfBytes(start) /\ start.count = n
            /\ Ring!Readable(start) = Ring!Readable(Ring!NewRing(n)) + Len(p1)
            /\ Contents(start) = Contents(Ring!NewRing(n)) \o p1
        BY <2>8, <2>10, <3>1, StoredContents
      <3>3. <<>> \o p1 = p1
        BY <2>8, ConcatEmptySeq
      <3>4. Ring!Readable(start) = 0 + first
        BY <2>8, <2>10, <3>2
      <3> QED
        BY <2>7, <2>10, <3>2, <3>3, <3>4
    <2>12. q > first => /\ IsRingOfBytes(full) /\ full.count = n /\ Ring!Readable(full) = q
                        /\ Contents(full) = p1 \o p2
      <3> HIDE DEF p1, p2, start
      <3> SUFFICES ASSUME q > first
                   PROVE  /\ IsRingOfBytes(full) /\ full.count = n /\ Ring!Readable(full) = q
                          /\ Contents(full) = p1 \o p2
        OBVIOUS
      <3>1. Len(p2) <= Ring!Writable(start)
        <4>1. Ring!Writable(start) = n - first
          BY <2>11 DEF Ring!Writable
        <4> QED
          BY <2>3, <2>7, <2>9, <4>1
      <3>2. /\ IsRingOfBytes(full) /\ full.count = n
            /\ Ring!Readable(full) = Ring!Readable(start) + Len(p2)
            /\ Contents(full) = Contents(start) \o p2
        BY <2>9, <2>11, <3>1, StoredContents
      <3>3. Ring!Readable(full) = first + (q - first)
        BY <2>9, <2>11, <3>2
      <3> QED
        BY <2>7, <2>11, <3>2, <3>3
    <2>13. Ring!Adjusted(r, n) = IF q > first THEN full ELSE start
      BY <1>2, <2>1 DEF Ring!Adjusted
    <2>14. /\ Ring!Adjusted(r, n).count = n /\ IsRingOfBytes(Ring!Adjusted(r, n))
           /\ Ring!Readable(Ring!Adjusted(r, n)) = q
      <3> HIDE DEF full, start
      <3>1. CASE q > first
        BY <2>12, <2>13, <3>1
      <3>2. CASE ~(q > first)
        <4>1. first = q
          BY <2>7, <3>2
        <4> QED
          BY <2>11, <2>13, <3>2, <4>1
      <3> QED
        BY <3>1, <3>2
    <2>15. ASSUME ~IsFullInside(r)
           PROVE  Contents(Ring!Adjusted(r, n)) = Contents(r)
      <3>1. Ring!Loaded(r, q) = Contents(r)
        BY <2>1, AllLoaded
      <3>2. Ring!Loaded(r, q) =
              IF q > c - p THEN Ring!Piece(r, p, c - p) \o Ring!Piece(r, 0, q - (c - p))
                           ELSE Ring!Piece(r, p, q)
        <4>1. Ring!Least(q, q) = q
          BY DEF Ring!Least
        <4> QED
          BY <2>1, <4>1 DEF Ring!Loaded
      <3>3. (first = c - p /\ q >= first) \/ (first = q /\ q <= c - p)
        <4>1. CASE q = w - p /\ p <= w
          BY ONLY <2>2, <2>3, <2>4, <4>1
        <4>2. CASE r.wrap = "diff" /\ q = c - p + w /\ w <= p
          <5>1. p # w \/ ~(p < c)
            BY <2>1, <2>15, <4>2 DEF IsFullInside
          <5>2. q = c - p + w /\ w <= p
            BY <4>2
          <5> QED
            BY ONLY <2>2, <2>3, <2>4, <5>1, <5>2
        <4> QED
          BY <2>5, <4>1, <4>2
      <3>4. CASE q > first
        <4>1. first = c - p
          BY ONLY <2>2, <3>3, <3>4
        <4>2. Contents(r) = p1 \o p2
          BY <2>1, <3>1, <3>2, <3>4, <4>1
        <4> HIDE DEF full, p1, p2
        <4> QED
          BY <2>12, <2>13, <3>4, <4>2
      <3>5. CASE ~(q > first)
        <4>1. first = q /\ ~(q > c - p)
          BY ONLY <2>2, <2>7, <3>3, <3>5
        <4>2. Contents(r) = p1
          BY <2>1, <3>1, <3>2, <4>1
        <4> HIDE DEF start, p1
        <4> QED
          BY <2>11, <2>13, <3>5, <4>2
      <3> QED
        BY <3>4, <3>5
    <2>16. ~(n < Ring!Readable(r))
      BY <1>2
    <2> QED
      BY <2>1, <2>14, <2>15, <2>16
  <1> QED
    BY <1>1, <1>2

-----------------------------------------------------------------------------
(* How far a ring grows *)

\* The least of some numbers
LEMMA LeastElement ==
  ASSUME NEW S, S \subseteq Nat, S # {}
  PROVE  \E m \in S : \A j \in S : m <= j
  <1>1. PICK m \in S : \A j \in S : <<j, m>> \notin OpToRel(<, Nat)
    BY WFMin, NatLessThanWellFounded, Zenon
  <1>2. \A j \in S : ~(j < m)
    BY <1>1, Zenon DEF OpToRel
  <1> QED
    BY <1>2

\* What is true of the last of some numbers and, with each, of the one before is true of 1
LEMMA DownToOne ==
  ASSUME NEW S, NEW last \in Nat \ {0}, last \in S,
         \A j \in 2 .. last : j \in S => j - 1 \in S
  PROVE  1 \in S
  <1> DEFINE T == {j \in 1 .. last : j \in S}
  <1>1. PICK m \in T : \A j \in T : m <= j
    <2>1. last \in T /\ T \subseteq Nat
      OBVIOUS
    <2> QED
      BY <2>1, LeastElement
  <1>2. m \in 1 .. last /\ m \in S
    OBVIOUS
  <1>3. CASE m = 1
    BY <1>2, <1>3
  <1>4. CASE m # 1
    <2>1. m \in 2 .. last /\ m - 1 \in 1 .. last
      BY <1>2, <1>4
    <2>2. m - 1 \in T
      BY <1>2, <2>1
    <2>3. m <= m - 1
      BY <1>1, <2>2
    <2> QED
      BY <1>2, <2>3
  <1> QED
    BY <1>3, <1>4

\* The loop of CalculatedExpansionCapacity ends with a capacity that n bytes fit in
LEMMA ExpansionFits ==
  ASSUME Ring!Parameters, NEW r, IsRingOfBytes(r), r.count <= MaxCapacity,
         NEW n \in Nat \ {0}, Ring!Writable(r) < n
  PROVE  /\ Ring!Expansion(r, n) \in r.count .. MaxCapacity
         /\ Ring!Expansion(r, n) < MaxCapacity => Ring!Expansion(r, n) - Ring!Readable(r) >= n
  <1> DEFINE Step(c) == IF c > GrowthThreshold THEN GrowthThreshold ELSE c
             IsFit(g) == g = [c \in Nat |-> IF c - Ring!Readable(r) >= n THEN c ELSE g[c + Step(c)]]
             fit == CHOOSE g : IsFit(g)
             last == n + Ring!Readable(r)
  <1>1. /\ Ring!Readable(r) \in Nat /\ r.count \in Nat \ {0} /\ last \in Nat \ {0}
        /\ r.count < last /\ MaxCapacity \in Nat
    <2>1. Ring!Readable(r) \in Nat /\ r.count \in Nat \ {0} /\ r.count - Ring!Readable(r) < n
      BY ReadableFacts DEF IsRingOfBytes, Ring!Writable
    <2>2. MaxCapacity \in Nat
      BY DEF Ring!Parameters
    <2>3. last \in Nat \ {0} /\ r.count < last
      BY <2>1
    <2> QED
      BY <2>1, <2>2, <2>3
  <1>2. \A c \in Nat : /\ Step(c) \in Nat /\ c + Step(c) \in Nat
                       /\ c > 0 => c + Step(c) >= c + 1
                       /\ c = 0 => c + Step(c) = 0
    BY DEF Ring!Parameters
  <1>3. \A c \in Nat : c - Ring!Readable(r) >= n <=> c >= last
    BY <1>1
  <1> HIDE DEF Step, last
  <1>4. \E g : IsFit(g)
    <2> DEFINE FitsFrom(g, j) ==
                 \A c \in Nat : c >= j =>
                   g[c] = IF c - Ring!Readable(r) >= n THEN c ELSE g[c + Step(c)]
               S == {j \in Nat : \E g \in [Nat -> Nat] : FitsFrom(g, j)}
    <2>1. last \in S
      <3> DEFINE g == [c \in Nat |-> c]
      <3>1. g \in [Nat -> Nat] /\ FitsFrom(g, last)
        BY <1>3
      <3> QED
        BY <1>1, <3>1
    <2>2. ASSUME NEW j \in 2 .. last, j \in S
          PROVE  j - 1 \in S
      <3>1. PICK g \in [Nat -> Nat] : FitsFrom(g, j)
        BY <2>2
      <3>2. j \in Nat /\ j - 1 \in Nat /\ j - 1 > 0
        BY <1>1
      <3> DEFINE i == j - 1
                 h == [g EXCEPT ![i] = IF i - Ring!Readable(r) >= n THEN i ELSE g[i + Step(i)]]
      <3>3. h \in [Nat -> Nat]
        BY <1>2, <3>2
      <3>4. ASSUME NEW c \in Nat, c >= i
            PROVE  h[c] = IF c - Ring!Readable(r) >= n THEN c ELSE h[c + Step(c)]
        <4>1. c + Step(c) \in Nat /\ c + Step(c) # i /\ c + Step(c) >= j
          BY <1>2, <3>2, <3>4
        <4>2. h[c + Step(c)] = g[c + Step(c)]
          BY <4>1
        <4>3. CASE c = i
          BY <4>2, <4>3
        <4>4. CASE c # i
          <5>1. c >= j
            BY <3>2, <3>4, <4>4
          <5>2. g[c] = IF c - Ring!Readable(r) >= n THEN c ELSE g[c + Step(c)]
            BY <3>1, <5>1
          <5>3. h[c] = g[c]
            BY <4>4
          <5> QED
            BY <4>2, <5>2, <5>3
        <4> QED
          BY <4>3, <4>4
      <3>5. FitsFrom(h, i)
        BY <3>4
      <3> HIDE DEF h, FitsFrom
      <3> QED
        BY <3>2, <3>3, <3>5
    <2>3. 1 \in S
      <3> HIDE DEF S
      <3> QED
        BY <1>1, <2>1, <2>2, DownToOne
    <2>4. PICK g \in [Nat -> Nat] : FitsFrom(g, 1)
      BY <2>3
    <2>5. ASSUME NEW c \in Nat
          PROVE  g[c] = IF c - Ring!Readable(r) >= n THEN c ELSE g[c + Step(c)]
      <3>1. CASE c >= 1
        BY <2>4, <3>1
      <3>2. CASE ~(c >= 1)
        <4>1. c = 0 /\ ~(c - Ring!Readable(r) >= n) /\ c + Step(c) = c
          BY <1>1, <1>2, <3>2
        <4> QED
          BY <4>1
      <3> QED
        BY <3>1, <3>2
    <2>6. IsFit(g)
      BY <2>5
    <2> QED
      BY <2>6, Zenon
  <1>5. IsFit(fit)
    <2> HIDE DEF IsFit
    <2> QED
      BY <1>4, Zenon
  <1>6. \A c \in Nat : fit[c] = IF c - Ring!Readable(r) >= n THEN c ELSE fit[c + Step(c)]
    <2> HIDE DEF fit
    <2> QED
      BY <1>5
  <1> HIDE DEF fit
  <1>7. \A c \in Nat : c >= 1 => fit[c] \in Nat /\ fit[c] >= last
    <2> DEFINE S == {j \in Nat : \A c \in Nat : c >= j => fit[c] \in Nat /\ fit[c] >= last}
    <2>1. last \in S
      BY <1>1, <1>3, <1>6
    <2>2. ASSUME NEW j \in 2 .. last, j \in S
          PROVE  j - 1 \in S
      <3>1. j \in Nat /\ j - 1 \in Nat /\ j - 1 > 0
        BY <1>1
      <3>2. ASSUME NEW c \in Nat, c >= j - 1
            PROVE  fit[c] \in Nat /\ fit[c] >= last
        <4>1. CASE c - Ring!Readable(r) >= n
          BY <1>3, <1>6, <4>1
        <4>2. CASE ~(c - Ring!Readable(r) >= n)
          <5>1. c + Step(c) \in Nat /\ c + Step(c) >= j
            BY <1>2, <3>1, <3>2
          <5>2. fit[c] = fit[c + Step(c)]
            BY <1>6, <4>2
          <5> QED
            BY <2>2, <5>1, <5>2
        <4> QED
          BY <4>1, <4>2
      <3> QED
        BY <3>1, <3>2
    <2>3. 1 \in S
      <3> HIDE DEF S
      <3> QED
        BY <1>1, <2>1, <2>2, DownToOne
    <2> QED
      BY <2>3
  <1>8. Ring!Expansion(r, n) = Ring!Least(fit[r.count], MaxCapacity)
    BY Zenon DEF Ring!Expansion, fit, Step
  <1>9. fit[r.count] \in Nat /\ fit[r.count] >= last
    BY <1>1, <1>7
  <1>10. CASE fit[r.count] < MaxCapacity
    <2>1. Ring!Expansion(r, n) = fit[r.count]
      BY <1>8, <1>10 DEF Ring!Least
    <2>2. fit[r.count] - Ring!Readable(r) >= n /\ fit[r.count] \in r.count .. MaxCapacity
      BY <1>1, <1>3, <1>9, <1>10
    <2> QED
      BY <2>1, <2>2
  <1>11. CASE ~(fit[r.count] < MaxCapacity)
    <2>1. Ring!Expansion(r, n) = MaxCapacity
      BY <1>8, <1>11 DEF Ring!Least
    <2> QED
      BY <1>1, <2>1
  <1> QED
    BY <1>10, <1>11

-----------------------------------------------------------------------------
(* What a write drops *)

\* Bytes behind those that are left when d of them are dropped are the newest of all
LEMMA NewestOfBoth ==
  ASSUME NEW q \in Seq(Int), NEW xs \in Seq(Int), NEW n \in Nat, Len(xs) <= n,
         NEW d \in 0 .. Len(q),
         d = IF n < Len(q) + Len(xs) THEN Len(q) + Len(xs) - n ELSE 0
  PROVE  Ring!Fifo!Dropped(q, d) \o xs = Ring!Fifo!Newest(q \o xs, n)
  <1> DEFINE s == q \o xs
             left == Ring!Fifo!Dropped(q, d)
  <1>1. Len(q) \in Nat /\ Len(xs) \in Nat
    BY LenProperties
  <1>2. /\ s \in Seq(Int) /\ Len(s) = Len(q) + Len(xs)
        /\ \A k \in 1 .. Len(q) + Len(xs) : s[k] = IF k <= Len(q) THEN q[k] ELSE xs[k - Len(q)]
    BY ConcatProperties
  <1>3. /\ left \in Seq(Int) /\ Len(left) = Len(q) - d
        /\ \A k \in 1 .. Len(q) - d : left[k] = q[k + d]
    BY LeftAfterDrop
  <1>4. d \in 0 .. Len(s)
    BY <1>1, <1>2
  <1>5. /\ Ring!Fifo!Dropped(s, d) \in Seq(Int) /\ Len(Ring!Fifo!Dropped(s, d)) = Len(s) - d
        /\ \A k \in 1 .. Len(s) - d : Ring!Fifo!Dropped(s, d)[k] = s[k + d]
    BY <1>2, <1>4, LeftAfterDrop
  <1> HIDE DEF s, left
  <1>6. /\ left \o xs \in Seq(Int) /\ Len(left \o xs) = Len(left) + Len(xs)
        /\ \A k \in 1 .. Len(left) + Len(xs) :
             (left \o xs)[k] = IF k <= Len(left) THEN left[k] ELSE xs[k - Len(left)]
    BY <1>3, ConcatProperties
  <1>7. Len(left \o xs) = Len(s) - d
    BY <1>1, <1>2, <1>3, <1>6
  <1>8. ASSUME NEW k \in 1 .. Len(s) - d
        PROVE  (left \o xs)[k] = Ring!Fifo!Dropped(s, d)[k]
    <2>1. k + d \in 1 .. Len(q) + Len(xs) /\ k \in 1 .. Len(left) + Len(xs)
      BY <1>1, <1>2, <1>3
    <2>2. Ring!Fifo!Dropped(s, d)[k] = IF k + d <= Len(q) THEN q[k + d] ELSE xs[k + d - Len(q)]
      <3>1. Ring!Fifo!Dropped(s, d)[k] = s[k + d]
        BY <1>5
      <3>2. s[k + d] = IF k + d <= Len(q) THEN q[k + d] ELSE xs[k + d - Len(q)]
        <4>1. PICK i \in 1 .. Len(q) + Len(xs) : i = k + d
          BY <2>1
        <4>2. s[i] = IF i <= Len(q) THEN q[i] ELSE xs[i - Len(q)]
          BY <1>2
        <4> QED
          BY <4>1, <4>2
      <3> QED
        BY <3>1, <3>2
    <2>3. CASE k + d <= Len(q)
      <3>1. k \in 1 .. Len(q) - d /\ k <= Len(left)
        BY <1>1, <1>3, <2>3
      <3> QED
        BY <1>3, <1>6, <2>1, <2>2, <2>3, <3>1
    <2>4. CASE ~(k + d <= Len(q))
      <3>1. ~(k <= Len(left)) /\ k - Len(left) = k + d - Len(q)
        BY <1>1, <1>3, <2>4
      <3> QED
        BY <1>6, <2>1, <2>2, <2>4, <3>1
    <2> QED
      BY <2>3, <2>4
  <1>9. left \o xs = Ring!Fifo!Dropped(s, d)
    BY <1>5, <1>6, <1>7, <1>8, SeqEqual
  <1>10. CASE n < Len(s)
    <2>1. Ring!Fifo!Newest(s, n) = Ring!Fifo!Dropped(s, Len(s) - n) /\ d = Len(s) - n
      BY <1>1, <1>2, <1>10 DEF Ring!Fifo!Newest
    <2> QED
      BY <1>9, <2>1 DEF s, left
  <1>11. CASE ~(n < Len(s))
    <2>1. Ring!Fifo!Newest(s, n) = s /\ d = 0
      BY <1>1, <1>2, <1>11 DEF Ring!Fifo!Newest
    <2>2. ASSUME NEW k \in 1 .. Len(s)
          PROVE  Ring!Fifo!Dropped(s, 0)[k] = s[k]
      <3>1. k + 0 = k /\ k \in 1 .. Len(s) - 0
        BY <1>1, <1>2
      <3> QED
        BY <1>5, <2>1, <3>1
    <2>3. Len(Ring!Fifo!Dropped(s, 0)) = Len(s)
      <3>1. Len(Ring!Fifo!Dropped(s, 0)) = Len(s) - 0
        BY <1>5, <2>1
      <3>2. Len(s) \in Nat
        BY <1>1, <1>2
      <3> QED
        BY <3>1, <3>2
    <2>4. Ring!Fifo!Dropped(s, 0) = s
      BY <1>2, <1>5, <2>1, <2>2, <2>3, SeqEqual
    <2> QED
      BY <1>9, <2>1, <2>4 DEF s, left
  <1> QED
    BY <1>10, <1>11

\* Nothing dropped is nothing changed
LEMMA NoneDropped ==
  ASSUME NEW q \in Seq(Int)
  PROVE  Ring!Fifo!Dropped(q, 0) = q
  <1>1. Len(q) \in Nat /\ 0 \in 0 .. Len(q)
    BY LenProperties
  <1>2. /\ Ring!Fifo!Dropped(q, 0) \in Seq(Int) /\ Len(Ring!Fifo!Dropped(q, 0)) = Len(q) - 0
        /\ \A k \in 1 .. Len(q) - 0 : Ring!Fifo!Dropped(q, 0)[k] = q[k + 0]
    BY <1>1, LeftAfterDrop
  <1>3. Len(q) - 0 = Len(q) /\ \A k \in 1 .. Len(q) : k + 0 = k
    BY <1>1
  <1> QED
    BY <1>2, <1>3, SeqEqual

\* BufferWrite makes room for its bytes: the ring grows, and what still does not fit is taken
\* from the oldest ones
LEMMA RoomContents ==
  ASSUME Ring!Parameters, NEW r, IsRingOfBytes(r), r.count \in MaxWrite .. MaxCapacity,
         NEW n \in 1 .. MaxWrite
  PROVE  LET m == Ring!Room(r, n)
             d == IF m.count < Ring!Readable(r) + n THEN Ring!Readable(r) + n - m.count ELSE 0
         IN  /\ IsRingOfBytes(m) /\ m.count \in r.count .. MaxCapacity
             /\ n <= Ring!Writable(m) /\ d \in 0 .. Ring!Readable(r)
             /\ m.count = r.count \/ ~IsFullInside(r) =>
                  Contents(m) = Ring!Fifo!Dropped(Contents(r), d)
  <1> DEFINE m == Ring!Room(r, n)
             d == IF m.count < Ring!Readable(r) + n THEN Ring!Readable(r) + n - m.count ELSE 0
  <1>1. /\ r.count \in Nat /\ MaxCapacity \in Nat /\ r.count <= MaxCapacity
        /\ n \in Nat \ {0} /\ n <= r.count
        /\ Ring!Readable(r) \in Nat /\ Ring!Readable(r) <= r.count
    <2>1. MaxCapacity \in Nat /\ MaxWrite \in Nat
      BY DEF Ring!Parameters
    <2>2. Ring!Readable(r) \in 0 .. r.count /\ r.count \in Nat
      BY ReadableFacts DEF IsRingOfBytes
    <2>3. n \in Nat \ {0} /\ n <= MaxWrite /\ MaxWrite <= r.count /\ r.count <= MaxCapacity
      BY <2>1, <2>2
    <2> QED
      BY <2>1, <2>2, <2>3
  <1>2. Ring!Writable(r) = r.count - Ring!Readable(r)
    BY DEF Ring!Writable
  <1>3. Contents(r) \in Seq(Int) /\ Len(Contents(r)) = Ring!Readable(r)
    BY ReadableFacts
  <1>4. CASE Ring!Writable(r) >= n
    <2>1. m = r
      BY <1>4 DEF Ring!Room
    <2>2. r.count \in r.count .. MaxCapacity /\ d = 0 /\ d \in 0 .. Ring!Readable(r)
      BY <1>1, <1>2, <1>4, <2>1
    <2> QED
      BY <1>3, <1>4, <2>1, <2>2, NoneDropped
  \* What the read position goes on by
  <1>5. ASSUME NEW g, IsRingOfBytes(g), g.count \in r.count .. MaxCapacity,
               Ring!Readable(g) = Ring!Readable(r), Ring!Writable(g) < n
        PROVE  LET h == Ring!MovedRead(g, n - Ring!Writable(g))
                   e == Ring!Readable(r) + n - g.count
               IN  /\ IsRingOfBytes(h) /\ h.count = g.count /\ n <= Ring!Writable(h)
                   /\ g.count < Ring!Readable(r) + n /\ e \in 0 .. Ring!Readable(r)
                   /\ Contents(h) = Ring!Fifo!Dropped(Contents(g), e)
    <2> DEFINE e == Ring!Readable(r) + n - g.count
               h == Ring!MovedRead(g, n - Ring!Writable(g))
    <2>1. Ring!Writable(g) = g.count - Ring!Readable(r)
      BY <1>5 DEF Ring!Writable
    <2>2. g.count \in Nat /\ r.count <= g.count
      BY <1>1, <1>5
    <2>3. g.count - Ring!Readable(r) < n
      BY <1>5, <2>1
    <2>4. /\ e \in Nat /\ e <= Ring!Readable(r) /\ g.count < Ring!Readable(r) + n
          /\ n - (g.count - Ring!Readable(r)) = e
      BY ONLY <1>1, <2>2, <2>3
    <2>5. n - Ring!Writable(g) = e
      BY <2>1, <2>4
    <2> HIDE DEF e
    <2>6. Ring!Least(e, Ring!Readable(g)) = e
      BY <1>1, <1>5, <2>4 DEF Ring!Least
    <2>7. /\ IsRingOfBytes(h) /\ h.count = g.count /\ Ring!Readable(h) = Ring!Readable(g) - e
          /\ Contents(h) = Ring!Fifo!Dropped(Contents(g), e)
      BY <1>5, <2>4, <2>5, <2>6, MovedReadContents
    <2>8. Ring!Writable(h) = g.count - (Ring!Readable(r) - e)
      BY <1>5, <2>7 DEF Ring!Writable
    <2>9. n <= g.count - (Ring!Readable(r) - e)
      BY <1>1, <2>2, <2>4 DEF e
    <2> QED
      BY <1>1, <2>4, <2>7, <2>8, <2>9 DEF e
  <1>6. CASE Ring!Writable(r) < n /\ ~autoAdjust
    <2>1. m = Ring!MovedRead(r, n - Ring!Writable(r))
      BY <1>1, <1>2, <1>6 DEF Ring!Room
    <2>2. r.count \in r.count .. MaxCapacity
      BY <1>1
    <2>3. /\ IsRingOfBytes(m) /\ m.count = r.count /\ n <= Ring!Writable(m)
          /\ r.count < Ring!Readable(r) + n
          /\ Ring!Readable(r) + n - r.count \in 0 .. Ring!Readable(r)
          /\ Contents(m) = Ring!Fifo!Dropped(Contents(r), Ring!Readable(r) + n - r.count)
      BY <1>5, <1>6, <2>1, <2>2
    <2> QED
      BY <2>2, <2>3
  <1>7. CASE Ring!Writable(r) < n /\ autoAdjust
    <2> DEFINE to == Ring!Expansion(r, n)
               grown == Ring!Adjusted(r, to)
    <2>1. to \in r.count .. MaxCapacity /\ (to < MaxCapacity => to - Ring!Readable(r) >= n)
      BY <1>1, <1>7, ExpansionFits
    <2>2. m = IF grown.count >= MaxCapacity /\ Ring!Writable(grown) < n
                THEN Ring!MovedRead(grown, n - Ring!Writable(grown)) ELSE grown
      BY <1>1, <1>2, <1>7 DEF Ring!Room
    <2> HIDE DEF m, to
    <2>3. to \in Nat \ {0} /\ ~(to < Ring!Readable(r))
      BY <1>1, <2>1
    <2>4. /\ IsRingOfBytes(grown) /\ Ring!Readable(grown) = Ring!Readable(r) /\ grown.count = to
          /\ ~IsFullInside(r) => Contents(grown) = Contents(r)
      BY <2>3, AdjustedContents
    <2>5. to = r.count => grown = r
      BY DEF Ring!Adjusted
    <2> HIDE DEF grown
    <2>6. Ring!Writable(grown) = to - Ring!Readable(r)
      BY <2>4 DEF Ring!Writable
    <2>7. CASE Ring!Writable(grown) < n
      <3>1. to - Ring!Readable(r) < n
        BY <2>6, <2>7
      <3>2. ~(to < MaxCapacity)
        BY <1>1, <2>1, <2>3, <3>1
      <3>3. grown.count >= MaxCapacity
        BY <1>1, <2>1, <2>4, <3>2
      <3>4. m = Ring!MovedRead(grown, n - Ring!Writable(grown))
        BY <2>2, <2>7, <3>3
      <3>5. /\ IsRingOfBytes(m) /\ m.count = to /\ n <= Ring!Writable(m)
            /\ to < Ring!Readable(r) + n /\ Ring!Readable(r) + n - to \in 0 .. Ring!Readable(r)
            /\ Contents(m) = Ring!Fifo!Dropped(Contents(grown), Ring!Readable(r) + n - to)
        BY <1>5, <2>1, <2>4, <2>7, <3>4
      <3>6. m.count = r.count \/ ~IsFullInside(r) => Contents(grown) = Contents(r)
        BY <2>4, <2>5, <3>5
      <3> QED
        BY <2>1, <3>5, <3>6 DEF m
    <2>8. CASE ~(Ring!Writable(grown) < n)
      <3>1. m = grown
        BY <2>2, <2>8
      <3>2. to - Ring!Readable(r) >= n
        BY <1>1, <2>3, <2>6, <2>8
      <3>3. n <= Ring!Writable(m)
        BY <1>1, <2>3, <2>6, <3>1, <3>2
      <3>4. d = 0 /\ d \in 0 .. Ring!Readable(r)
        <4>1. ~(to < Ring!Readable(r) + n)
          BY <1>1, <2>3, <3>2
        <4> QED
          BY <1>1, <2>4, <3>1, <4>1
      <3>5. m.count = r.count \/ ~IsFullInside(r) => Contents(m) = Contents(r)
        BY <2>4, <2>5, <3>1
      <3>6. Contents(r) = Ring!Fifo!Dropped(Contents(r), d)
        BY <1>3, <3>4, NoneDropped
      <3>7. IsRingOfBytes(m) /\ m.count \in r.count .. MaxCapacity
        BY <2>1, <2>4, <3>1
      <3> QED
        BY <3>3, <3>4, <3>5, <3>6, <3>7 DEF m
    <2> QED
      BY <2>7, <2>8
  <1>8. Ring!Writable(r) >= n \/ Ring!Writable(r) < n
    BY <1>1, <1>2
  <1> QED
    BY <1>4, <1>6, <1>7, <1>8

-----------------------------------------------------------------------------
(* The ring is the queue *)

\* A write always fits into the capacity
RingInv ==
  /\ IsRingOfBytes(ring) /\ ring.count \in MaxWrite .. MaxCapacity
  /\ bytes \in Nat /\ autoAdjust \in BOOLEAN

\* A ring that was just made
LEMMA InitRingInv == Ring!Parameters /\ Ring!Init => RingInv
  <1> SUFFICES ASSUME Ring!Parameters, Ring!Init PROVE RingInv
    OBVIOUS
  <1>1. Capacity \in Nat \ {0} /\ Capacity \in MaxWrite .. MaxCapacity
    BY DEF Ring!Parameters
  <1>2. IsRingOfBytes(ring) /\ ring.count = Capacity
    BY <1>1, NewRingContents DEF Ring!Init
  <1> QED
    BY <1>1, <1>2 DEF Ring!Init, Ring!Parameters, RingInv

\* Each call keeps the positions where they belong, also one that grows a full ring
LEMMA NextRingInv == Ring!Parameters /\ RingInv /\ [Ring!Next]_(Ring!vars) => RingInv'
  <1> SUFFICES ASSUME Ring!Parameters, RingInv, [Ring!Next]_(Ring!vars) PROVE RingInv'
    OBVIOUS
  <1>1. /\ MaxWrite \in Nat \ {0} /\ MaxCapacity \in Nat
        /\ IsRingOfBytes(ring) /\ ring.count \in MaxWrite .. MaxCapacity
        /\ bytes \in Nat /\ autoAdjust \in BOOLEAN
    BY DEF Ring!Parameters, RingInv
  <1>2. ASSUME NEW n \in 1 .. MaxWrite, Ring!BufferWrite(n)
        PROVE  RingInv'
    <2> DEFINE room == Ring!Room(ring, n)
               xs == [k \in 1 .. n |-> bytes + k]
    <2>1. /\ IsRingOfBytes(room) /\ room.count \in ring.count .. MaxCapacity
          /\ n <= Ring!Writable(room)
      BY <1>1, RoomContents
    <2>2. ring' = Ring!Stored(room, xs) /\ bytes' = bytes + n
      BY <1>2 DEF Ring!BufferWrite
    <2>3. autoAdjust' \in BOOLEAN
      BY <1>1, <1>2 DEF Ring!BufferWrite, Ring!AutoAdjustAfter
    <2>4. xs \in Seq(Int) /\ Len(xs) = n
      <3>1. xs \in [1 .. n -> Int] /\ n \in Nat
        BY <1>1
      <3> QED
        BY <3>1, SequenceOf
    <2> HIDE DEF room, xs
    <2>5. IsRingOfBytes(ring') /\ ring'.count = room.count
      BY <2>1, <2>2, <2>4, StoredContents
    <2>6. room.count \in MaxWrite .. MaxCapacity /\ bytes' \in Nat
      BY <1>1, <2>1, <2>2
    <2> QED
      BY <2>3, <2>5, <2>6 DEF RingInv
  <1>3. ASSUME NEW n \in 1 .. MaxWrite, Ring!BufferRead(n)
        PROVE  RingInv'
    <2>1. n \in Nat
      BY <1>1
    <2>2. Len(Ring!Loaded(ring, n)) \in Nat
      BY <1>1, <2>1, LoadedContents, LenProperties
    <2>3. IsRingOfBytes(ring') /\ ring'.count = ring.count
      BY <1>1, <1>3, <2>2, MovedReadContents DEF Ring!BufferRead
    <2> QED
      BY <1>1, <1>3, <2>3 DEF Ring!BufferRead, RingInv
  <1>4. ASSUME NEW n \in 1 .. MaxWrite, Ring!BufferSeek(n)
        PROVE  RingInv'
    <2>1. IsRingOfBytes(ring') /\ ring'.count = ring.count
      BY <1>1, <1>4, MovedReadContents, SMTT(30) DEF Ring!BufferSeek
    <2> QED
      BY <1>1, <1>4, <2>1 DEF Ring!BufferSeek, RingInv
  <1>5. ASSUME NEW n \in Capacities, Ring!AdjustCapacity(n)
        PROVE  RingInv'
    <2>1. n \in MaxWrite .. MaxCapacity /\ n \in Nat \ {0}
      BY <1>1 DEF Ring!Parameters
    <2>2. IsRingOfBytes(ring') /\ (ring'.count = ring.count \/ ring'.count = n)
      BY <1>1, <1>5, <2>1, AdjustedContents DEF Ring!AdjustCapacity
    <2> QED
      BY <1>1, <1>5, <2>1, <2>2 DEF Ring!AdjustCapacity, RingInv
  <1>6. ASSUME Ring!Clear
        PROVE  RingInv'
    <2>1. ring.count \in Nat \ {0}
      BY <1>1 DEF IsRingOfBytes
    <2>2. IsRingOfBytes(ring') /\ ring'.count = ring.count
      BY <1>6, <2>1, NewRingContents DEF Ring!Clear
    <2> QED
      BY <1>1, <1>6, <2>2 DEF Ring!Clear, RingInv
  <1>7. ASSUME UNCHANGED Ring!vars
        PROVE  RingInv'
    BY <1>1, <1>7 DEF Ring!vars, RingInv
  <1> QED
    BY <1>2, <1>3, <1>4, <1>5, <1>6, <1>7 DEF Ring!Next

\* Items is what the ring holds, before and after a step
LEMMA ItemsAre ==
  ASSUME RingInv
  PROVE  Ring!Items = Contents(ring)
  <1>1. IsRingOfBytes(ring) /\ ring.count \in Nat /\ ring.count >= Ring!Readable(ring)
    BY ReadableFacts DEF RingInv, IsRingOfBytes
  <1> QED
    BY <1>1, AllLoaded DEF Ring!Items

\* The same after a step
LEMMA ItemsAreNext == RingInv' => Ring!Items' = Contents(ring')
  <1> SUFFICES ASSUME RingInv' PROVE Ring!Items' = Contents(ring')
    OBVIOUS
  <1>1. IsRingOfBytes(ring')
    BY DEF RingInv
  <1>2. ring'.count \in Nat /\ ring'.count >= Ring!Readable(ring')
    BY <1>1, ReadableFacts DEF IsRingOfBytes
  <1>3. Ring!Loaded(ring', ring'.count) = Contents(ring')
    BY <1>1, <1>2, AllLoaded
  <1> QED
    BY <1>3 DEF Ring!Items

\* A write is one of the queue: the ring may have grown, the newest bytes are in it
LEMMA WriteRefines ==
  ASSUME Ring!Parameters, RingInv, RingInv', NEW n \in 1 .. MaxWrite, Ring!BufferWrite(n),
         Ring!FullInside => ring'.count = ring.count
  PROVE  Ring!Fifo!Write
  <1> DEFINE room == Ring!Room(ring, n)
             xs == [k \in 1 .. n |-> bytes + k]
             d == IF room.count < Ring!Readable(ring) + n
                    THEN Ring!Readable(ring) + n - room.count ELSE 0
  <1>1. /\ MaxWrite \in Nat /\ IsRingOfBytes(ring) /\ bytes \in Nat
        /\ ring.count \in MaxWrite .. MaxCapacity
    BY DEF Ring!Parameters, RingInv
  <1>2. /\ IsRingOfBytes(room) /\ room.count \in ring.count .. MaxCapacity
        /\ n <= Ring!Writable(room) /\ d \in 0 .. Ring!Readable(ring)
        /\ room.count = ring.count \/ ~IsFullInside(ring) =>
             Contents(room) = Ring!Fifo!Dropped(Contents(ring), d)
    BY <1>1, RoomContents
  <1>3. ring' = Ring!Stored(room, xs) /\ bytes' = bytes + n /\ answer' = answer
    BY DEF Ring!BufferWrite
  <1>4. xs \in Seq(Int) /\ Len(xs) = n /\ n \in Nat
    <2>1. xs \in [1 .. n -> Int] /\ n \in Nat
      BY <1>1
    <2> QED
      BY <2>1, SequenceOf
  <1>5. Contents(ring) \in Seq(Int) /\ Len(Contents(ring)) = Ring!Readable(ring)
    BY <1>1, ReadableFacts
  <1>6. bytes' - bytes = n
    BY <1>1, <1>3, <1>4
  <1>7. [k \in 1 .. (bytes' - bytes) |-> bytes + k] = xs
    BY <1>6
  <1> HIDE DEF room, xs
  <1>8. ring'.count = room.count /\ Contents(ring') = Contents(room) \o xs
    BY <1>2, <1>3, <1>4, StoredContents
  <1>9. Contents(room) = Ring!Fifo!Dropped(Contents(ring), d)
    <2>1. IsFullInside(ring) => room.count = ring.count
      BY <1>8 DEF IsFullInside, Ring!FullInside
    <2> QED
      BY <1>2, <2>1
  <1>10. room.count \in Nat /\ room.count >= ring.count /\ n <= room.count
    BY <1>1, <1>2
  <1>11. Ring!Fifo!Dropped(Contents(ring), d) \o xs =
           Ring!Fifo!Newest(Contents(ring) \o xs, room.count)
    <2>1. d \in 0 .. Len(Contents(ring)) /\ Len(xs) <= room.count
      BY <1>2, <1>4, <1>5, <1>10
    <2>2. d = IF room.count < Len(Contents(ring)) + Len(xs)
                THEN Len(Contents(ring)) + Len(xs) - room.count ELSE 0
      BY <1>4, <1>5
    <2> HIDE DEF d
    <2> QED
      BY <1>4, <1>5, <1>10, <2>1, <2>2, NewestOfBoth
  <1>12. Ring!Items = Contents(ring) /\ Ring!Items' = Contents(ring')
    BY ItemsAre, ItemsAreNext
  <1>13. Ring!Items' = Ring!Fifo!Newest(Ring!Items \o xs, ring'.count)
    BY <1>8, <1>9, <1>11, <1>12
  <1> QED
    BY <1>3, <1>7, <1>8, <1>10, <1>13 DEF Ring!Fifo!Write

\* What a read returns is the front of the queue
LEMMA FrontIsLoaded ==
  ASSUME NEW r, IsRingOfBytes(r), NEW n \in Nat
  PROVE  LET d == Ring!Least(n, Ring!Readable(r))
         IN  /\ Len(Ring!Loaded(r, n)) = d /\ d \in 0 .. Len(Contents(r))
             /\ Ring!Loaded(r, n) = Ring!Fifo!Front(Contents(r), d)
  <1> DEFINE d == Ring!Least(n, Ring!Readable(r))
             q == Contents(r)
  <1>1. Ring!Readable(r) \in Nat /\ q \in Seq(Int) /\ Len(q) = Ring!Readable(r)
    BY ReadableFacts
  <1>2. d \in Nat /\ d <= Ring!Readable(r) /\ d = Ring!Least(Ring!Readable(r), n)
    BY <1>1 DEF Ring!Least
  <1> HIDE DEF d, q
  <1>3. /\ Ring!Loaded(r, n) \in Seq(Int) /\ Len(Ring!Loaded(r, n)) = d
        /\ \A k \in 1 .. d : Ring!Loaded(r, n)[k] = q[k]
    BY <1>2, LoadedContents DEF q
  <1>4. d \in 0 .. Len(q)
    BY <1>1, <1>2
  <1>5. CASE d < Len(q)
    <2>1. Ring!Fifo!Front(q, d) = SubSeq(q, 1, d)
      BY <1>5 DEF Ring!Fifo!Front
    <2>2. \A i \in 1 .. d : q[i] \in Int
      <3>1. \A i \in 1 .. d : i \in 1 .. Len(q)
        BY <1>1, <1>4
      <3> QED
        BY <1>1, <3>1, ElementOfSeq
    <2>3. /\ SubSeq(q, 1, d) \in Seq(Int)
          /\ Len(SubSeq(q, 1, d)) = IF 1 <= d THEN d - 1 + 1 ELSE 0
          /\ \A i \in 1 .. d - 1 + 1 : SubSeq(q, 1, d)[i] = q[1 + i - 1]
      BY <1>2, <2>2, SubSeqProperties
    <2>4. /\ d - 1 + 1 = d /\ (IF 1 <= d THEN d - 1 + 1 ELSE 0) = d
          /\ \A i \in 1 .. d : 1 + i - 1 = i
      BY <1>2
    <2>5. \A i \in 1 .. d : SubSeq(q, 1, d)[i] = q[i]
      BY <2>3, <2>4
    <2>6. Ring!Loaded(r, n) = SubSeq(q, 1, d)
      BY <1>3, <2>3, <2>4, <2>5, SeqEqual
    <2> QED
      BY <1>3, <1>4, <2>1, <2>6 DEF d, q
  <1>6. CASE ~(d < Len(q))
    <2>1. Ring!Fifo!Front(q, d) = q /\ d = Len(q)
      BY <1>1, <1>2, <1>6 DEF Ring!Fifo!Front
    <2>2. Ring!Loaded(r, n) = q
      BY <1>1, <1>3, <2>1, SeqEqual
    <2> QED
      BY <1>3, <1>4, <2>1, <2>2 DEF d, q
  <1> QED
    BY <1>5, <1>6

\* The steps of AlignedSpec
AlignedStep == Ring!Next /\ (Ring!FullInside => ring'.count = ring.count)

\* Every step of AlignedSpec is one of the queue, or changes nothing of it
LEMMA RingStepRefines ==
  Ring!Parameters /\ RingInv /\ RingInv' /\ [AlignedStep]_(Ring!vars)
    => [Ring!Fifo!Next]_(Ring!Fifo!vars)
  <1> SUFFICES ASSUME Ring!Parameters, RingInv, RingInv', [AlignedStep]_(Ring!vars)
               PROVE  [Ring!Fifo!Next]_(Ring!Fifo!vars)
    OBVIOUS
  <1>1. IsRingOfBytes(ring) /\ IsRingOfBytes(ring') /\ MaxWrite \in Nat
    BY DEF Ring!Parameters, RingInv
  <1>2. Ring!Items = Contents(ring) /\ Ring!Items' = Contents(ring')
    BY ItemsAre, ItemsAreNext
  <1>3. Contents(ring) \in Seq(Int) /\ Len(Contents(ring)) = Ring!Readable(ring)
    BY <1>1, ReadableFacts
  <1>4. ASSUME NEW n \in 1 .. MaxWrite, Ring!BufferWrite(n),
               Ring!FullInside => ring'.count = ring.count
        PROVE  Ring!Fifo!Next
    BY <1>4, WriteRefines DEF Ring!Fifo!Next
  <1>5. ASSUME NEW n \in 1 .. MaxWrite, Ring!BufferRead(n)
        PROVE  Ring!Fifo!Next
    <2> DEFINE d == Ring!Least(n, Ring!Readable(ring))
    <2>1. n \in Nat
      BY <1>1
    <2>2. /\ Len(Ring!Loaded(ring, n)) = d /\ d \in 0 .. Len(Ring!Items)
          /\ Ring!Loaded(ring, n) = Ring!Fifo!Front(Ring!Items, d)
      BY <1>1, <1>2, <2>1, FrontIsLoaded
    <2>3. d \in Nat /\ Ring!Least(d, Ring!Readable(ring)) = d
      BY <1>1, <2>1, ReadableFacts DEF Ring!Least
    <2> HIDE DEF d
    <2>4. /\ ring' = Ring!MovedRead(ring, d) /\ answer' = Ring!Fifo!Front(Ring!Items, d)
          /\ bytes' = bytes
      BY <1>5, <2>2 DEF Ring!BufferRead
    <2>5. Ring!Items' = Ring!Fifo!Dropped(Ring!Items, d) /\ ring'.count = ring.count
      BY <1>1, <1>2, <2>3, <2>4, MovedReadContents
    <2>6. Ring!Fifo!Read(d)
      BY <2>4, <2>5 DEF Ring!Fifo!Read
    <2> QED
      BY <2>2, <2>6 DEF Ring!Fifo!Next
  <1>6. ASSUME NEW n \in 1 .. MaxWrite, Ring!BufferSeek(n)
        PROVE  Ring!Fifo!Next
    <2> DEFINE d == Ring!Least(n, Ring!Readable(ring))
    <2>1. n \in Nat
      BY <1>1
    <2>2. d \in 0 .. Len(Ring!Items)
      BY <1>1, <1>2, <2>1, FrontIsLoaded
    <2>3. Ring!Items' = Ring!Fifo!Dropped(Ring!Items, d) /\ ring'.count = ring.count
      BY <1>1, <1>2, <1>6, <2>1, MovedReadContents DEF Ring!BufferSeek
    <2>4. Ring!Fifo!Seek(d)
      BY <1>6, <2>3 DEF Ring!BufferSeek, Ring!Fifo!Seek
    <2> QED
      BY <2>2, <2>4 DEF Ring!Fifo!Next
  <1>7. ASSUME NEW n \in Capacities, Ring!AdjustCapacity(n),
               Ring!FullInside => ring'.count = ring.count
        PROVE  Ring!Fifo!Next
    <2>1. n \in Nat \ {0}
      BY <1>1 DEF Ring!Parameters
    <2>2. ring' = Ring!Adjusted(ring, n) /\ UNCHANGED <<bytes, answer>>
      BY <1>7 DEF Ring!AdjustCapacity
    <2>3. /\ Ring!Readable(ring') = Ring!Readable(ring)
          /\ ~IsFullInside(ring) => Contents(ring') = Contents(ring)
      BY <1>1, <2>1, <2>2, AdjustedContents
    <2>4. Contents(ring') = Contents(ring)
      <3>1. CASE IsFullInside(ring)
        <4>1. ring'.count = ring.count
          BY <1>7, <3>1 DEF IsFullInside, Ring!FullInside
        <4>2. ring'.count = IF n < Ring!Readable(ring) THEN ring.count ELSE n
          BY <1>1, <2>1, <2>2, AdjustedContents
        <4>3. n < Ring!Readable(ring) \/ n = ring.count
          BY <4>1, <4>2
        <4>4. ring' = ring
          BY <2>2, <4>3 DEF Ring!Adjusted
        <4> QED
          BY <4>4
      <3> QED
        BY <2>3, <3>1
    <2>5. Len(Ring!Items) <= ring'.count
      BY <1>1, <1>2, <1>3, <2>3, ReadableFacts
    <2>6. Ring!Fifo!AdjustCapacity
      BY <1>2, <2>2, <2>4, <2>5 DEF Ring!Fifo!AdjustCapacity
    <2> QED
      BY <2>6 DEF Ring!Fifo!Next
  <1>8. ASSUME Ring!Clear
        PROVE  Ring!Fifo!Next
    <2>1. ring.count \in Nat \ {0}
      BY <1>1 DEF IsRingOfBytes
    <2>2. Contents(ring') = <<>> /\ ring'.count = ring.count
      BY <1>8, <2>1, NewRingContents DEF Ring!Clear
    <2>3. Ring!Fifo!Clear
      BY <1>2, <1>8, <2>2 DEF Ring!Clear, Ring!Fifo!Clear
    <2> QED
      BY <2>3 DEF Ring!Fifo!Next
  <1>9. ASSUME UNCHANGED Ring!vars
        PROVE  UNCHANGED Ring!Fifo!vars
    BY <1>9 DEF Ring!vars, Ring!Fifo!vars, Ring!Items
  <1> QED
    BY <1>4, <1>5, <1>6, <1>7, <1>8, <1>9 DEF AlignedStep, Ring!Next

\* A ring that was just made is an empty queue
LEMMA RingInitRefines == Ring!Parameters /\ Ring!Init => Ring!Fifo!Init
  <1> SUFFICES ASSUME Ring!Parameters, Ring!Init PROVE Ring!Fifo!Init
    OBVIOUS
  <1>1. Capacity \in Nat \ {0}
    BY DEF Ring!Parameters
  <1>2. ring = Ring!NewRing(Capacity) /\ ring.count = Capacity /\ Contents(ring) = <<>>
    BY <1>1, NewRingContents DEF Ring!Init
  <1>3. Ring!Items = <<>>
    BY <1>2, InitRingInv, ItemsAre
  <1> QED
    BY <1>1, <1>2, <1>3 DEF Ring!Init, Ring!Fifo!Init

\* The positions stay in the ring and its capacity between a write and the greatest, also through
\* the growth that AlignedSpec leaves out
THEOREM RingInvCorrect == Ring!Parameters => (Ring!Spec => []RingInv)
  <1> SUFFICES ASSUME Ring!Parameters PROVE Ring!Spec => []RingInv
    OBVIOUS
  <1>1. Ring!Init => RingInv
    BY InitRingInv
  <1>2. RingInv /\ [Ring!Next]_(Ring!vars) => RingInv'
    BY NextRingInv
  <1> QED
    BY <1>1, <1>2, PTL DEF Ring!Spec

\* Through every growth, wrap and overwrite but the growth of a ring that is full with both
\* positions inside it, the ring is the queue of bytes its users count on
THEOREM RingImplementsFifo == Ring!Parameters => (Ring!AlignedSpec => Ring!ImplementsFifo)
  <1> SUFFICES ASSUME Ring!Parameters PROVE Ring!AlignedSpec => Ring!ImplementsFifo
    OBVIOUS
  <1>1. Ring!Init => RingInv
    BY InitRingInv
  <1>2. RingInv /\ [AlignedStep]_(Ring!vars) => RingInv'
    BY NextRingInv DEF AlignedStep
  <1>3. RingInv /\ RingInv' /\ [AlignedStep]_(Ring!vars)
          => [Ring!Fifo!Next]_(Ring!Fifo!vars)
    BY RingStepRefines
  <1>4. Ring!Init => Ring!Fifo!Init
    BY RingInitRefines
  <1> QED
    BY <1>1, <1>2, <1>3, <1>4, PTL
    DEF Ring!AlignedSpec, AlignedStep, Ring!ImplementsFifo, Ring!Fifo!Spec

=================================================================================
