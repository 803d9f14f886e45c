----------------------------- MODULE PlaybackProofs -----------------------------
(***************************************************************************)
(* Proofs about Playback, for any file, codec, queue and ring, and any      *)
(* number of seeks: the ring of the sound loses nothing, the frames of a    *)
(* position are written in their order, without those that the packet queue *)
(* loses by growing and no others, the loop is only done behind the last    *)
(* one, and a codec that keeps nothing back never misleads the clock.       *)
(***************************************************************************)
EXTENDS Playback, Integers, SequenceTheorems, WellFoundedInduction, TLAPS

\* The number of the first frame of packet p
FirstOf(p) == (p - 1) * PerPacket + 1

\* Packets of the file, and the frames that they hold
Packet == [pos : 1 .. Packets, of : Nat]
Frame ==
  {f \in [n : Nat, pos : 1 .. Packets, of : Nat, serial : Nat] :
     FirstOf(f.pos) <= f.n /\ f.n < FirstOf(f.pos) + PerPacket}

\* What is not a packet is the end of the file or nothing
IsPacket(p) == p \in Packet

\* Whatever is on its way was stamped by the reader before now
StampInv ==
  /\ at \in 1 .. Packets + 1 /\ from \in 1 .. Packets + 1
  /\ stamp \in Nat /\ serial \in Nat /\ seekId \in Nat
  /\ stamp <= serial /\ (seekId = serial \/ seekId = serial + 1)
  /\ start \in 1 .. Packets /\ target \in 1 .. Packets /\ pending \in 0 .. Packets
  /\ stamp = serial <=> pending = 0 /\ moving = NoPacket
  /\ moving # NoPacket =>
       /\ moving.pos \in 1 .. Packets /\ moving.of \in Nat
       /\ stamp < moving.of /\ moving.of <= serial /\ (moving.of = serial <=> pending = 0)
       /\ inFlight = NoPacket
  /\ seekId = serial => target = start
  /\ late \in BOOLEAN /\ eof \in BOOLEAN

PlacesInv ==
  /\ inFlight \in Packet \union {NoPacket, EndOfFile}
  /\ IsPacket(inFlight) => inFlight.of = stamp /\ at = inFlight.pos + 1
  /\ queue \in Seq(Packet)
  /\ \A i \in 1 .. Len(queue) : queue[i].of <= stamp
  /\ size \in Nat \ {0} /\ front \in 0 .. size - 1 /\ Len(queue) <= size
  /\ codec \in Seq(Frame)
  /\ \A i \in 1 .. Len(codec) : codec[i].of <= stamp
  /\ frame \in Frame \union {NoFrame} /\ frame.of <= stamp
  /\ sent \in Frame \union {NoFrame} /\ sent.of <= stamp
  /\ newest \in Nat /\ holds \in Nat /\ draining \in BOOLEAN

\* A frame that is tried is one, and what is written is not from before the start
LoopInv ==
  /\ loop \in {"posted", "receiving", "framed", "writing", "written", "completed", "failed"}
  /\ loop = "receiving" => frame = NoFrame
  /\ loop \in {"framed", "writing", "written"} => frame # NoFrame
  /\ loop \in {"writing", "written"} => frame.pos >= start
  /\ loop = "written" => sent = frame

TypeInv == StampInv /\ PlacesInv /\ LoopInv

-----------------------------------------------------------------------------
(* The invariants of the four properties *)

\* The room that was found is still there when it is used
RoomInv ==
  /\ level \in Nat
  /\ loop = "writing" => level + FrameSize <= Capacity

\* A codec that keeps nothing back is empty when the loop takes the serial of another packet
ClockInv ==
  holds = 0 =>
    /\ \A i \in 1 .. Len(codec) : codec[i].of = newest
    /\ frame.of = frame.serial
    /\ clock.of = clock.serial

\* The last frame of the file, of the position that the loop plays
IsLast(f) == f.n = Packets * PerPacket /\ f.of = serial

\* Whatever holds it, nothing is behind it
LastIsOnItsWay ==
  \/ inFlight = [pos |-> Packets, of |-> serial]
  \/ /\ ~IsPacket(inFlight) /\ queue # <<>>
     /\ queue[Len(queue)] = [pos |-> Packets, of |-> serial]
  \/ /\ ~IsPacket(inFlight) /\ queue = <<>> /\ codec # <<>>
     /\ IsLast(codec[Len(codec)])
  \/ /\ ~IsPacket(inFlight) /\ queue = <<>> /\ codec = <<>>
     /\ IF frame = NoFrame THEN IsLast(sent) ELSE IsLast(frame)

EndInv ==
  ~late =>
    /\ eof \/ inFlight = EndOfFile => stamp = serial /\ at = Packets + 1 /\ ~IsPacket(inFlight)
    /\ draining => eof /\ queue = <<>>
    /\ stamp = serial /\ at > Packets /\ loop # "failed" => LastIsOnItsWay
    /\ loop = "completed" => draining /\ IsLast(sent)

\* Frames of the position that the loop plays
Current(f) == f # NoFrame /\ f.of = serial

\* The packet that comes to the queue next
Coming == IF IsPacket(inFlight) THEN inFlight.pos ELSE at

\* Frame n is one of packet p
HasFrame(p, n) == FirstOf(p.pos) <= n /\ n < FirstOf(p.pos) + PerPacket

\* Of the position that the loop plays nothing in the queue, or in the codec and the queue, is at
\* or before frame n
InFrontOfQueue(n) ==
  /\ n < FirstOf(Coming)
  /\ \A i \in 1 .. Len(queue) : ~IsStale(queue[i]) => n < FirstOf(queue[i].pos)

InFrontOfCodec(n) ==
  /\ InFrontOfQueue(n)
  /\ \A i \in 1 .. Len(codec) : ~IsStale(codec[i]) => n < codec[i].n

\* Stale frames are in front of the others
NoneStale == \A i \in 1 .. Len(codec) : ~IsStale(codec[i])

\* One packet from before the seek may be in front of the queue; then nothing of the position was
\* taken from it.
QueueOrder ==
  /\ from <= Coming
  /\ \A i \in 1 .. Len(queue) :
       IF IsStale(queue[i])
         THEN i = 1 /\ \A j \in 1 .. Len(codec) : IsStale(codec[j])
         ELSE /\ from <= queue[i].pos /\ queue[i].pos < Coming
              /\ \A j \in i + 1 .. Len(queue) : queue[i].pos < queue[j].pos

CodecOrder ==
  \A i \in 1 .. Len(codec) :
    ~IsStale(codec[i]) =>
      /\ from <= codec[i].pos /\ InFrontOfQueue(codec[i].n)
      /\ \A j \in i + 1 .. Len(codec) : ~IsStale(codec[j]) /\ codec[i].n < codec[j].n

FrameOrder ==
  Current(frame) => from <= frame.pos /\ NoneStale /\ InFrontOfCodec(frame.n)

SentOrder ==
  Current(sent) =>
    /\ FirstOf(start) <= sent.n /\ NoneStale /\ InFrontOfCodec(sent.n)
    /\ frame # NoFrame => Current(frame) /\ (loop # "written" => sent.n < frame.n)

\* Frame n is on its way
Held(n) ==
  \/ Current(frame) /\ frame.n = n
  \/ \E i \in 1 .. Len(codec) : ~IsStale(codec[i]) /\ codec[i].n = n
  \/ \E i \in 1 .. Len(queue) : ~IsStale(queue[i]) /\ HasFrame(queue[i], n)

\* What was read and not yet written is on its way or was lost
NoneMissing ==
  \A n \in Int : Previous < n /\ n < FirstOf(Coming) => FrameLost(n) \/ Held(n)

Chained == QueueOrder /\ CodecOrder /\ FrameOrder /\ SentOrder /\ NoneMissing

\* The reader, the loop and the player agree on the position
Agreed == seekId = serial /\ stamp = serial /\ loop # "failed"

ChainInv == Agreed => Chained

\* Between the seek of the loop and that of the reader at most one packet is left
StaleInv == stamp < serial => Len(queue) + (IF IsPacket(inFlight) THEN 1 ELSE 0) <= 1

PlaybackInv == TypeInv /\ RoomInv /\ ClockInv /\ StaleInv /\ EndInv /\ ChainInv

-----------------------------------------------------------------------------
(* Places in the file, and what the loop passes over *)

\* The sizes of SizesAssumption
LEMMA Sizes ==
  /\ Packets \in Nat /\ Packets > 0 /\ PerPacket \in Nat /\ PerPacket > 0
  /\ FrameSize \in Nat /\ FrameSize > 0 /\ Capacity \in Nat /\ Slots \in Nat /\ Slots > 0
  BY SizesAssumption DEF Capacity, Greatest

\* The frames of a packet are in front of those of the next one
LEMMA FirstOfFacts ==
  ASSUME NEW a \in Int, NEW b \in Int
  PROVE  /\ FirstOf(a) \in Int
         /\ FirstOf(a + 1) = FirstOf(a) + PerPacket
         /\ a <= b => FirstOf(a) <= FirstOf(b)
         /\ a < b => FirstOf(a) + PerPacket <= FirstOf(b)
  <1>1. PerPacket \in Nat
    BY Sizes
  <1>2. FirstOf(a) \in Int /\ FirstOf(a + 1) = FirstOf(a) + PerPacket
    BY <1>1 DEF FirstOf
  <1>3. \A d \in Nat : 0 <= d * PerPacket /\ (0 < d => PerPacket <= d * PerPacket)
    BY <1>1
  <1>4. FirstOf(b) = FirstOf(a) + (b - a) * PerPacket
    BY <1>1 DEF FirstOf
  <1>5. \A d \in Nat : d * PerPacket \in Int
    BY <1>1
  <1>6. a <= b => FirstOf(a) <= FirstOf(b)
    BY <1>2, <1>3, <1>4, <1>5
  <1>7. a < b => FirstOf(a) + PerPacket <= FirstOf(b)
    <2>1. SUFFICES ASSUME a < b PROVE FirstOf(a) + PerPacket <= FirstOf(b)
      OBVIOUS
    <2>2. b - a \in Nat /\ 0 < b - a
      BY <2>1
    <2>3. QED
      BY <1>1, <1>2, <1>3, <1>4, <1>5, <2>2
  <1>8. QED
    BY <1>2, <1>6, <1>7

\* A bounded set of numbers has a greatest one
LEMMA GreatestExists ==
  ASSUME NEW n \in Nat, NEW s \in SUBSET (0 .. n), s # {}
  PROVE  \E k \in s : \A j \in s : j <= k
  <1> DEFINE t == {n - k : k \in s}
  <1>1. t \subseteq Nat /\ t # {}
    <2>1. \A k \in s : n - k \in Nat
      OBVIOUS
    <2>2. PICK k \in s : TRUE
      OBVIOUS
    <2>3. n - k \in t
      OBVIOUS
    <2>4. QED
      BY <2>1, <2>3
  <1>2. PICK m \in t : \A j \in t : <<j, m>> \notin OpToRel(<, Nat)
    BY <1>1, WFMin, NatLessThanWellFounded, Zenon
  <1>3. \A j \in t : ~(j < m)
    BY <1>1, <1>2, Zenon DEF OpToRel
  <1>4. PICK k \in s : m = n - k
    OBVIOUS
  <1>5. ASSUME NEW j \in s PROVE j <= k
    <2>1. n - j \in t
      OBVIOUS
    <2>2. ~(n - j < n - k)
      BY <1>3, <1>4, <2>1
    <2>3. j \in Int /\ k \in Int /\ n \in Int
      OBVIOUS
    <2>4. QED
      BY ONLY <2>2, <2>3
  <1>6. QED
    BY <1>5

\* GetAudioPacket and GetPacket go on to the first packet that neither of them drops
LEMMA PassedOverFacts ==
  ASSUME queue \in Seq(Packet)
  PROVE  /\ PassedOver \in 0 .. Len(queue)
         /\ \A i \in 1 .. PassedOver : Ends(queue[i]) \/ IsStale(queue[i])
         /\ PassedOver < Len(queue) =>
              ~Ends(queue[PassedOver + 1]) /\ ~IsStale(queue[PassedOver + 1])
  <1> DEFINE IsPassed(k) == \A i \in 1 .. k : Ends(queue[i]) \/ IsStale(queue[i])
             s == {k \in 0 .. Len(queue) : IsPassed(k)}
  <1>1. Len(queue) \in Nat
    BY LenProperties
  <1>2. 0 \in s
    BY <1>1
  <1>3. \E k \in s : \A j \in s : j <= k
    BY <1>1, <1>2, GreatestExists
  <1>4. PassedOver \in s /\ \A j \in s : j <= PassedOver
    BY <1>3 DEF PassedOver
  <1>5. ASSUME PassedOver < Len(queue),
               Ends(queue[PassedOver + 1]) \/ IsStale(queue[PassedOver + 1])
        PROVE  FALSE
    <2>1. PassedOver + 1 \in 0 .. Len(queue)
      BY <1>1, <1>4, <1>5
    <2>2. IsPassed(PassedOver + 1)
      <3>1. \A i \in 1 .. PassedOver + 1 : i \in 1 .. PassedOver \/ i = PassedOver + 1
        BY <1>4
      <3>2. QED
        BY <1>4, <1>5, <3>1
    <2>3. QED
      BY <1>4, <2>1, <2>2
  <1>6. QED
    BY <1>4, <1>5

\* A codec is flushed or left as it is
LEMMA FlushedFacts ==
  /\ \A k : Flushed(k) = <<>> \/ Flushed(k) = codec
  /\ Flushed(0) = codec
  BY DEF Flushed

\* The frames of a packet of the file
LEMMA FramesOfFacts ==
  ASSUME NEW p \in Packet
  PROVE  /\ FramesOf(p) \in Seq(Frame) /\ Len(FramesOf(p)) = PerPacket
         /\ \A i \in 1 .. PerPacket :
              /\ FramesOf(p)[i].n = FirstOf(p.pos) + i - 1
              /\ FramesOf(p)[i].pos = p.pos /\ FramesOf(p)[i].of = p.of
  <1> DEFINE e(i) == [n |-> (p.pos - 1) * PerPacket + i, pos |-> p.pos, of |-> p.of, serial |-> 0]
  <1>1. PerPacket \in Nat /\ Packets \in Nat
    BY Sizes
  <1>2. p.pos \in 1 .. Packets /\ p.of \in Nat
    BY DEF Packet
  <1>3. \A d \in Nat : d * PerPacket \in Nat
    BY <1>1
  <1>4. (p.pos - 1) * PerPacket \in Nat
    BY <1>1, <1>2, <1>3
  <1>5. \A i \in 1 .. PerPacket : e(i) \in Frame
    BY <1>1, <1>2, <1>4 DEF Frame, FirstOf
  <1>6. FramesOf(p) = [i \in 1 .. PerPacket |-> e(i)]
    BY DEF FramesOf
  <1> HIDE DEF e
  <1>7. FramesOf(p) \in Seq(Frame)
    BY <1>1, <1>5, <1>6, IsASeq
  <1>8. Len(FramesOf(p)) = PerPacket
    BY <1>1, <1>6
  <1>9. \A i \in 1 .. PerPacket : FramesOf(p)[i] = e(i)
    BY <1>6
  <1>10. \A i \in 1 .. PerPacket : e(i).n = FirstOf(p.pos) + i - 1 /\ e(i).pos = p.pos /\ e(i).of = p.of
    BY <1>1, <1>2, <1>4 DEF e, FirstOf
  <1>11. QED
    BY <1>7, <1>8, <1>9, <1>10

\* What of the queue is behind a packet that is taken
LEMMA BehindFacts ==
  ASSUME queue \in Seq(Packet), NEW k \in Nat, k < Len(queue)
  PROVE  LET q == SubSeq(queue, k + 2, Len(queue))
         IN  /\ q \in Seq(Packet) /\ Len(q) = Len(queue) - k - 1
             /\ \A i \in 1 .. Len(q) : q[i] = queue[k + 1 + i] /\ k + 1 + i \in 1 .. Len(queue)
             /\ queue[k + 1] \in Packet
  <1> DEFINE q == SubSeq(queue, k + 2, Len(queue))
  <1>1. Len(queue) \in Nat /\ \A i \in 1 .. Len(queue) : queue[i] \in Packet
    BY LenProperties, ElementOfSeq
  <1>2. \A i \in k + 2 .. Len(queue) : queue[i] \in Packet
    BY <1>1
  <1>3. /\ q \in Seq(Packet)
        /\ Len(q) = IF k + 2 <= Len(queue) THEN Len(queue) - (k + 2) + 1 ELSE 0
        /\ \A i \in 1 .. Len(queue) - (k + 2) + 1 : q[i] = queue[k + 2 + i - 1]
    BY <1>1, <1>2, SubSeqProperties
  <1> HIDE DEF q
  <1>4. Len(q) = Len(queue) - k - 1
    BY <1>1, <1>3
  <1>5. ASSUME NEW i \in 1 .. Len(q)
        PROVE  q[i] = queue[k + 1 + i] /\ k + 1 + i \in 1 .. Len(queue)
    <2>1. i \in 1 .. Len(queue) - (k + 2) + 1 /\ k + 2 + i - 1 = k + 1 + i
      BY <1>1, <1>4
    <2>2. QED
      BY <1>1, <1>3, <1>4, <2>1
  <1>6. QED
    BY <1>1, <1>3, <1>4, <1>5 DEF q

-----------------------------------------------------------------------------
(* Types *)

USE DEF readerVars, queueVars, seekVars, loopVars, codecVars, renderVars, seenVars

\* Neither nothing nor the end of the file is a packet, and no frame is nothing
LEMMA Kinds ==
  /\ NoPacket \notin Packet /\ EndOfFile \notin Packet /\ NoFrame \notin Frame
  /\ NoPacket # EndOfFile
  BY Sizes DEF NoPacket, EndOfFile, NoFrame, Packet, Frame

\* All is where it starts
LEMMA InitPlayback == Init => PlaybackInv
  <1> SUFFICES ASSUME Init PROVE PlaybackInv
    OBVIOUS
  <1>1. queue \in Seq(Packet) /\ Len(queue) = 0 /\ codec \in Seq(Frame) /\ Len(codec) = 0
    BY EmptySeq DEF Init
  <1>2. StampInv
    <2>1. late \in BOOLEAN /\ eof \in BOOLEAN
      BY DEF Init
    <2>2. QED
      BY <2>1, Sizes DEF Init, StampInv
  <1>3. LoopInv /\ PlacesInv
    <2>1. NoFrame.of = 0 /\ ~IsPacket(NoPacket)
      BY Kinds DEF NoFrame, IsPacket
    <2>2. LoopInv
      BY DEF Init, LoopInv
    <2>3. holds \in Nat /\ draining \in BOOLEAN
      BY SizesAssumption DEF Init
    <2>4. PlacesInv
      BY <1>1, <2>1, <2>3, Sizes DEF Init, PlacesInv
    <2>5. QED
      BY <2>2, <2>4
  <1>4. RoomInv /\ ClockInv /\ StaleInv
    BY <1>1 DEF Init, RoomInv, ClockInv, StaleInv, NoFrame
  <1>5. EndInv
    BY Kinds, Sizes DEF Init, EndInv
  <1>6. Chained
    <2>1. Coming = 1 /\ ~Current(frame) /\ ~Current(sent)
      BY <1>1, Kinds DEF Init, Coming, IsPacket, Current
    <2>2. QueueOrder /\ CodecOrder /\ FrameOrder /\ SentOrder
      BY <1>1, <2>1 DEF Init, QueueOrder, CodecOrder, FrameOrder, SentOrder
    <2>3. Previous = (1 - 1) * PerPacket
      BY <2>1 DEF Init, Previous, Greatest, Current
    <2>4. FirstOf(1) = (1 - 1) * PerPacket + 1 /\ (1 - 1) * PerPacket \in Int
      BY Sizes DEF FirstOf
    <2>5. \A n, m \in Int : ~(m < n /\ n < m + 1)
      OBVIOUS
    <2>6. NoneMissing
      BY <2>1, <2>3, <2>4, <2>5 DEF NoneMissing
    <2>7. QED
      BY <2>2, <2>6 DEF Chained
  <1>7. QED
    BY <1>1, <1>2, <1>3, <1>4, <1>5, <1>6 DEF PlaybackInv, TypeInv, ChainInv

\* The serials only grow: the player's, then the loop's, then the reader's
LEMMA StampStep == TypeInv /\ [Next]_vars => StampInv'
  <1> SUFFICES ASSUME TypeInv, [Next]_vars PROVE StampInv'
    OBVIOUS
  <1> USE Sizes, TargetsAssumption DEF TypeInv, StampInv
  <1>1. CASE Reader
    <2>1. CASE ReaderSeeks
      BY <2>1, Kinds DEF ReaderSeeks
    <2>2. CASE Reads
      <3>1. moving = NoPacket /\ late' = late /\ eof' = eof
        BY <2>2 DEF Reads, MayRead, Free
      <3>2. QED
        BY <2>2, <3>1 DEF Reads
    <2>3. CASE HandsOver
      <3>1. eof' \in BOOLEAN
        BY <2>3 DEF HandsOver
      <3>2. QED
        BY <2>3, <3>1 DEF HandsOver
    <2>4. CASE ReaderChecks
      <3>1. /\ inFlight = NoPacket /\ moving = NoPacket /\ pending # 0
            /\ moving' = [pos |-> pending, of |-> serial] /\ pending' = 0
            /\ UNCHANGED <<at, stamp, inFlight, from, queueVars, seekVars, loopVars, late>>
        BY <2>4 DEF ReaderChecks, Free
      <3>2. moving'.pos = pending /\ moving'.of = serial /\ moving' # NoPacket
        BY <3>1 DEF NoPacket
      <3>3. pending \in 1 .. Packets /\ stamp < serial
        BY <3>1
      <3>4. QED
        BY <3>1, <3>2, <3>3
    <2>5. QED
      BY <1>1, <2>1, <2>2, <2>3, <2>4 DEF Reader
  <1>2. CASE \E to \in Targets : SeekInternal(to)
    BY <1>2 DEF SeekInternal
  <1>3. CASE Decoder
    <2>1. CASE DecoderSeeks
      BY <2>1 DEF DecoderSeeks
    <2>2. CASE AsksForPacket
      BY <2>2 DEF AsksForPacket
    <2>3. QED
      BY <1>3, <2>1, <2>2 DEF Decoder, ProcessInternal, ReceivesFrame, ReceivesEnd, OnFrame, Writes,
         Written
  <1>4. CASE PlayOrPause \/ LooksAtFlags \/ ReadsRing \/ UNCHANGED vars
    BY <1>4 DEF PlayOrPause, Device, LooksAtFlags, ReadsRing, vars
  <1>5. QED
    BY <1>1, <1>2, <1>3, <1>4 DEF Next, Device

\* A frame is dropped, waits or is written, and none is forgotten
LEMMA LoopStep == TypeInv /\ [Next]_vars => LoopInv'
  <1> SUFFICES ASSUME TypeInv, [Next]_vars PROVE LoopInv'
    OBVIOUS
  <1> USE DEF TypeInv, LoopInv
  <1>1. CASE Decoder
    <2>1. CASE DecoderSeeks
      BY <2>1 DEF DecoderSeeks
    <2>2. CASE AsksForPacket
      BY <2>2 DEF AsksForPacket
    <2>3. CASE ReceivesFrame
      <3>1. codec # <<>>
        BY <2>3, Sizes, EmptySeq DEF ReceivesFrame, MayGive, PlacesInv
      <3>2. Head(codec) \in Frame
        BY <3>1, HeadTailProperties DEF PlacesInv
      <3>3. [Head(codec) EXCEPT !.serial = newest] # NoFrame
        BY <3>2, Sizes DEF Frame, NoFrame
      <3>4. QED
        BY <2>3, <3>3 DEF ReceivesFrame
    <2>4. CASE OnFrame
      BY <2>4 DEF OnFrame
    <2>5. CASE Writes
      BY <2>5 DEF Writes
    <2>6. QED
      BY <1>1, <2>1, <2>2, <2>3, <2>4, <2>5 DEF Decoder, ProcessInternal, ReceivesEnd, Written
  <1>2. CASE Reader \/ (\E to \in Targets : SeekInternal(to)) \/ PlayOrPause \/ LooksAtFlags
             \/ ReadsRing \/ UNCHANGED vars
    BY <1>2 DEF Reader, Reads, HandsOver, ReaderChecks, ReaderSeeks, SeekInternal, PlayOrPause, LooksAtFlags,
       ReadsRing, vars
  <1>3. QED
    BY <1>1, <1>2 DEF Next, Device

\* GetPacket found the packet behind k others, which goes to the codec or is lost with it
Takes(k) ==
  /\ k < Len(queue) /\ ~Ends(queue[k + 1]) /\ ~IsStale(queue[k + 1])
  /\ newest' = queue[k + 1].of
  /\ queue' = SubSeq(queue, k + 2, Len(queue))
  /\ \/ codec' = Flushed(k) \o FramesOf(queue[k + 1]) /\ loop' = loop
     \/ codec' = Flushed(k) /\ loop' = "failed"
  /\ draining' = draining

\* GetPacket found none behind the k that it dropped
FindsNone(k) ==
  /\ k = Len(queue)
  /\ newest' = IF k = 0 THEN 0 ELSE queue[k].of
  /\ queue' = <<>> /\ codec' = Flushed(k)
  /\ \/ eof /\ draining' = TRUE /\ loop' = loop
     \/ ~eof /\ draining' = draining /\ loop' = "posted"

\* What PushPacket does, told by the number of packets that stay
LEMMA PushesFacts ==
  ASSUME TypeInv, NEW p \in Packet, Pushes(p)
  PROVE  \E m \in 0 .. Len(queue) :
           /\ queue' \in Seq(Packet) /\ Len(queue') = m + 1 /\ queue'[m + 1] = p
           /\ \A i \in 1 .. m : queue'[i] = queue[i]
           /\ size' \in Nat \ {0} /\ front \in 0 .. size' - 1 /\ Len(queue') <= size'
           /\ lost \subseteq lost' /\ \A i \in m + 1 .. Len(queue) : queue[i].pos \in lost'
  <1>1. /\ queue \in Seq(Packet) /\ Len(queue) \in Nat
        /\ \A i \in 1 .. Len(queue) : queue[i] \in Packet
        /\ size \in Nat \ {0} /\ front \in 0 .. size - 1 /\ Len(queue) <= size
    BY LenProperties, ElementOfSeq DEF TypeInv, PlacesInv
  <1>2. CASE Len(queue) < size
    <2>1. queue' = Append(queue, p) /\ size' = size /\ lost' = lost
      BY <1>2 DEF Pushes
    <2>2. /\ queue' \in Seq(Packet) /\ Len(queue') = Len(queue) + 1
          /\ \A i \in 1 .. Len(queue) : queue'[i] = queue[i]
          /\ queue'[Len(queue) + 1] = p
      BY <1>1, <2>1, AppendProperties
    <2>3. Len(queue) \in 0 .. Len(queue) /\ Len(queue') <= size /\ Len(queue) + 1 .. Len(queue) = {}
      BY <1>1, <1>2, <2>2
    <2>4. QED
      BY <1>1, <2>1, <2>2, <2>3
  <1>3. CASE ~(Len(queue) < size)
    <2> DEFINE m == size - front
               q == SubSeq(queue, 1, m)
    <2>1. m \in 1 .. Len(queue) /\ Len(queue) = size
      BY <1>1, <1>3
    <2>2. /\ queue' = Append(q, p) /\ size' = 2 * size
          /\ lost' = lost \union {queue[i].pos : i \in m + 1 .. size}
      BY <1>3 DEF Pushes
    <2>3. /\ q \in Seq(Packet)
          /\ Len(q) = IF 1 <= m THEN m - 1 + 1 ELSE 0
          /\ \A i \in 1 .. m - 1 + 1 : q[i] = queue[1 + i - 1]
      <3>1. \A i \in 1 .. m : queue[i] \in Packet
        BY <1>1, <2>1
      <3>2. m \in Int
        BY <2>1
      <3> HIDE DEF m
      <3>3. QED
        BY <1>1, <3>1, <3>2, SubSeqProperties
    <2>4. Len(q) = m /\ \A i \in 1 .. m : q[i] = queue[i]
      BY <2>1, <2>3
    <2> HIDE DEF q, m
    <2>5. /\ queue' \in Seq(Packet) /\ Len(queue') = m + 1 /\ queue'[m + 1] = p
          /\ \A i \in 1 .. m : queue'[i] = q[i]
      BY <2>2, <2>3, <2>4, AppendProperties
    <2>6. size' \in Nat \ {0} /\ front \in 0 .. size' - 1 /\ m + 1 <= size'
      BY <1>1, <2>1, <2>2
    <2>7. \A i \in m + 1 .. Len(queue) : queue[i].pos \in lost'
      BY <2>1, <2>2
    <2>8. m \in 0 .. Len(queue)
      BY <2>1
    <2>9. QED
      BY <2>2, <2>4, <2>5, <2>6, <2>7, <2>8
  <1>4. QED
    BY <1>2, <1>3

\* What AsksForPacket does, told by the number of packets that were dropped
LEMMA AsksCases ==
  ASSUME queue \in Seq(Packet), AsksForPacket
  PROVE  \E k \in 0 .. Len(queue) :
           /\ \A i \in 1 .. k : Ends(queue[i]) \/ IsStale(queue[i])
           /\ Takes(k) \/ FindsNone(k)
  <1>1. /\ PassedOver \in 0 .. Len(queue)
        /\ \A i \in 1 .. PassedOver : Ends(queue[i]) \/ IsStale(queue[i])
        /\ PassedOver < Len(queue) =>
             ~Ends(queue[PassedOver + 1]) /\ ~IsStale(queue[PassedOver + 1])
    BY PassedOverFacts
  <1>2. Takes(PassedOver) \/ FindsNone(PassedOver)
    BY <1>1 DEF AsksForPacket, Takes, FindsNone, IsEof
  <1>3. QED
    BY <1>1, <1>2

\* What goes from one place to the next stays what it was
LEMMA PlacesStep == TypeInv /\ [Next]_vars => PlacesInv'
  <1> SUFFICES ASSUME TypeInv, [Next]_vars PROVE PlacesInv'
    OBVIOUS
  <1>1. /\ queue \in Seq(Packet) /\ Len(queue) \in Nat
        /\ \A i \in 1 .. Len(queue) : queue[i] \in Packet
        /\ codec \in Seq(Frame) /\ Len(codec) \in Nat
        /\ \A i \in 1 .. Len(codec) : codec[i] \in Frame
    BY LenProperties, ElementOfSeq DEF TypeInv, PlacesInv
  <1> USE DEF TypeInv, PlacesInv
  <1>2. CASE Reads
    <2>1. CASE at <= Packets /\ at' = at + 1
      <3>1. inFlight' = [pos |-> at, of |-> stamp] /\ at' = at + 1
        BY <1>2, <2>1, Sizes DEF Reads, StampInv
      <3>2. inFlight' \in Packet
        BY <2>1, <3>1, Sizes DEF Packet, StampInv
      <3>3. QED
        BY <1>2, <3>1, <3>2 DEF Reads
    <2>2. CASE inFlight' # inFlight /\ ~(at <= Packets)
      BY <1>2, <2>2, Kinds DEF Reads, IsPacket
    <2>3. CASE inFlight' = inFlight /\ at' = at
      BY <1>2, <2>3 DEF Reads
    <2>4. QED
      BY <1>2, <2>1, <2>2, <2>3, Sizes DEF Reads, StampInv
  <1>3. CASE HandsOver
    <2>1. inFlight' = NoPacket /\ ~IsPacket(inFlight')
      BY <1>3, Kinds DEF HandsOver, IsPacket
    <2>2. CASE inFlight = EndOfFile
      BY <1>3, <2>1, <2>2 DEF HandsOver
    <2>3. CASE inFlight # EndOfFile
      <3>1. IsPacket(inFlight) /\ Pushes(inFlight) /\ inFlight.of = stamp
        BY <1>3, <2>3 DEF HandsOver, IsPacket
      <3>2. PICK m \in 0 .. Len(queue) :
              /\ queue' \in Seq(Packet) /\ Len(queue') = m + 1 /\ queue'[m + 1] = inFlight
              /\ \A i \in 1 .. m : queue'[i] = queue[i]
              /\ size' \in Nat \ {0} /\ front \in 0 .. size' - 1 /\ Len(queue') <= size'
        BY <3>1, PushesFacts DEF IsPacket
      <3>3. \A i \in 1 .. Len(queue') : (i \in 1 .. Len(queue) /\ i \in 1 .. m) \/ i = m + 1
        BY <1>1, <3>2
      <3>4. stamp \in Nat /\ stamp <= stamp
        BY DEF StampInv
      <3>5. \A i \in 1 .. Len(queue') : queue'[i].of <= stamp
        BY <3>1, <3>2, <3>3, <3>4
      <3>6. QED
        BY <1>3, <2>1, <3>2, <3>5 DEF HandsOver
    <2>4. QED
      BY <2>2, <2>3
  <1>13. CASE ReaderChecks
    BY <1>13 DEF ReaderChecks
  <1>4. CASE ReaderSeeks
    <2>1. \A f \in Frame \union {NoFrame} : f.of \in Nat
      BY DEF Frame, NoFrame
    <2>2. \A p \in Packet : p.of \in Nat
      BY DEF Packet
    <2>3. stamp' = moving.of /\ stamp <= stamp' /\ stamp \in Nat /\ stamp' \in Nat
      BY <1>4 DEF ReaderSeeks, StampInv
    <2>4. stamp \in Nat /\ stamp' \in Nat
      BY <2>3
    <2>5. ~IsPacket(inFlight')
      BY <1>4, Kinds DEF ReaderSeeks, IsPacket, StampInv
    <2>6. frame'.of <= stamp' /\ sent'.of <= stamp'
      BY <1>4, <2>1, <2>3, <2>4 DEF ReaderSeeks
    <2>7. \A i \in 1 .. Len(queue') : queue'[i].of <= stamp'
      BY <1>1, <1>4, <2>2, <2>3, <2>4 DEF ReaderSeeks
    <2>8. \A i \in 1 .. Len(codec') : codec'[i].of <= stamp'
      BY <1>1, <1>4, <2>1, <2>3, <2>4 DEF ReaderSeeks
    <2>9. QED
      BY <1>4, <2>5, <2>6, <2>7, <2>8 DEF ReaderSeeks
  <1>5. CASE DecoderSeeks
    <2>1. queue' \in Seq(Packet) /\ Len(queue') = 0
      BY <1>5, EmptySeq DEF DecoderSeeks
    <2>2. size' = size /\ front' = 0 /\ 0 \in 0 .. size - 1
      BY <1>5 DEF DecoderSeeks
    <2>3. QED
      BY <1>5, <2>1, <2>2 DEF DecoderSeeks
  <1>6. CASE ReceivesFrame
    <2>1. codec # <<>>
      BY <1>6, EmptySeq DEF ReceivesFrame, MayGive
    <2>2. /\ Head(codec) \in Frame /\ Head(codec) = codec[1] /\ Tail(codec) \in Seq(Frame)
          /\ Len(Tail(codec)) = Len(codec) - 1
          /\ \A i \in 1 .. Len(Tail(codec)) : Tail(codec)[i] = codec[i + 1]
      BY <1>1, <2>1, HeadTailProperties
    <2>3. Len(codec) > 0
      BY <1>1, <2>1, EmptySeq
    <2>4. frame' = [Head(codec) EXCEPT !.serial = newest] /\ codec' = Tail(codec)
      BY <1>6 DEF ReceivesFrame
    <2>5. frame' \in Frame /\ frame'.of = codec[1].of
      BY <2>2, <2>4 DEF Frame
    <2>6. frame'.of <= stamp
      BY <1>1, <2>3, <2>5
    <2>7. \A i \in 1 .. Len(codec') : codec'[i].of <= stamp
      BY <1>1, <2>2, <2>4
    <2>8. QED
      BY <1>6, <2>2, <2>4, <2>5, <2>6, <2>7 DEF ReceivesFrame
  <1>7. CASE AsksForPacket
    <2>1. PICK k \in 0 .. Len(queue) : Takes(k) \/ FindsNone(k)
      BY <1>7, AsksCases
    <2> DEFINE q == SubSeq(queue, k + 2, Len(queue))
               p == queue[k + 1]
    <2>2. /\ Flushed(k) \in Seq(Frame) /\ Len(Flushed(k)) \in Nat
          /\ \A i \in 1 .. Len(Flushed(k)) : Flushed(k)[i].of <= stamp
      <3>1. CASE Flushed(k) = codec
        BY <1>1, <3>1
      <3>2. CASE Flushed(k) = <<>>
        <4>1. Flushed(k) \in Seq(Frame) /\ Len(Flushed(k)) = 0
          BY <3>2, EmptySeq
        <4>2. QED
          BY <4>1
      <3>3. QED
        BY <3>1, <3>2, FlushedFacts
    <2>3. newest' \in Nat /\ queue' \in Seq(Packet) /\ \A i \in 1 .. Len(queue') : queue'[i].of <= stamp
      <3>1. CASE Takes(k)
        <4>1. newest' = p.of /\ queue' = q /\ k < Len(queue)
          BY <3>1 DEF Takes
        <4>2. /\ q \in Seq(Packet)
              /\ \A i \in 1 .. Len(q) : q[i] = queue[k + 1 + i] /\ k + 1 + i \in 1 .. Len(queue)
          <5>1. k \in Nat /\ k < Len(queue)
            BY <1>1, <4>1
          <5>2. QED
            BY <1>1, <5>1, BehindFacts, SMTT(30)
        <4>3. p \in Packet
          <5>1. k + 1 \in 1 .. Len(queue)
            BY <1>1, <4>1
          <5>2. \A i \in 1 .. Len(queue) : queue[i] \in Packet
            BY <1>1
          <5>3. QED
            BY <5>1, <5>2
        <4>4. p.of \in Nat
          BY <4>3 DEF Packet
        <4>5. \A i \in 1 .. Len(q) : q[i].of <= stamp
          BY <1>1, <4>2
        <4> HIDE DEF q, p
        <4>6. QED
          BY <4>1, <4>2, <4>4, <4>5
      <3>2. CASE FindsNone(k)
        <4>1. queue' = <<>> /\ newest' = (IF k = 0 THEN 0 ELSE queue[k].of)
          BY <3>2 DEF FindsNone
        <4>2. k # 0 => queue[k] \in Packet
          BY <1>1
        <4>3. k # 0 => queue[k].of \in Nat
          BY <4>2 DEF Packet
        <4>4. queue' \in Seq(Packet) /\ Len(queue') = 0
          BY <4>1, EmptySeq
        <4>5. QED
          BY <4>1, <4>3, <4>4
      <3>3. QED
        BY <2>1, <3>1, <3>2
    <2>4. codec' \in Seq(Frame) /\ \A i \in 1 .. Len(codec') : codec'[i].of <= stamp
      <3>1. CASE codec' = Flushed(k)
        BY <2>2, <3>1
      <3>2. CASE k < Len(queue) /\ codec' = Flushed(k) \o FramesOf(p)
        <4>1. p \in Packet /\ p.of <= stamp
          BY <1>1, <3>2
        <4>2. /\ FramesOf(p) \in Seq(Frame) /\ Len(FramesOf(p)) = PerPacket
              /\ \A i \in 1 .. PerPacket : FramesOf(p)[i].of <= stamp
          BY <4>1, FramesOfFacts
        <4>3. /\ codec' \in Seq(Frame) /\ Len(codec') = Len(Flushed(k)) + PerPacket
              /\ \A i \in 1 .. Len(Flushed(k)) + PerPacket : codec'[i] =
                   IF i <= Len(Flushed(k)) THEN Flushed(k)[i] ELSE FramesOf(p)[i - Len(Flushed(k))]
          BY <2>2, <3>2, <4>2, ConcatProperties
        <4> HIDE DEF p
        <4>4. ASSUME NEW i \in 1 .. Len(codec') PROVE codec'[i].of <= stamp
          <5>1. PerPacket \in Nat
            BY Sizes
          <5>2. CASE i <= Len(Flushed(k))
            BY <2>2, <4>3, <5>1, <5>2
          <5>3. CASE ~(i <= Len(Flushed(k)))
            <6>1. i - Len(Flushed(k)) \in 1 .. PerPacket
              BY <2>2, <4>3, <5>1, <5>3
            <6>2. codec'[i] = FramesOf(p)[i - Len(Flushed(k))]
              BY <2>2, <4>3, <5>1, <5>3
            <6>3. QED
              BY <4>2, <6>1, <6>2
          <5>4. QED
            BY <5>2, <5>3
        <4>5. QED
          BY <4>3, <4>4
      <3>3. QED
        BY <2>1, <3>1, <3>2 DEF Takes, FindsNone
    <2>5. size' = size /\ front' \in 0 .. size - 1 /\ Len(queue') <= size
      <3>1. PassedOver \in 0 .. Len(queue)
        BY <1>1, PassedOverFacts
      <3>2. \A a \in Nat : a % size \in 0 .. size - 1
        OBVIOUS
      <3>3. front + PassedOver + 1 \in Nat /\ front + PassedOver \in Nat
        BY <1>1, <3>1
      <3>4. front' \in 0 .. size - 1
        BY <1>7, <3>2, <3>3 DEF AsksForPacket
      <3>5. Len(queue') <= Len(queue) /\ Len(queue') \in Nat
        <4>1. CASE Takes(k)
          BY <1>1, <4>1, BehindFacts DEF Takes
        <4>2. CASE FindsNone(k)
          BY <1>1, <4>2, EmptySeq DEF FindsNone
        <4>3. QED
          BY <2>1, <4>1, <4>2
      <3>6. QED
        BY <1>1, <1>7, <3>4, <3>5 DEF AsksForPacket
    <2>6. QED
      BY <1>7, <2>3, <2>4, <2>5 DEF AsksForPacket
  <1>8. CASE OnFrame
    <2>1. NoFrame.of <= stamp
      BY DEF NoFrame, StampInv
    <2>2. frame' = frame \/ frame' = NoFrame
      BY <1>8 DEF OnFrame
    <2>3. QED
      BY <1>8, <2>1, <2>2 DEF OnFrame
  <1>9. CASE Written
    <2>1. NoFrame.of <= stamp
      BY DEF NoFrame, StampInv
    <2>2. QED
      BY <1>9, <2>1 DEF Written
  <1>10. CASE Writes
    BY <1>10 DEF Writes
  <1>11. CASE ProcessInternal \/ ReceivesEnd \/ (\E to \in Targets : SeekInternal(to))
              \/ PlayOrPause \/ LooksAtFlags \/ ReadsRing \/ UNCHANGED vars
    BY <1>11 DEF ProcessInternal, ReceivesEnd, SeekInternal, PlayOrPause, Device, LooksAtFlags, ReadsRing, vars
  <1>12. QED
    BY <1>2, <1>3, <1>4, <1>5, <1>6, <1>7, <1>8, <1>9, <1>10, <1>11, <1>13
       DEF Next, Reader, Decoder, Device

\* Types are kept
LEMMA TypeStep == TypeInv /\ [Next]_vars => TypeInv'
  BY StampStep, PlacesStep, LoopStep DEF TypeInv

-----------------------------------------------------------------------------
(* Room, and the clock *)

\* The device only takes sound, and a seek's reset waits for the end of a task
LEMMA RoomStep == TypeInv /\ RoomInv /\ [Next]_vars => RoomInv'
  <1> SUFFICES ASSUME TypeInv, RoomInv, [Next]_vars PROVE RoomInv'
    OBVIOUS
  <1> USE Sizes DEF RoomInv
  <1>1. CASE Decoder
    <2>1. CASE DecoderSeeks
      BY <2>1 DEF DecoderSeeks
    <2>2. CASE AsksForPacket
      <3>1. level' = level /\ loop' # "writing"
        BY <2>2 DEF AsksForPacket
      <3>2. QED
        BY <3>1
    <2>3. CASE OnFrame
      BY <2>3 DEF OnFrame, HasRoom
    <2>4. CASE Writes
      BY <2>4 DEF Writes
    <2>5. CASE ProcessInternal \/ ReceivesFrame \/ ReceivesEnd \/ Written
      BY <2>5 DEF ProcessInternal, ReceivesFrame, ReceivesEnd, Written
    <2>6. QED
      BY <1>1, <2>1, <2>2, <2>3, <2>4, <2>5 DEF Decoder
  <1>2. CASE ReadsRing
    BY <1>2 DEF ReadsRing
  <1>3. CASE Reader \/ (\E to \in Targets : SeekInternal(to)) \/ PlayOrPause \/ LooksAtFlags
             \/ UNCHANGED vars
    BY <1>3 DEF Reader, Reads, HandsOver, ReaderChecks, ReaderSeeks, SeekInternal, PlayOrPause, LooksAtFlags, vars
  <1>4. QED
    BY <1>1, <1>2, <1>3 DEF Next, Device

\* Of a codec that keeps nothing back every frame is taken before the next packet is asked for
LEMMA ClockStep == TypeInv /\ ClockInv /\ [Next]_vars => ClockInv'
  <1> SUFFICES ASSUME TypeInv, ClockInv, [Next]_vars, holds' = 0 PROVE ClockInv'
    BY DEF ClockInv
  <1>1. /\ holds' = holds /\ holds = 0
        /\ \A i \in 1 .. Len(codec) : codec[i].of = newest
        /\ frame.of = frame.serial /\ clock.of = clock.serial
    <2>1. holds' = holds
      BY DEF Next, Reader, Reads, HandsOver, ReaderChecks, ReaderSeeks, SeekInternal, PlayOrPause, Decoder,
         DecoderSeeks, ProcessInternal, ReceivesFrame, ReceivesEnd, AsksForPacket, OnFrame, Writes,
         Written, Device, LooksAtFlags, ReadsRing, vars
    <2>2. QED
      BY <2>1 DEF ClockInv
  <1>2. /\ queue \in Seq(Packet) /\ codec \in Seq(Frame) /\ Len(codec) \in Nat
        /\ \A i \in 1 .. Len(queue) : queue[i] \in Packet
    BY LenProperties, ElementOfSeq DEF TypeInv, PlacesInv
  <1>3. CASE ReceivesFrame
    <2>1. codec # <<>>
      BY <1>3, <1>1, EmptySeq DEF ReceivesFrame, MayGive
    <2>2. /\ Head(codec) \in Frame /\ Head(codec) = codec[1] /\ Tail(codec) \in Seq(Frame)
          /\ Len(Tail(codec)) = Len(codec) - 1
          /\ \A i \in 1 .. Len(Tail(codec)) : Tail(codec)[i] = codec[i + 1]
      BY <1>2, <2>1, HeadTailProperties
    <2>3. Len(codec) > 0
      BY <1>2, <2>1, EmptySeq
    <2>4. frame' = [Head(codec) EXCEPT !.serial = newest]
      BY <1>3 DEF ReceivesFrame
    <2>5. frame'.of = codec[1].of /\ frame'.serial = newest
      BY <2>2, <2>4 DEF Frame
    <2>6. codec[1].of = newest
      BY <1>1, <1>2, <2>3
    <2>7. \A i \in 1 .. Len(codec') : codec'[i].of = newest
      BY <1>1, <1>2, <1>3, <2>2 DEF ReceivesFrame
    <2>8. QED
      BY <1>1, <1>3, <2>5, <2>6, <2>7 DEF ReceivesFrame, ClockInv
  <1>4. CASE AsksForPacket
    <2>1. PICK k \in 0 .. Len(queue) : Takes(k) \/ FindsNone(k)
      BY <1>2, <1>4, AsksCases
    <2>2. codec = <<>>
      BY <1>1, <1>2, <1>4, EmptySeq DEF AsksForPacket, MayGive
    <2>3. Flushed(k) = <<>> /\ Len(Flushed(k)) = 0 /\ Flushed(k) \in Seq(Frame)
      BY <2>2, FlushedFacts, EmptySeq
    <2>4. \A i \in 1 .. Len(codec') : codec'[i].of = newest'
      <3>1. CASE codec' = Flushed(k)
        BY <2>3, <3>1
      <3>2. CASE Takes(k) /\ codec' = Flushed(k) \o FramesOf(queue[k + 1])
        <4>1. queue[k + 1] \in Packet /\ newest' = queue[k + 1].of
          BY <1>2, <3>2, LenProperties DEF Takes
        <4>2. codec' = FramesOf(queue[k + 1])
          BY <2>3, <3>2, <4>1, FramesOfFacts, ConcatEmptySeq
        <4>3. QED
          BY <4>1, <4>2, FramesOfFacts
      <3>3. QED
        BY <2>1, <3>1, <3>2 DEF Takes, FindsNone
    <2>5. QED
      BY <1>1, <1>4, <2>4 DEF AsksForPacket, ClockInv
  <1>5. CASE OnFrame
    <2>1. frame' = frame \/ frame' = NoFrame
      BY <1>5 DEF OnFrame
    <2>2. NoFrame.of = NoFrame.serial
      BY DEF NoFrame
    <2>3. QED
      BY <1>1, <1>5, <2>1, <2>2 DEF OnFrame, ClockInv
  <1>6. CASE Written
    <2>1. NoFrame.of = NoFrame.serial
      BY DEF NoFrame
    <2>2. QED
      BY <1>1, <1>6, <2>1 DEF Written, ClockUpdated, ClockInv
  <1>7. CASE Reader \/ (\E to \in Targets : SeekInternal(to)) \/ PlayOrPause \/ LooksAtFlags
             \/ ReadsRing \/ UNCHANGED vars
    BY <1>1, <1>7 DEF Reader, Reads, HandsOver, ReaderChecks, ReaderSeeks, SeekInternal, PlayOrPause, LooksAtFlags,
       ReadsRing, vars, ClockInv
  <1>8. CASE DecoderSeeks \/ ProcessInternal \/ ReceivesEnd \/ Writes
    BY <1>1, <1>8 DEF DecoderSeeks, ProcessInternal, ReceivesEnd, Writes, ClockInv
  <1>9. QED
    BY <1>3, <1>4, <1>5, <1>6, <1>7, <1>8 DEF Next, Decoder, Device

\* The reader reads for the newest serial only
LEMMA StaleStep == TypeInv /\ StaleInv /\ [Next]_vars => StaleInv'
  <1> SUFFICES ASSUME TypeInv, StaleInv, [Next]_vars, stamp' < serial' PROVE StaleInv'
    BY DEF StaleInv
  <1>1. /\ queue \in Seq(Packet) /\ Len(queue) \in Nat
        /\ \A i \in 1 .. Len(queue) : queue[i] \in Packet
    BY LenProperties, ElementOfSeq DEF TypeInv, PlacesInv
  <1>2. stamp \in Nat /\ serial \in Nat /\ seekId \in Nat /\ stamp <= serial /\ serial <= seekId
    BY DEF TypeInv, StampInv
  <1>3. CASE HandsOver
    <2>1. stamp < serial /\ inFlight' = NoPacket
      BY <1>3 DEF HandsOver
    <2>2. ~IsPacket(inFlight') /\ ~IsPacket(EndOfFile)
      BY <2>1, Kinds DEF IsPacket
    <2>3. CASE inFlight = EndOfFile
      BY <1>1, <1>3, <2>1, <2>2, <2>3 DEF HandsOver, StaleInv
    <2>4. CASE inFlight # EndOfFile
      <3>1. IsPacket(inFlight) /\ Pushes(inFlight)
        BY <1>3, <2>4 DEF HandsOver, TypeInv, PlacesInv, IsPacket
      <3>2. Len(queue') <= Len(queue) + 1 /\ Len(queue') \in Nat
        <4>1. PICK m \in 0 .. Len(queue) : Len(queue') = m + 1
          BY <3>1, PushesFacts DEF IsPacket
        <4>2. QED
          BY <1>1, <4>1
      <3>3. QED
        BY <1>1, <2>1, <2>2, <3>1, <3>2 DEF StaleInv
    <2>5. QED
      BY <2>3, <2>4
  <1>4. CASE DecoderSeeks
    <2>1. Len(queue') = 0
      BY <1>4, EmptySeq DEF DecoderSeeks
    <2>2. QED
      BY <2>1 DEF StaleInv
  <1>5. CASE AsksForPacket
    <2>1. PICK k \in 0 .. Len(queue) : Takes(k) \/ FindsNone(k)
      BY <1>1, <1>5, AsksCases
    <2>2. Len(queue') <= Len(queue) /\ Len(queue') \in Nat
      <3>1. CASE Takes(k)
        BY <1>1, <3>1, BehindFacts DEF Takes
      <3>2. CASE FindsNone(k)
        BY <1>1, <3>2, EmptySeq DEF FindsNone
      <3>3. QED
        BY <2>1, <3>1, <3>2
    <2>3. inFlight' = inFlight /\ stamp < serial
      BY <1>5 DEF AsksForPacket
    <2>4. QED
      BY <1>1, <2>2, <2>3 DEF StaleInv
  <1>6. CASE Reads
    BY <1>2, <1>6 DEF Reads, MayRead
  <1>10. CASE ReaderChecks
    BY <1>10 DEF ReaderChecks, StaleInv
  <1>11. CASE ReaderSeeks
    <2>1. stamp < serial /\ inFlight' = inFlight /\ queue' = queue
      BY <1>2, <1>11 DEF ReaderSeeks, TypeInv, StampInv
    <2>2. QED
      BY <2>1 DEF StaleInv
  <1>7. CASE (\E to \in Targets : SeekInternal(to)) \/ PlayOrPause \/ LooksAtFlags \/ ReadsRing
             \/ UNCHANGED vars
    BY <1>7 DEF SeekInternal, PlayOrPause, Device, LooksAtFlags, ReadsRing, vars, StaleInv
  <1>8. CASE ProcessInternal \/ ReceivesFrame \/ ReceivesEnd \/ OnFrame \/ Writes \/ Written
    BY <1>8 DEF ProcessInternal, ReceivesFrame, ReceivesEnd, OnFrame, Writes, Written, StaleInv
  <1>9. QED
    BY <1>3, <1>4, <1>5, <1>6, <1>7, <1>8, <1>10, <1>11 DEF Next, Decoder, Reader, Device

-----------------------------------------------------------------------------
(* The end of the file *)

\* The last frame is that of the last packet, which neither GetAudioPacket nor the loop drops
LEMMA LastFacts ==
  /\ FirstOf(Packets) + PerPacket = Packets * PerPacket + 1
  /\ \A s \in Nat : [pos |-> Packets, of |-> s] \in Packet
  /\ \A f \in Frame : f.n = Packets * PerPacket => f.pos = Packets
  <1>1. FirstOf(Packets) + PerPacket = Packets * PerPacket + 1
    BY Sizes DEF FirstOf
  <1>2. ASSUME NEW f \in Frame, f.n = Packets * PerPacket, f.pos # Packets PROVE FALSE
    <2>1. f.pos \in 1 .. Packets /\ f.n < FirstOf(f.pos) + PerPacket /\ f.n \in Nat
      BY <1>2 DEF Frame
    <2>2. FirstOf(f.pos) + PerPacket <= FirstOf(Packets) /\ FirstOf(f.pos) \in Int
      <3>1. f.pos \in Int /\ Packets \in Int /\ f.pos < Packets
        BY <1>2, <2>1, Sizes
      <3>2. QED
        BY <3>1, FirstOfFacts
    <2>3. FirstOf(Packets) \in Int /\ FirstOf(Packets) + PerPacket = f.n + 1
      BY <1>1, <1>2, Sizes, FirstOfFacts
    <2>4. QED
      BY <2>1, <2>2, <2>3, Sizes
  <1>3. \A s \in Nat : [pos |-> Packets, of |-> s] \in Packet
    BY Sizes DEF Packet
  <1>4. QED
    BY <1>1, <1>2, <1>3

\* Nothing takes the last frame away before it was written
LEMMA LastStep ==
  ASSUME TypeInv, [Next]_vars, LastIsOnItsWay, ~late, ~late', loop' # "failed", stamp = serial,
         ~DecoderSeeks, ~ReaderSeeks, at > Packets,
         eof \/ inFlight = EndOfFile => ~IsPacket(inFlight)
  PROVE  LastIsOnItsWay'
  <1>1. /\ queue \in Seq(Packet) /\ Len(queue) \in Nat
        /\ \A i \in 1 .. Len(queue) : queue[i] \in Packet
        /\ codec \in Seq(Frame) /\ Len(codec) \in Nat
        /\ \A i \in 1 .. Len(codec) : codec[i] \in Frame
    BY LenProperties, ElementOfSeq DEF TypeInv, PlacesInv
  <1>2. serial \in Nat /\ target \in 1 .. Packets /\ start \in 1 .. Packets
    BY DEF TypeInv, StampInv
  <1>3. ~IsPacket(NoPacket) /\ ~IsPacket(EndOfFile) /\ IsPacket([pos |-> Packets, of |-> serial])
    BY <1>2, Kinds, LastFacts DEF IsPacket
  <1>4. CASE Reads
    <2>1. inFlight = NoPacket /\ inFlight' \in {NoPacket, EndOfFile}
      BY <1>4, Sizes DEF Reads, MayRead, Free, TypeInv, StampInv
    <2>2. QED
      BY <1>3, <1>4, <2>1 DEF Reads, LastIsOnItsWay, IsLast
  <1>5. CASE HandsOver
    <2>1. CASE inFlight = EndOfFile
      BY <1>3, <1>5, <2>1 DEF HandsOver, LastIsOnItsWay, IsLast
    <2>2. CASE inFlight # EndOfFile
      <3>1. IsPacket(inFlight) /\ Pushes(inFlight)
        BY <1>5, <2>2 DEF HandsOver, TypeInv, PlacesInv, IsPacket
      <3>2. inFlight = [pos |-> Packets, of |-> serial]
        BY <3>1 DEF LastIsOnItsWay
      <3>3. queue'[Len(queue')] = inFlight /\ queue' # <<>>
        <4>1. PICK m \in 0 .. Len(queue) :
                queue' \in Seq(Packet) /\ Len(queue') = m + 1 /\ queue'[m + 1] = inFlight
          BY <3>1, PushesFacts DEF IsPacket
        <4>2. Len(queue') # 0
          BY <1>1, <4>1
        <4>3. QED
          BY <4>1, <4>2, EmptySeq
      <3>4. inFlight' = NoPacket /\ serial' = serial
        BY <1>5 DEF HandsOver
      <3>5. QED
        BY <1>3, <3>2, <3>3, <3>4 DEF LastIsOnItsWay
    <2>3. QED
      BY <2>1, <2>2
  <1>6. CASE ReceivesFrame
    <2>1. codec # <<>> /\ frame = NoFrame
      BY <1>1, <1>6, EmptySeq DEF ReceivesFrame, MayGive, TypeInv, LoopInv, PlacesInv
    <2>2. /\ Head(codec) \in Frame /\ Head(codec) = codec[1] /\ Tail(codec) \in Seq(Frame)
          /\ Len(Tail(codec)) = Len(codec) - 1
          /\ \A i \in 1 .. Len(Tail(codec)) : Tail(codec)[i] = codec[i + 1]
      BY <1>1, <2>1, HeadTailProperties
    <2>3. Len(codec) > 0
      BY <1>1, <2>1, EmptySeq
    <2>4. frame' = [Head(codec) EXCEPT !.serial = newest] /\ codec' = Tail(codec)
      BY <1>6 DEF ReceivesFrame
    <2>5. frame' \in Frame /\ frame'.of = codec[1].of /\ frame'.n = codec[1].n
      BY <2>2, <2>4 DEF Frame, TypeInv, PlacesInv
    <2>6. inFlight' = inFlight /\ queue' = queue /\ serial' = serial
      BY <1>6 DEF ReceivesFrame
    <2>7. CASE ~IsPacket(inFlight) /\ queue = <<>> /\ IsLast(codec[Len(codec)])
      <3>1. CASE Len(codec) = 1
        <4>1. codec' = <<>>
          BY <2>2, <2>4, <3>1, EmptySeq
        <4>2. frame' # NoFrame
          BY <2>5, Kinds
        <4>3. IsLast(frame)'
          BY <2>5, <2>6, <2>7, <3>1 DEF IsLast
        <4>4. QED
          BY <2>6, <2>7, <4>1, <4>2, <4>3 DEF LastIsOnItsWay
      <3>2. CASE Len(codec) # 1
        <4>1. codec' # <<>> /\ codec'[Len(codec')] = codec[Len(codec)]
          BY <1>1, <2>2, <2>3, <2>4, <3>2, EmptySeq
        <4>2. QED
          BY <2>6, <2>7, <4>1 DEF LastIsOnItsWay, IsLast
      <3>3. QED
        BY <3>1, <3>2
    <2>8. CASE inFlight = [pos |-> Packets, of |-> serial]
      BY <2>6, <2>8 DEF LastIsOnItsWay
    <2>9. CASE /\ ~IsPacket(inFlight) /\ queue # <<>>
               /\ queue[Len(queue)] = [pos |-> Packets, of |-> serial]
      BY <2>6, <2>9 DEF LastIsOnItsWay
    <2>10. QED
      BY <2>1, <2>7, <2>8, <2>9 DEF LastIsOnItsWay
  <1>7. CASE AsksForPacket
    <2>1. PICK k \in 0 .. Len(queue) :
            /\ \A i \in 1 .. k : Ends(queue[i]) \/ IsStale(queue[i])
            /\ Takes(k) \/ FindsNone(k)
      BY <1>1, <1>7, AsksCases
    <2>2. inFlight' = inFlight /\ serial' = serial /\ frame' = frame /\ sent' = sent
      BY <1>7 DEF AsksForPacket
    <2>3. CASE inFlight = [pos |-> Packets, of |-> serial]
      BY <2>2, <2>3 DEF LastIsOnItsWay
    <2>4. CASE /\ ~IsPacket(inFlight) /\ queue # <<>>
               /\ queue[Len(queue)] = [pos |-> Packets, of |-> serial]
      <3>1. Len(queue) > 0
        BY <1>1, <2>4, EmptySeq
      <3>2. ~Ends(queue[Len(queue)]) /\ ~IsStale(queue[Len(queue)])
        BY <1>2, <2>4, Sizes DEF Ends, IsStale
      <3>3. Takes(k) /\ k < Len(queue)
        BY <1>1, <2>1, <3>1, <3>2 DEF FindsNone, Takes
      <3>4. /\ queue' \in Seq(Packet) /\ Len(queue') = Len(queue) - k - 1
            /\ \A i \in 1 .. Len(queue') : queue'[i] = queue[k + 1 + i]
        BY <1>1, <3>3, BehindFacts, SMTT(30) DEF Takes
      <3>5. CASE k + 1 = Len(queue)
        <4>1. queue' = <<>>
          BY <1>1, <3>4, <3>5, EmptySeq
        <4> DEFINE p == queue[k + 1]
        <4>2. p \in Packet /\ p.pos = Packets /\ p.of = serial
          BY <1>1, <2>4, <3>1, <3>5
        <4>3. /\ FramesOf(p) \in Seq(Frame) /\ Len(FramesOf(p)) = PerPacket
              /\ FramesOf(p)[PerPacket].n = FirstOf(Packets) + PerPacket - 1
              /\ FramesOf(p)[PerPacket].of = serial
          BY <4>2, FramesOfFacts, Sizes
        <4>4. Flushed(k) \in Seq(Frame) /\ Len(Flushed(k)) \in Nat
          <5>1. codec \in Seq(Frame) /\ <<>> \in Seq(Frame)
            BY <1>1, EmptySeq
          <5>2. Flushed(k) \in Seq(Frame)
            BY <5>1, FlushedFacts, Zenon
          <5>3. QED
            BY <5>2, LenProperties
        <4>5. codec' = Flushed(k) \o FramesOf(p)
          BY <3>3 DEF Takes
        <4>6. /\ codec' \in Seq(Frame) /\ Len(codec') = Len(Flushed(k)) + PerPacket
              /\ codec'[Len(Flushed(k)) + PerPacket] = FramesOf(p)[PerPacket]
          <5>1. /\ codec' \in Seq(Frame) /\ Len(codec') = Len(Flushed(k)) + PerPacket
                /\ \A i \in 1 .. Len(Flushed(k)) + PerPacket : codec'[i] =
                     IF i <= Len(Flushed(k)) THEN Flushed(k)[i]
                                             ELSE FramesOf(p)[i - Len(Flushed(k))]
            BY <4>3, <4>4, <4>5, ConcatProperties
          <5> DEFINE m == Len(Flushed(k)) + PerPacket
          <5>2. /\ ~(m <= Len(Flushed(k))) /\ m \in 1 .. m
                /\ m - Len(Flushed(k)) = PerPacket
            BY <4>4, Sizes
          <5>3. codec'[m] = FramesOf(p)[m - Len(Flushed(k))]
            BY <5>1, <5>2, Zenon
          <5>4. QED
            BY <5>1, <5>2, <5>3
        <4>7. codec' # <<>>
          BY <4>4, <4>6, EmptySeq, Sizes
        <4>8. FirstOf(Packets) + PerPacket - 1 = Packets * PerPacket
          <5>1. FirstOf(Packets) \in Int
            BY FirstOfFacts, Sizes
          <5>2. \A a, b, c \in Int : a + b = c + 1 => a + b - 1 = c
            OBVIOUS
          <5>3. Packets * PerPacket \in Int
            BY Sizes
          <5>4. QED
            BY <5>1, <5>2, <5>3, LastFacts, Sizes
        <4>9. IsLast(codec[Len(codec)])'
          BY <2>2, <4>3, <4>6, <4>8 DEF IsLast
        <4>10. QED
          BY <2>2, <2>4, <4>1, <4>7, <4>9 DEF LastIsOnItsWay
      <3>6. CASE k + 1 # Len(queue)
        <4>1. queue' # <<>> /\ queue'[Len(queue')] = queue[Len(queue)]
          <5>1. Len(queue') \in 1 .. Len(queue') /\ k + 1 + Len(queue') = Len(queue)
            BY <1>1, <3>3, <3>4, <3>6
          <5>2. queue'[Len(queue')] = queue[Len(queue)]
            BY <3>4, <5>1
          <5>3. QED
            BY <3>4, <5>1, <5>2, EmptySeq
        <4>2. QED
          BY <2>2, <2>4, <4>1 DEF LastIsOnItsWay
      <3>7. QED
        BY <3>5, <3>6
    <2>5. CASE ~IsPacket(inFlight) /\ queue = <<>>
      <3>1. Len(queue) = 0 /\ FindsNone(k) /\ k = 0
        BY <2>1, <2>5, EmptySeq DEF Takes
      <3>2. queue' = <<>> /\ codec' = codec
        BY <3>1, FlushedFacts DEF FindsNone
      <3>3. QED
        BY <2>2, <2>5, <3>2 DEF LastIsOnItsWay, IsLast
    <2>6. QED
      BY <2>3, <2>4, <2>5 DEF LastIsOnItsWay
  <1>8. CASE OnFrame
    <2>1. frame # NoFrame /\ frame \in Frame
      BY <1>8 DEF OnFrame, TypeInv, LoopInv, PlacesInv
    <2>2. IsLast(frame) => frame.pos = Packets
      BY <2>1, LastFacts DEF IsLast
    <2>3. IsLast(frame) => frame' = frame
      BY <1>2, <1>8, <2>2, Sizes DEF OnFrame
    <2>4. UNCHANGED <<inFlight, queue, codec, serial, sent>>
      BY <1>8 DEF OnFrame
    <2>5. QED
      BY <2>1, <2>3, <2>4 DEF LastIsOnItsWay, IsLast
  <1>9. CASE Writes
    <2>1. frame # NoFrame
      BY <1>9 DEF Writes, TypeInv, LoopInv
    <2>2. QED
      BY <1>9, <2>1 DEF Writes, LastIsOnItsWay, IsLast
  <1>10. CASE Written
    <2>1. frame # NoFrame /\ sent = frame
      BY <1>10 DEF Written, TypeInv, LoopInv
    <2>2. QED
      BY <1>10, <2>1 DEF Written, LastIsOnItsWay, IsLast
  <1>11. CASE ProcessInternal \/ ReceivesEnd \/ (\E to \in Targets : SeekInternal(to))
              \/ PlayOrPause \/ LooksAtFlags \/ ReadsRing \/ ReaderChecks \/ UNCHANGED vars
    BY <1>11 DEF ProcessInternal, ReceivesEnd, SeekInternal, PlayOrPause, LooksAtFlags, ReadsRing,
       ReaderChecks, vars, LastIsOnItsWay, IsLast
  <1>12. QED
    BY <1>4, <1>5, <1>6, <1>7, <1>8, <1>9, <1>10, <1>11 DEF Next, Reader, Decoder, Device

\* The end is announced behind the last packet, drains the codec behind its last frame, and
\* completes the loop behind that one
LEMMA EndStep == TypeInv /\ EndInv /\ [Next]_vars => EndInv'
  <1> SUFFICES ASSUME TypeInv, EndInv, [Next]_vars, ~late' PROVE EndInv'
    BY DEF EndInv
  <1>1. ~late
    BY DEF Next, Reader, Reads, HandsOver, ReaderChecks, ReaderSeeks, SeekInternal, PlayOrPause, Decoder,
       DecoderSeeks, ProcessInternal, ReceivesFrame, ReceivesEnd, AsksForPacket, OnFrame, Writes,
       Written, Device, LooksAtFlags, ReadsRing, vars
  <1>2. /\ eof \/ inFlight = EndOfFile =>
             stamp = serial /\ at = Packets + 1 /\ ~IsPacket(inFlight)
        /\ draining => eof /\ queue = <<>>
        /\ stamp = serial /\ at > Packets /\ loop # "failed" => LastIsOnItsWay
        /\ loop = "completed" => draining /\ IsLast(sent)
    BY <1>1 DEF EndInv
  <1>3. /\ stamp \in Nat /\ serial \in Nat /\ seekId \in Nat /\ stamp <= serial /\ serial <= seekId
        /\ at \in 1 .. Packets + 1
    BY DEF TypeInv, StampInv
  <1>4. ~IsPacket(NoPacket) /\ ~IsPacket(EndOfFile) /\ NoPacket # EndOfFile
    BY Kinds DEF IsPacket
  <1>5. CASE DecoderSeeks
    <2>1. ~eof /\ inFlight # EndOfFile /\ UNCHANGED <<eof, inFlight, draining, loop, stamp>>
      BY <1>5 DEF DecoderSeeks
    <2>2. serial' = seekId /\ seekId # serial
      BY <1>5 DEF DecoderSeeks
    <2>3. stamp' # serial'
      BY <1>3, <2>1, <2>2
    <2>4. QED
      BY <1>2, <2>1, <2>3 DEF EndInv
  <1>6. CASE ReaderSeeks
    <2>1. ~eof /\ inFlight = NoPacket /\ UNCHANGED <<eof, inFlight, draining, loop>>
      BY <1>2, <1>3, <1>6 DEF ReaderSeeks, TypeInv, StampInv
    <2>2. ~(at' > Packets)
      BY <1>6 DEF ReaderSeeks
    <2>3. QED
      BY <1>2, <1>4, <2>1, <2>2 DEF EndInv
  <1>7. CASE ~DecoderSeeks /\ ~ReaderSeeks
    <2>1. stamp' = stamp /\ serial' = serial
      BY <1>7 DEF Next, Reader, Reads, HandsOver, ReaderChecks, SeekInternal, PlayOrPause, Decoder,
         ProcessInternal, ReceivesFrame, ReceivesEnd, AsksForPacket, OnFrame, Writes,
         Written, Device, LooksAtFlags, ReadsRing, vars
    <2>2. loop' # "failed" => loop # "failed"
      BY <1>7 DEF Next, Reader, Reads, HandsOver, ReaderChecks, SeekInternal, PlayOrPause, Decoder,
         ProcessInternal, ReceivesFrame, ReceivesEnd, AsksForPacket, OnFrame, Writes,
         Written, Device, LooksAtFlags, ReadsRing, vars
    <2>3. ASSUME stamp' = serial', at' > Packets, loop' # "failed" PROVE LastIsOnItsWay'
      <3>1. CASE at > Packets
        BY <1>1, <1>2, <1>7, <2>1, <2>2, <2>3, <3>1, LastStep
      <3>2. CASE ~(at > Packets)
        <4>1. Reads
          BY <1>7, <2>3, <3>2 DEF Next, Reader, Reads, HandsOver, ReaderChecks, SeekInternal, PlayOrPause, Decoder,
             ProcessInternal, ReceivesFrame, ReceivesEnd, AsksForPacket, OnFrame, Writes,
             Written, Device, LooksAtFlags, ReadsRing, vars
        <4>2. at = Packets /\ inFlight' = [pos |-> Packets, of |-> serial]
          BY <1>3, <2>1, <2>3, <3>2, <4>1, Sizes DEF Reads
        <4>3. QED
          BY <2>1, <4>2 DEF LastIsOnItsWay
      <3>3. QED
        BY <3>1, <3>2
    <2>4. CASE Reads
      <3>1. inFlight = NoPacket /\ stamp = serial /\ eof' = eof
        BY <1>3, <2>4 DEF Reads, MayRead, Free
      <3>5. CASE inFlight' = inFlight /\ at' = at
        BY <1>2, <2>1, <2>3, <2>4, <3>5 DEF EndInv, Reads, IsLast
      <3>2. CASE at <= Packets /\ at' = at + 1
        <4>1. ~eof /\ ~draining /\ loop # "completed"
          BY <1>2, <1>3, <3>2, Sizes
        <4>2. inFlight' # EndOfFile
          BY <1>3, <2>4, <3>2, Sizes DEF Reads, EndOfFile
        <4>3. QED
          BY <2>3, <2>4, <3>1, <4>1, <4>2 DEF EndInv, Reads
      <3>3. CASE at > Packets /\ inFlight' = EndOfFile
        <4>1. at' = Packets + 1 /\ inFlight' = EndOfFile
          BY <1>3, <2>4, <3>3, Sizes DEF Reads
        <4>2. ~IsPacket(inFlight')
          BY <1>4, <4>1
        <4>3. QED
          BY <1>2, <2>1, <2>3, <2>4, <3>1, <4>1, <4>2 DEF EndInv, Reads, IsLast
      <3>4. QED
        BY <2>4, <3>2, <3>3, <3>5 DEF Reads
    <2>5. CASE HandsOver
      <3>1. CASE inFlight = EndOfFile
        BY <1>2, <1>4, <2>1, <2>3, <2>5, <3>1 DEF EndInv, HandsOver, IsLast
      <3>2. CASE inFlight # EndOfFile
        <4>1. IsPacket(inFlight)
          BY <2>5, <3>2 DEF HandsOver, TypeInv, PlacesInv, IsPacket
        <4>2. ~eof /\ ~draining /\ loop # "completed"
          BY <1>2, <4>1
        <4>3. eof' = eof /\ draining' = draining /\ loop' = loop /\ inFlight' = NoPacket
          BY <2>5, <3>2 DEF HandsOver
        <4>4. QED
          BY <1>4, <2>3, <4>2, <4>3 DEF EndInv
      <3>3. QED
        BY <3>1, <3>2
    <2>6. CASE ReceivesEnd
      <3>1. draining /\ codec = <<>> /\ frame = NoFrame /\ loop = "receiving"
        BY <2>6 DEF ReceivesEnd, TypeInv, LoopInv
      <3>2. stamp = serial /\ at > Packets /\ ~IsPacket(inFlight) /\ queue = <<>>
        BY <1>2, <3>1, Sizes
      <3>3. LastIsOnItsWay
        BY <1>2, <3>1, <3>2
      <3>4. IsPacket([pos |-> Packets, of |-> serial])
        BY <1>3, LastFacts DEF IsPacket
      <3>5. IsLast(sent)
        BY <3>1, <3>2, <3>3, <3>4 DEF LastIsOnItsWay
      <3>6. QED
        BY <1>2, <2>1, <2>3, <2>6, <3>1, <3>5 DEF EndInv, ReceivesEnd, IsLast
    <2>7. CASE AsksForPacket
      <3>1. UNCHANGED <<at, inFlight, eof, sent>> /\ loop = "receiving"
        BY <2>7 DEF AsksForPacket
      <3>2. loop' # "completed" /\ (draining' => eof /\ queue' = <<>>)
        BY <2>7 DEF AsksForPacket, IsEof
      <3>3. QED
        BY <1>2, <2>1, <2>3, <3>1, <3>2 DEF EndInv
    <2>8. CASE Writes
      BY <1>2, <2>1, <2>3, <2>8 DEF EndInv, Writes
    <2>9. CASE ReceivesFrame \/ OnFrame \/ Written \/ ProcessInternal
      BY <1>2, <2>1, <2>3, <2>9 DEF EndInv, ReceivesFrame, OnFrame, Written, ProcessInternal
    <2>10. CASE (\E to \in Targets : SeekInternal(to)) \/ PlayOrPause \/ LooksAtFlags \/ ReadsRing
                \/ ReaderChecks \/ UNCHANGED vars
      BY <1>2, <2>1, <2>3, <2>10 DEF EndInv, SeekInternal, PlayOrPause, LooksAtFlags, ReadsRing,
         ReaderChecks, vars, IsLast
    <2>11. QED
      BY <1>7, <2>4, <2>5, <2>6, <2>7, <2>8, <2>9, <2>10 DEF Next, Reader, Decoder, Device
  <1>8. QED
    BY <1>5, <1>6, <1>7

-----------------------------------------------------------------------------
(* The order of the frames *)

\* Where the parts of the chain are
ChainTyping ==
  /\ queue \in Seq(Packet) /\ Len(queue) \in Nat
  /\ \A i \in 1 .. Len(queue) : queue[i] \in Packet /\ queue[i].pos \in Int
  /\ codec \in Seq(Frame) /\ Len(codec) \in Nat
  /\ \A i \in 1 .. Len(codec) : codec[i] \in Frame /\ codec[i].n \in Int /\ codec[i].pos \in Int
  /\ Coming \in Int /\ FirstOf(Coming) \in Int
  /\ start \in Int /\ from \in Int /\ at \in Int /\ FirstOf(start) \in Int
  /\ frame.n \in Int /\ sent.n \in Int

\* They are numbers and sequences
LEMMA ChainTypes == ASSUME TypeInv PROVE ChainTyping
  <1>1. /\ queue \in Seq(Packet) /\ Len(queue) \in Nat
        /\ \A i \in 1 .. Len(queue) : queue[i] \in Packet
        /\ codec \in Seq(Frame) /\ Len(codec) \in Nat
        /\ \A i \in 1 .. Len(codec) : codec[i] \in Frame
    BY LenProperties, ElementOfSeq DEF TypeInv, PlacesInv
  <1>2. start \in Int /\ from \in Int /\ at \in Int
    BY Sizes DEF TypeInv, StampInv
  <1>3. /\ \A p \in Packet : p.pos \in Int
        /\ \A f \in Frame : f.n \in Int /\ f.pos \in Int
        /\ NoFrame.n \in Int
    BY Sizes DEF Packet, Frame, NoFrame
  <1>4. Coming \in Int
    BY <1>2, <1>3 DEF Coming, IsPacket
  <1>5. FirstOf(Coming) \in Int /\ FirstOf(start) \in Int
    BY <1>2, <1>4, FirstOfFacts
  <1>6. frame.n \in Int /\ sent.n \in Int
    BY <1>3 DEF TypeInv, PlacesInv
  <1>7. QED
    BY <1>1, <1>2, <1>3, <1>4, <1>5, <1>6 DEF ChainTyping

\* What is before the target is not missed
LEMMA PreviousFacts ==
  ASSUME TypeInv, SentOrder
  PROVE  /\ Previous \in Int /\ FirstOf(start) <= Previous + 1
         /\ Current(sent) => Previous = sent.n
         /\ ~Current(sent) =>
              \A a \in Int : start <= a /\ from <= a => Previous < FirstOf(a)
         /\ ~Current(sent) => FirstOf(from) <= Previous + 1
  <1>0. ChainTyping
    BY ChainTypes
  <1>1. CASE Current(sent)
    <2>1. Previous = sent.n
      BY <1>1 DEF Previous, Current
    <2>2. QED
      BY <1>0, <1>1, <2>1 DEF SentOrder, ChainTyping
  <1>2. CASE ~Current(sent)
    <2> DEFINE g == Greatest(start, from)
    <2>1. g \in Int /\ start <= g /\ from <= g /\ g \in {start, from}
      BY <1>0 DEF Greatest, ChainTyping
    <2>2. Previous = (g - 1) * PerPacket
      BY <1>2 DEF Previous, Current
    <2> HIDE DEF g
    <2>3. FirstOf(g) = Previous + 1 /\ FirstOf(g) \in Int /\ Previous \in Int
      <3>1. FirstOf(g) = Previous + 1
        BY <2>2 DEF FirstOf
      <3>2. (g - 1) * PerPacket \in Int
        BY <2>1, Sizes
      <3>3. QED
        BY <2>1, <2>2, <3>1, <3>2, FirstOfFacts
    <2>4. FirstOf(start) <= FirstOf(g) /\ FirstOf(from) <= FirstOf(g)
      BY <1>0, <2>1, FirstOfFacts DEF ChainTyping
    <2>5. ASSUME NEW a \in Int, start <= a, from <= a PROVE Previous < FirstOf(a)
      <3>1. g <= a
        BY <2>1, <2>5
      <3>2. FirstOf(g) <= FirstOf(a) /\ FirstOf(a) \in Int
        BY <2>1, <3>1, FirstOfFacts
      <3>3. QED
        BY <2>3, <3>2
    <2>6. QED
      BY <1>2, <2>3, <2>4, <2>5
  <1>3. QED
    BY <1>1, <1>2

\* av_read_frame: the packet that is read is the one that is to come
LEMMA ReadsKeepsChain ==
  ASSUME TypeInv, Chained, Reads
  PROVE  Chained'
  <1>1. UNCHANGED <<queue, codec, frame, sent, loop, start, from, serial, lost>>
    BY DEF Reads
  <1>2. ~IsPacket(NoPacket) /\ ~IsPacket(EndOfFile) /\ inFlight = NoPacket
    BY Kinds DEF IsPacket, Reads, MayRead, Free
  <1>3. Coming' = Coming
    <2>1. Coming = at
      BY <1>2 DEF Coming
    <2>2. CASE at <= Packets /\ inFlight' = [pos |-> at, of |-> stamp]
      <3>1. inFlight' \in Packet
        BY <2>2, Sizes DEF Packet, TypeInv, StampInv
      <3>2. QED
        BY <2>1, <2>2, <3>1 DEF Coming, IsPacket
    <2>3. CASE inFlight' \in {NoPacket, EndOfFile} /\ at' = at
      BY <1>2, <2>1, <2>3 DEF Coming
    <2>4. QED
      BY <1>2, <2>2, <2>3 DEF Reads
  <1>4. QED
    BY <1>1, <1>3 DEF Chained, QueueOrder, CodecOrder, FrameOrder, SentOrder, NoneMissing, NoneStale,
       InFrontOfCodec, InFrontOfQueue, Held, IsStale, Current, Previous, FrameLost

\* PushPacket: it is behind all that was read, and what the queue loses is known
LEMMA PushedKeepsChain ==
  ASSUME TypeInv, Agreed, Chained, HandsOver
  PROVE  Chained'
  <1>0. ChainTyping
    BY ChainTypes
  <1>1. UNCHANGED <<codec, frame, sent, loop, start, from, serial>>
    BY DEF HandsOver
  <1>2. ~IsPacket(NoPacket) /\ ~IsPacket(EndOfFile)
    BY Kinds DEF IsPacket
  <1>3. CASE inFlight = EndOfFile
    <2>1. Coming' = Coming /\ UNCHANGED <<queue, lost>>
      BY <1>2, <1>3 DEF HandsOver, Coming
    <2>2. QED
      BY <1>1, <2>1 DEF Chained, QueueOrder, CodecOrder, FrameOrder, SentOrder, NoneMissing, NoneStale,
         InFrontOfCodec, InFrontOfQueue, Held, IsStale, Current, Previous, FrameLost
  <1>4. CASE inFlight # EndOfFile
    <2> DEFINE p == inFlight
    <2>1. p \in Packet /\ Pushes(p) /\ inFlight' = NoPacket /\ at' = at
      BY <1>4 DEF HandsOver, TypeInv, PlacesInv, IsPacket
    <2>2. p.of = serial /\ at = p.pos + 1 /\ p.pos \in Int
      BY <2>1, Sizes DEF Agreed, TypeInv, PlacesInv, IsPacket, Packet
    <2>3. Coming' = Coming + 1 /\ Coming = p.pos
      BY <1>2, <2>1, <2>2 DEF Coming, IsPacket
    <2>4. PICK m \in 0 .. Len(queue) :
            /\ Len(queue') = m + 1 /\ queue'[m + 1] = p
            /\ \A i \in 1 .. m : queue'[i] = queue[i]
            /\ lost \subseteq lost' /\ \A i \in m + 1 .. Len(queue) : queue[i].pos \in lost'
      BY <2>1, PushesFacts
    <2>5. \A i \in 1 .. Len(queue') :
            \/ i \in 1 .. m /\ i \in 1 .. Len(queue) /\ queue'[i] = queue[i]
            \/ i = m + 1 /\ queue'[i] = p
      BY <1>0, <2>4 DEF ChainTyping
    <2>6. /\ FirstOf(Coming + 1) = FirstOf(Coming) + PerPacket
          /\ FirstOf(Coming) \in Int /\ PerPacket \in Int /\ PerPacket > 0
      BY <1>0, FirstOfFacts, Sizes DEF ChainTyping
    <2>7. \A q : IsStale(q)' <=> IsStale(q)
      BY <1>1 DEF IsStale
    <2>8. ~IsStale(p)
      BY <2>2 DEF IsStale
    <2>9. ASSUME NEW n \in Int, InFrontOfQueue(n) PROVE InFrontOfQueue(n)'
      <3>1. n < FirstOf(Coming + 1) /\ n < FirstOf(p.pos)
        BY <2>3, <2>6, <2>9 DEF InFrontOfQueue
      <3>2. ASSUME NEW i \in 1 .. Len(queue'), queue'[i].of # serial' => FALSE
            PROVE  n < FirstOf(queue'[i].pos)
        <4>1. CASE i \in 1 .. Len(queue) /\ queue'[i] = queue[i]
          BY <1>1, <2>9, <3>2, <4>1 DEF InFrontOfQueue, IsStale
        <4>2. CASE queue'[i] = p
          BY <3>1, <4>2
        <4>3. QED
          BY <2>5, <4>1, <4>2
      <3>3. QED
        BY <2>3, <3>1, <3>2 DEF InFrontOfQueue, IsStale, FirstOf
    <2>10. QueueOrder'
      <3>1. from' <= Coming'
        BY <1>0, <1>1, <2>3 DEF Chained, QueueOrder, ChainTyping
      <3>2. ASSUME NEW i \in 1 .. Len(queue'), queue'[i].of # serial'
            PROVE  i = 1 /\ \A j \in 1 .. Len(codec') : codec'[j].of # serial'
        <4>1. queue'[i] # p
          BY <1>1, <2>2, <3>2
        <4>2. i \in 1 .. Len(queue) /\ IsStale(queue[i])
          BY <1>1, <2>5, <3>2, <4>1 DEF IsStale
        <4>3. QED
          BY <1>1, <4>2 DEF Chained, QueueOrder, IsStale
      <3>3. ASSUME NEW i \in 1 .. Len(queue'), ~(queue'[i].of # serial')
            PROVE  /\ from' <= queue'[i].pos /\ queue'[i].pos < Coming'
                   /\ \A j \in i + 1 .. Len(queue') : queue'[i].pos < queue'[j].pos
        <4>1. CASE i \in 1 .. m /\ i \in 1 .. Len(queue) /\ queue'[i] = queue[i]
          <5>1. /\ from <= queue[i].pos /\ queue[i].pos < Coming
                /\ \A j \in i + 1 .. Len(queue) : queue[i].pos < queue[j].pos
            BY <1>1, <3>3, <4>1 DEF Chained, QueueOrder, IsStale
          <5>2. ASSUME NEW j \in i + 1 .. Len(queue') PROVE queue[i].pos < queue'[j].pos
            <6>1. j \in 1 .. Len(queue') /\ j \in Int /\ i \in Int
              BY <2>4, <4>1
            <6>2. CASE j \in 1 .. Len(queue) /\ queue'[j] = queue[j]
              <7>1. j \in i + 1 .. Len(queue)
                BY <6>2
              <7>2. QED
                BY <5>1, <6>2, <7>1
            <6>3. CASE queue'[j] = p
              BY <2>3, <5>1, <6>3
            <6>4. QED
              BY <2>5, <6>1, <6>2, <6>3
          <5>3. queue[i].pos < Coming + 1
            BY <1>0, <4>1, <5>1 DEF ChainTyping
          <5>4. QED
            BY <1>1, <2>3, <4>1, <5>1, <5>2, <5>3
        <4>2. CASE i = m + 1 /\ queue'[i] = p
          <5>1. \A j \in i + 1 .. Len(queue') : FALSE
            BY <2>4, <4>2
          <5>2. p.pos < p.pos + 1 /\ from <= p.pos
            BY <2>2, <2>3 DEF Chained, QueueOrder
          <5>3. QED
            BY <1>1, <2>3, <4>2, <5>1, <5>2
        <4>3. QED
          BY <2>5, <4>1, <4>2
      <3>4. QED
        BY <3>1, <3>2, <3>3 DEF QueueOrder, IsStale
    <2>11. CodecOrder' /\ FrameOrder' /\ SentOrder'
      <3>1. \A n \in Int : InFrontOfCodec(n) => InFrontOfCodec(n)'
        BY <1>1, <2>9 DEF InFrontOfCodec, IsStale
      <3>2. CodecOrder'
        BY <1>0, <1>1, <2>9 DEF Chained, CodecOrder, IsStale, ChainTyping
      <3>3. FrameOrder'
        BY <1>0, <1>1, <3>1 DEF Chained, FrameOrder, NoneStale, IsStale, Current, ChainTyping
      <3>4. SentOrder'
        BY <1>0, <1>1, <3>1 DEF Chained, SentOrder, NoneStale, IsStale, Current, ChainTyping, FirstOf
      <3>5. QED
        BY <3>2, <3>3, <3>4
    <2>12. ASSUME NEW n \in Int, Previous < n, n < FirstOf(Coming + 1)
           PROVE  FrameLost(n)' \/ Held(n)'
      <3>1. CASE n < FirstOf(Coming)
        <4>1. FrameLost(n) \/ Held(n)
          BY <2>12, <3>1 DEF Chained, NoneMissing
        <4>2. CASE FrameLost(n)
          BY <2>4, <4>2 DEF FrameLost
        <4>3. CASE Current(frame) /\ frame.n = n
          BY <1>1, <4>3 DEF Held, Current
        <4>4. CASE \E i \in 1 .. Len(codec) : ~IsStale(codec[i]) /\ codec[i].n = n
          BY <1>1, <4>4 DEF Held, IsStale
        <4>5. ASSUME NEW i \in 1 .. Len(queue), ~IsStale(queue[i]), HasFrame(queue[i], n)
              PROVE  FrameLost(n)' \/ Held(n)'
          <5>1. CASE i \in 1 .. m
            <6>1. i \in 1 .. Len(queue') /\ queue'[i] = queue[i]
              BY <2>4, <5>1
            <6>2. QED
              BY <1>1, <4>5, <6>1 DEF Held, IsStale, HasFrame, FirstOf
          <5>2. CASE i \notin 1 .. m
            <6>1. queue[i].pos \in lost' /\ queue[i] \in Packet
              BY <1>0, <2>4, <5>2 DEF ChainTyping
            <6>2. PerPacket \in Int /\ queue[i].pos \in Int
              BY <1>0, Sizes DEF ChainTyping
            <6>3. /\ (queue[i].pos - 1) * PerPacket \in Int
                  /\ queue[i].pos * PerPacket = (queue[i].pos - 1) * PerPacket + PerPacket
              BY <6>2
            <6>4. (queue[i].pos - 1) * PerPacket < n /\ n <= queue[i].pos * PerPacket
              BY <4>5, <6>2, <6>3 DEF HasFrame, FirstOf
            <6>5. QED
              BY <6>1, <6>4 DEF FrameLost
          <5>3. QED
            BY <5>1, <5>2
        <4>6. QED
          BY <4>1, <4>2, <4>3, <4>4, <4>5 DEF Held
      <3>2. CASE ~(n < FirstOf(Coming))
        <4>1. HasFrame(p, n)
          BY <2>3, <2>6, <2>12, <3>2 DEF HasFrame
        <4>2. m + 1 \in 1 .. Len(queue')
          BY <2>4
        <4>3. QED
          BY <1>1, <2>2, <2>4, <4>1, <4>2 DEF Held, IsStale, HasFrame, FirstOf
      <3>3. QED
        BY <3>1, <3>2
    <2>13. Previous' = Previous
      BY <1>1 DEF Previous, Greatest
    <2>14. NoneMissing'
      BY <2>3, <2>12, <2>13 DEF NoneMissing, FirstOf
    <2>15. QED
      BY <2>10, <2>11, <2>14 DEF Chained
  <1>5. QED
    BY <1>3, <1>4

\* A frame that leaves the codec is behind the last that was written and in front of the others
LEMMA ReceivedKeepsChain ==
  ASSUME TypeInv, Chained, ReceivesFrame
  PROVE  Chained'
  <1>0. ChainTyping
    BY ChainTypes
  <1>1. /\ UNCHANGED <<at, inFlight, queue, sent, start, from, serial, lost>>
        /\ frame = NoFrame /\ loop # "written" /\ loop' # "written"
    BY DEF ReceivesFrame, TypeInv, LoopInv
  <1>2. codec # <<>>
    BY EmptySeq DEF ReceivesFrame, MayGive, TypeInv, PlacesInv
  <1>3. /\ codec[1] \in Frame /\ Head(codec) = codec[1]
        /\ Len(codec') = Len(codec) - 1
        /\ \A i \in 1 .. Len(codec') : codec'[i] = codec[i + 1]
    BY <1>0, <1>2, HeadTailProperties DEF ReceivesFrame, ChainTyping
  <1>4. Len(codec) \in Nat /\ Len(codec) > 0 /\ 1 \in 1 .. Len(codec)
    BY <1>0, <1>2, EmptySeq DEF ChainTyping
  <1>5. /\ frame'.n = codec[1].n /\ frame'.of = codec[1].of /\ frame'.pos = codec[1].pos
        /\ frame' # NoFrame
    <2>1. frame' = [codec[1] EXCEPT !.serial = newest]
      BY <1>3 DEF ReceivesFrame
    <2>2. frame' \in Frame
      BY <1>3, <2>1 DEF Frame, TypeInv, PlacesInv
    <2>3. QED
      BY <1>3, <2>1, <2>2, Kinds DEF Frame
  <1>6. \A i \in 1 .. Len(codec') : i + 1 \in 1 .. Len(codec) /\ i + 1 \in 1 + 1 .. Len(codec)
    BY <1>3, <1>4
  <1>7. Coming' = Coming /\ \A n : InFrontOfQueue(n)' <=> InFrontOfQueue(n)
    BY <1>1 DEF Coming, InFrontOfQueue, IsStale, FirstOf
  <1>8. ASSUME NEW n, InFrontOfCodec(n) PROVE InFrontOfCodec(n)'
    BY <1>1, <1>3, <1>6, <1>7, <1>8 DEF InFrontOfCodec, IsStale
  <1>9. NoneStale => NoneStale' /\ Current(frame)'
    BY <1>1, <1>3, <1>4, <1>5, <1>6 DEF NoneStale, IsStale, Current
  <1>10. QueueOrder'
    BY <1>1, <1>3, <1>6, <1>7 DEF Chained, QueueOrder, IsStale
  <1>11. CodecOrder'
    <2>1. ASSUME NEW i \in 1 .. Len(codec'), codec'[i].of = serial
          PROVE  /\ from <= codec'[i].pos /\ InFrontOfQueue(codec'[i].n)
                 /\ \A j \in i + 1 .. Len(codec') :
                      codec'[j].of = serial /\ codec'[i].n < codec'[j].n
      <3>1. ~IsStale(codec[i + 1]) /\ codec'[i] = codec[i + 1] /\ i + 1 \in 1 .. Len(codec)
        BY <1>3, <1>6, <2>1 DEF IsStale
      <3>2. /\ from <= codec[i + 1].pos /\ InFrontOfQueue(codec[i + 1].n)
            /\ \A j \in i + 1 + 1 .. Len(codec) :
                 ~IsStale(codec[j]) /\ codec[i + 1].n < codec[j].n
        BY <3>1 DEF Chained, CodecOrder
      <3>3. \A j \in i + 1 .. Len(codec') : j + 1 \in i + 1 + 1 .. Len(codec) /\ j \in 1 .. Len(codec')
        BY <1>3, <1>4
      <3>4. QED
        BY <1>3, <3>1, <3>2, <3>3 DEF IsStale
    <2>2. QED
      BY <1>1, <1>7, <2>1 DEF CodecOrder, IsStale
  <1>12. FrameOrder'
    <2>0. PICK n \in Int : n = codec[1].n
      BY <1>0, <1>4 DEF ChainTyping
    <2>1. SUFFICES ASSUME codec[1].of = serial
                   PROVE  from <= codec[1].pos /\ NoneStale' /\ InFrontOfCodec(n)'
      BY <1>1, <1>5, <2>0 DEF FrameOrder, Current
    <2>2. /\ from <= codec[1].pos /\ InFrontOfQueue(codec[1].n)
          /\ \A j \in 1 + 1 .. Len(codec) : ~IsStale(codec[j]) /\ codec[1].n < codec[j].n
      BY <1>4, <2>1 DEF Chained, CodecOrder, IsStale
    <2>3. QED
      BY <1>1, <1>3, <1>6, <1>7, <2>0, <2>2 DEF NoneStale, InFrontOfCodec, IsStale
  <1>13. SentOrder'
    <2>1. SUFFICES ASSUME Current(sent)
                   PROVE  /\ FirstOf(start) <= sent.n /\ NoneStale' /\ InFrontOfCodec(sent.n)'
                          /\ Current(frame)' /\ sent.n < codec[1].n
      BY <1>1, <1>5 DEF SentOrder, Current
    <2>2. FirstOf(start) <= sent.n /\ NoneStale /\ InFrontOfCodec(sent.n)
      BY <2>1 DEF Chained, SentOrder
    <2>3. sent.n < codec[1].n
      BY <1>4, <2>2 DEF InFrontOfCodec, NoneStale
    <2>4. PICK n \in Int : n = sent.n
      BY <1>0 DEF ChainTyping
    <2>5. InFrontOfCodec(n) /\ sent'.n = n
      BY <1>1, <2>2, <2>4
    <2>6. InFrontOfCodec(n)'
      BY <1>8, <2>5
    <2>7. InFrontOfCodec(sent.n)'
      BY <2>5, <2>6
    <2>8. QED
      BY <1>9, <2>2, <2>3, <2>7
  <1>14. NoneMissing'
    <2>1. Previous' = Previous /\ \A n : FrameLost(n)' <=> FrameLost(n)
      BY <1>1 DEF Previous, FrameLost, Greatest
    <2>2. ASSUME NEW n \in Int, Held(n) PROVE Held(n)'
      <3>1. ~Current(frame)
        BY <1>1 DEF Current
      <3>2. CASE \E i \in 1 .. Len(codec) : ~IsStale(codec[i]) /\ codec[i].n = n
        <4>1. PICK i \in 1 .. Len(codec) : ~IsStale(codec[i]) /\ codec[i].n = n
          BY <3>2
        <4>2. CASE i = 1
          BY <1>1, <1>5, <4>1, <4>2 DEF Held, Current, IsStale
        <4>3. CASE i # 1
          <5>1. i - 1 \in 1 .. Len(codec') /\ (i - 1) + 1 = i
            BY <1>3, <1>4, <4>3
          <5>2. codec'[i - 1] = codec[i]
            BY <1>3, <5>1
          <5>3. QED
            BY <1>1, <4>1, <5>1, <5>2 DEF Held, IsStale
        <4>4. QED
          BY <4>2, <4>3
      <3>3. CASE \E i \in 1 .. Len(queue) : ~IsStale(queue[i]) /\ HasFrame(queue[i], n)
        BY <1>1, <3>3 DEF Held, IsStale, HasFrame, FirstOf
      <3>4. QED
        BY <2>2, <3>1, <3>2, <3>3 DEF Held
    <2>3. QED
      BY <1>7, <2>1, <2>2 DEF Chained, NoneMissing, FirstOf
  <1>15. QED
    BY <1>10, <1>11, <1>12, <1>13, <1>14 DEF Chained

\* A frame that is dropped is from before the start
LEMMA FrameKeepsChain ==
  ASSUME TypeInv, Chained, OnFrame \/ Writes \/ Written
  PROVE  Chained'
  <1>0. ChainTyping
    BY ChainTypes
  <1>1. /\ UNCHANGED <<at, inFlight, queue, codec, start, from, serial, lost>>
        /\ frame \in Frame /\ frame # NoFrame
    BY DEF OnFrame, Writes, Written, TypeInv, LoopInv, PlacesInv
  <1>2. frame.pos \in Int /\ frame.n \in Int /\ FirstOf(frame.pos) <= frame.n
        /\ frame.n < FirstOf(frame.pos) + PerPacket /\ PerPacket \in Int
    BY <1>1, Sizes DEF Frame
  <1>3. /\ Coming' = Coming /\ (NoneStale' <=> NoneStale)
        /\ \A n : InFrontOfQueue(n)' <=> InFrontOfQueue(n)
        /\ \A n : InFrontOfCodec(n)' <=> InFrontOfCodec(n)
        /\ \A n : FrameLost(n)' <=> FrameLost(n)
    BY <1>1 DEF Coming, NoneStale, InFrontOfCodec, InFrontOfQueue, IsStale, FrameLost
  <1>4. QueueOrder' /\ CodecOrder'
    BY <1>1, <1>3 DEF Chained, QueueOrder, CodecOrder, IsStale
  <1>5. /\ Previous \in Int /\ FirstOf(start) <= Previous + 1
        /\ Current(sent) => Previous = sent.n
        /\ ~Current(sent) =>
             \A a \in Int : start <= a /\ from <= a => Previous < FirstOf(a)
    BY PreviousFacts DEF Chained
  <1>6. FirstOf(start) \in Int /\ FirstOf(frame.pos) \in Int
    BY <1>0, <1>2, FirstOfFacts DEF ChainTyping
  <1>7. \A n : Held(n) => Held(n)' \/ (Current(frame) /\ frame.n = n)
    BY <1>1 DEF Held, IsStale, HasFrame
  <1>8. CASE OnFrame /\ frame' = frame
    <2>1. sent' = sent /\ loop # "written"
      BY <1>8 DEF OnFrame
    <2>2. FrameOrder' /\ SentOrder' /\ Previous' = Previous /\ \A n : Held(n) => Held(n)'
      BY <1>1, <1>3, <1>8, <2>1
         DEF Chained, FrameOrder, SentOrder, Previous, Greatest, Current, Held, IsStale, HasFrame
    <2>3. QED
      BY <1>3, <1>4, <2>2 DEF Chained, NoneMissing
  <1>9. CASE OnFrame /\ frame' # frame
    <2>1. sent' = sent /\ loop # "written" /\ frame.pos < start /\ frame' = NoFrame
      BY <1>9 DEF OnFrame
    <2>2. FrameOrder' /\ SentOrder' /\ Previous' = Previous
      BY <1>1, <1>3, <2>1 DEF Chained, FrameOrder, SentOrder, Previous, Greatest, Current
    <2>3. FirstOf(frame.pos) + PerPacket <= FirstOf(start)
      BY <1>0, <1>2, <2>1, FirstOfFacts DEF ChainTyping
    <2>4. frame.n <= Previous
      BY <1>2, <1>5, <1>6, <2>3
    <2>5. \A n \in Int : Previous < n => frame.n # n
      BY <1>2, <1>5, <2>4
    <2>6. QED
      BY <1>3, <1>4, <1>7, <2>2, <2>5 DEF Chained, NoneMissing
  <1>10. CASE Writes
    <2>1. sent' = frame /\ frame' = frame /\ loop' = "written" /\ loop # "written" /\ start <= frame.pos
      BY <1>0, <1>2, <1>10 DEF Writes, TypeInv, LoopInv, ChainTyping
    <2>2. FirstOf(start) <= FirstOf(frame.pos)
      BY <1>0, <1>2, <2>1, FirstOfFacts DEF ChainTyping
    <2>3. FirstOf(start) <= frame.n
      BY <1>2, <1>6, <2>2
    <2>4. FrameOrder'
      BY <1>1, <1>3, <2>1 DEF Chained, FrameOrder, Current
    <2>5. SentOrder'
      BY <1>1, <1>3, <2>1, <2>3 DEF Chained, FrameOrder, SentOrder, Current
    <2>6. \A n : Held(n) => Held(n)'
      BY <1>1, <2>1 DEF Held, IsStale, HasFrame, Current
    <2>7. CASE Current(frame)
      <3>1. Previous' = frame.n
        BY <1>1, <2>1, <2>7 DEF Previous, Current
      <3>2. Previous < frame.n
        <4>1. CASE Current(sent)
          BY <1>1, <1>5, <2>1, <4>1 DEF Chained, SentOrder
        <4>2. CASE ~Current(sent)
          <5>1. from <= frame.pos
            BY <2>7 DEF Chained, FrameOrder
          <5>2. Previous < FirstOf(frame.pos)
            BY <1>2, <1>5, <2>1, <4>2, <5>1
          <5>3. QED
            BY <1>2, <1>5, <1>6, <5>2
        <4>3. QED
          BY <4>1, <4>2
      <3>3. \A n \in Int : frame.n < n => Previous < n
        BY <1>2, <1>5, <3>2
      <3>4. QED
        BY <1>3, <1>4, <2>4, <2>5, <2>6, <3>1, <3>3 DEF Chained, NoneMissing
    <2>8. CASE ~Current(frame)
      <3>1. ~Current(sent)
        BY <1>1, <2>8 DEF Chained, SentOrder
      <3>2. Previous' = Previous
        BY <1>1, <2>1, <2>8, <3>1 DEF Previous, Greatest, Current
      <3>3. QED
        BY <1>3, <1>4, <2>4, <2>5, <2>6, <3>2 DEF Chained, NoneMissing
    <2>9. QED
      BY <2>7, <2>8
  <1>11. CASE Written
    <2>1. sent' = sent /\ sent = frame /\ frame' = NoFrame /\ loop' = "posted"
      BY <1>11 DEF Written, TypeInv, LoopInv
    <2>2. FrameOrder' /\ SentOrder' /\ Previous' = Previous
      BY <1>1, <1>3, <2>1 DEF Chained, FrameOrder, SentOrder, Previous, Greatest, Current
    <2>3. \A n \in Int : Previous < n => ~(Current(frame) /\ frame.n = n)
      BY <1>2, <1>5, <2>1
    <2>4. QED
      BY <1>3, <1>4, <1>7, <2>2, <2>3 DEF Chained, NoneMissing
  <1>12. QED
    BY <1>8, <1>9, <1>10, <1>11

\* What touches no part of the chain
LEMMA OthersKeepChain ==
  ASSUME Chained,
         \/ ProcessInternal \/ ReceivesEnd \/ PlayOrPause \/ Device \/ ReaderChecks
         \/ UNCHANGED vars
  PROVE  Chained'
  <1>1. /\ UNCHANGED <<at, inFlight, queue, codec, frame, sent, start, from, serial, lost>>
        /\ loop = "written" <=> loop' = "written"
    BY DEF ProcessInternal, ReceivesEnd, PlayOrPause, Device, LooksAtFlags, ReadsRing, ReaderChecks,
       vars
  <1>2. QED
    BY <1>1 DEF Chained, QueueOrder, CodecOrder, FrameOrder, SentOrder, NoneMissing, NoneStale,
       InFrontOfCodec, InFrontOfQueue, Held, HasFrame, Coming, IsStale, Current, Previous, Greatest,
       FrameLost

\* Flushed goes only what is stale, and what is passed over is that or ends before the target
LEMMA PassedChain ==
  ASSUME TypeInv, Agreed, Chained, NEW k \in 0 .. Len(queue),
         \A i \in 1 .. k : Ends(queue[i]) \/ IsStale(queue[i])
  PROVE  /\ Flushed(k) \in Seq(Frame) /\ Len(Flushed(k)) \in Nat
         /\ Flushed(k) = codec \/ (Flushed(k) = <<>> /\ \A j \in 1 .. Len(codec) : IsStale(codec[j]))
         /\ \A i \in 1 .. k : \A n \in Int :
              ~IsStale(queue[i]) /\ HasFrame(queue[i], n) => n <= Previous
  <1>0. ChainTyping
    BY ChainTypes
  <1>1. Flushed(k) = codec \/ (Flushed(k) = <<>> /\ \A j \in 1 .. Len(codec) : IsStale(codec[j]))
    <2>1. CASE \E i \in 1 .. k : IsStale(queue[i]) /\ ~Ends(queue[i])
      <3>1. PICK i \in 1 .. k : IsStale(queue[i])
        BY <2>1
      <3>2. i \in 1 .. Len(queue)
        BY <1>0 DEF ChainTyping
      <3>3. QED
        BY <2>1, <3>1, <3>2 DEF Flushed, Chained, QueueOrder
    <2>2. CASE ~(\E i \in 1 .. k : IsStale(queue[i]) /\ ~Ends(queue[i]))
      BY <2>2 DEF Flushed
    <2>3. QED
      BY <2>1, <2>2
  <1>2. Flushed(k) \in Seq(Frame) /\ Len(Flushed(k)) \in Nat
    <2>1. codec \in Seq(Frame) /\ <<>> \in Seq(Frame)
      BY <1>0, EmptySeq DEF ChainTyping
    <2>2. Flushed(k) \in Seq(Frame)
      BY <1>1, <2>1, Zenon
    <2>3. QED
      BY <2>2, LenProperties
  <1>3. ASSUME NEW i \in 1 .. k, NEW n \in Int, ~IsStale(queue[i]), HasFrame(queue[i], n)
        PROVE  n <= Previous
    <2>1. Ends(queue[i]) /\ queue[i].pos \in Int
      BY <1>0, <1>3 DEF ChainTyping
    <2>2. target = start /\ start \in Int
      BY <1>0 DEF Agreed, TypeInv, StampInv, ChainTyping
    <2>3. queue[i].pos < start
      BY <2>1, <2>2 DEF Ends
    <2>4. FirstOf(queue[i].pos) + PerPacket <= FirstOf(start) /\ FirstOf(queue[i].pos) \in Int
      BY <2>1, <2>2, <2>3, FirstOfFacts
    <2>5. n < FirstOf(queue[i].pos) + PerPacket
      BY <1>3 DEF HasFrame
    <2>6. FirstOf(start) <= Previous + 1 /\ Previous \in Int /\ FirstOf(start) \in Int
      BY <1>0, PreviousFacts DEF Chained, ChainTyping
    <2>7. QED
      BY <2>4, <2>5, <2>6, Sizes
  <1>4. QED
    BY <1>1, <1>2, <1>3

\* The packet that goes to the codec is behind what the codec holds
LEMMA AsksKeepsChain ==
  ASSUME TypeInv, Agreed, Chained, AsksForPacket, loop' # "failed"
  PROVE  Chained'
  <1>0. ChainTyping
    BY ChainTypes
  <1>1. PICK k \in 0 .. Len(queue) :
          /\ \A i \in 1 .. k : Ends(queue[i]) \/ IsStale(queue[i])
          /\ Takes(k) \/ FindsNone(k)
    BY <1>0, AsksCases DEF ChainTyping
  <1> DEFINE fl == Flushed(k)
  <1>2. /\ UNCHANGED <<at, inFlight, frame, sent, start, from, serial, lost>>
        /\ frame = NoFrame /\ loop # "written" /\ loop' # "written"
    BY DEF AsksForPacket, TypeInv, LoopInv
  <1>3. /\ fl \in Seq(Frame) /\ Len(fl) \in Nat
        /\ fl = codec \/ (fl = <<>> /\ \A j \in 1 .. Len(codec) : IsStale(codec[j]))
        /\ \A i \in 1 .. k : \A n \in Int :
             ~IsStale(queue[i]) /\ HasFrame(queue[i], n) => n <= Previous
    BY <1>1, PassedChain
  <1>4. \A i \in 1 .. Len(fl) : i \in 1 .. Len(codec) /\ fl[i] = codec[i] /\ fl = codec
    BY <1>3, EmptySeq
  <1>5. Previous \in Int
    BY PreviousFacts DEF Chained
  <1>6. /\ Coming' = Coming /\ Previous' = Previous /\ ~Current(frame)
        /\ (Current(sent)' <=> Current(sent))
        /\ \A n : FrameLost(n)' <=> FrameLost(n)
    BY <1>2 DEF Coming, Previous, Greatest, Current, FrameLost
  <1> HIDE DEF fl
  <1>7. CASE Takes(k)
    <2> DEFINE p == queue[k + 1]
               q == SubSeq(queue, k + 2, Len(queue))
    <2>1. /\ k < Len(queue) /\ ~IsStale(p) /\ queue' = q /\ codec' = fl \o FramesOf(p)
      BY <1>7 DEF Takes, fl
    <2>2. k \in Nat /\ k + 1 \in 1 .. Len(queue) /\ Len(queue) \in Nat
      BY <1>0, <2>1 DEF ChainTyping
    <2>3. p \in Packet /\ p.pos \in Int /\ p.of = serial
      BY <1>0, <2>1, <2>2 DEF ChainTyping, IsStale
    <2>4. /\ Len(queue') = Len(queue) - k - 1
          /\ \A i \in 1 .. Len(queue') : queue'[i] = queue[k + 1 + i] /\ k + 1 + i \in 1 .. Len(queue)
      BY <1>0, <2>1, <2>2, BehindFacts DEF ChainTyping
    <2>5. /\ from <= p.pos /\ p.pos < Coming
          /\ \A j \in k + 1 + 1 .. Len(queue) : p.pos < queue[j].pos
      BY <2>1, <2>2 DEF Chained, QueueOrder
    <2> HIDE DEF p, q
    <2>6. \A i \in 1 .. Len(queue') :
            /\ k + 1 + i \in 1 .. Len(queue) /\ k + 1 + i \in k + 1 + 1 .. Len(queue) /\ k + 1 + i # 1
            /\ queue'[i] = queue[k + 1 + i]
      BY <2>2, <2>4
    <2>7. \A i \in 1 .. Len(queue') : ~IsStale(queue'[i]) /\ p.pos < queue'[i].pos
      BY <2>5, <2>6 DEF Chained, QueueOrder
    <2>8. QueueOrder'
      <3>1. ASSUME NEW i \in 1 .. Len(queue')
            PROVE  /\ from <= queue'[i].pos /\ queue'[i].pos < Coming
                   /\ \A j \in i + 1 .. Len(queue') : queue'[i].pos < queue'[j].pos
        <4>1. ~IsStale(queue[k + 1 + i])
          BY <2>6, <2>7
        <4>2. /\ from <= queue[k + 1 + i].pos /\ queue[k + 1 + i].pos < Coming
              /\ \A j \in k + 1 + i + 1 .. Len(queue) : queue[k + 1 + i].pos < queue[j].pos
          BY <2>6, <4>1 DEF Chained, QueueOrder
        <4>3. \A j \in i + 1 .. Len(queue') :
                j \in 1 .. Len(queue') /\ k + 1 + j \in k + 1 + i + 1 .. Len(queue)
          BY <2>2, <2>4
        <4>4. QED
          BY <2>6, <4>2, <4>3
      <3>2. \A i \in 1 .. Len(queue') : queue'[i].of = serial'
        BY <1>2, <2>7 DEF IsStale
      <3>3. from <= Coming
        BY DEF Chained, QueueOrder
      <3>4. QED
        BY <1>2, <1>6, <3>1, <3>2, <3>3 DEF QueueOrder, IsStale
    <2>9. /\ FramesOf(p) \in Seq(Frame) /\ Len(FramesOf(p)) = PerPacket
          /\ \A i \in 1 .. PerPacket :
               /\ FramesOf(p)[i].n = FirstOf(p.pos) + i - 1
               /\ FramesOf(p)[i].pos = p.pos /\ FramesOf(p)[i].of = serial
      BY <2>3, FramesOfFacts
    <2>10. /\ Len(codec') = Len(fl) + PerPacket
           /\ \A i \in 1 .. Len(fl) + PerPacket :
                codec'[i] = IF i <= Len(fl) THEN fl[i] ELSE FramesOf(p)[i - Len(fl)]
      <3> DEFINE g == FramesOf(p)
                 c == fl \o g
      <3>1. codec' = c /\ g \in Seq(Frame) /\ Len(g) = PerPacket
        BY <2>1, <2>9
      <3> HIDE DEF g
      <3>2. fl \in Seq(Frame)
        BY <1>3
      <3>3. /\ c \in Seq(Frame) /\ Len(c) = Len(fl) + Len(g)
            /\ \A i \in 1 .. Len(fl) + Len(g) : c[i] = IF i <= Len(fl) THEN fl[i] ELSE g[i - Len(fl)]
        BY <3>1, <3>2, ConcatProperties
      <3> HIDE DEF c
      <3>4. /\ Len(codec') = Len(fl) + PerPacket
            /\ \A i \in 1 .. Len(fl) + PerPacket :
                 codec'[i] = IF i <= Len(fl) THEN fl[i] ELSE g[i - Len(fl)]
        BY <3>1, <3>3, Zenon
      <3>5. QED
        BY <3>4, Zenon DEF g
    <2>11. \A i \in 1 .. Len(codec') :
             \/ i \in 1 .. Len(fl) /\ codec'[i] = codec[i] /\ i \in 1 .. Len(codec)
             \/ /\ i > Len(fl) /\ codec'[i].n = FirstOf(p.pos) + (i - Len(fl)) - 1
                /\ i - Len(fl) \in 1 .. PerPacket
                /\ codec'[i].pos = p.pos /\ codec'[i].of = serial
      <3>1. SUFFICES ASSUME NEW i \in 1 .. Len(codec')
                     PROVE  \/ i \in 1 .. Len(fl) /\ codec'[i] = codec[i] /\ i \in 1 .. Len(codec)
                            \/ /\ i > Len(fl) /\ codec'[i].n = FirstOf(p.pos) + (i - Len(fl)) - 1
                               /\ i - Len(fl) \in 1 .. PerPacket
                               /\ codec'[i].pos = p.pos /\ codec'[i].of = serial
        OBVIOUS
      <3>2. PerPacket \in Nat /\ Len(fl) \in Nat /\ i \in 1 .. Len(fl) + PerPacket
        BY <1>3, <2>10, Sizes
      <3>3. CASE i <= Len(fl)
        BY <1>4, <2>10, <3>2, <3>3
      <3>4. CASE ~(i <= Len(fl))
        <4>1. codec'[i] = FramesOf(p)[i - Len(fl)] /\ i - Len(fl) \in 1 .. PerPacket /\ i > Len(fl)
          BY <2>10, <3>2, <3>4
        <4>2. QED
          BY <2>9, <4>1
      <3>5. QED
        BY <3>3, <3>4
    <2>12. /\ FirstOf(p.pos) \in Int /\ PerPacket \in Int
           /\ \A a \in Int : p.pos < a => FirstOf(p.pos) + PerPacket <= FirstOf(a) /\ FirstOf(a) \in Int
      <3>1. PerPacket \in Int
        BY Sizes
      <3>2. FirstOf(p.pos) \in Int
        BY <2>3, FirstOfFacts
      <3>3. ASSUME NEW a \in Int, p.pos < a
            PROVE  FirstOf(p.pos) + PerPacket <= FirstOf(a) /\ FirstOf(a) \in Int
        BY <2>3, <3>3, FirstOfFacts
      <3>4. QED
        BY <3>1, <3>2, <3>3
    <2>13. ASSUME NEW n \in Int, n < FirstOf(p.pos) + PerPacket PROVE InFrontOfQueue(n)'
      <3>1. n < FirstOf(Coming)
        BY <1>0, <2>5, <2>12, <2>13 DEF ChainTyping
      <3>2. ASSUME NEW i \in 1 .. Len(queue') PROVE n < FirstOf(queue'[i].pos)
        <4>1. p.pos < queue'[i].pos /\ queue'[i].pos \in Int
          BY <1>0, <2>6, <2>7 DEF ChainTyping
        <4>2. QED
          BY <2>12, <2>13, <4>1
      <3>3. QED
        BY <1>6, <3>1, <3>2 DEF InFrontOfQueue
    <2>14. \A n \in Int : InFrontOfQueue(n) => n < FirstOf(p.pos)
      BY <2>1, <2>2 DEF InFrontOfQueue, p
    <2>15. \A n \in Int : InFrontOfQueue(n) => InFrontOfQueue(n)'
      <3>1. \A n \in Int : n < FirstOf(p.pos) => n < FirstOf(p.pos) + PerPacket
        BY <2>12, Sizes
      <3>2. QED
        BY <2>13, <2>14, <3>1
    <2>16. CodecOrder'
      <3>1. ASSUME NEW i \in 1 .. Len(codec'), codec'[i].of = serial
            PROVE  /\ from <= codec'[i].pos /\ InFrontOfQueue(codec[i].n)'
                   /\ \A j \in i + 1 .. Len(codec') :
                        codec'[j].of = serial /\ codec'[i].n < codec'[j].n
        <4>0. i \in Int /\ Len(fl) \in Nat /\ Len(codec') \in Nat /\ PerPacket \in Nat
          BY <1>3, <2>10, Sizes
        <4>1. CASE i \in 1 .. Len(fl) /\ codec'[i] = codec[i] /\ i \in 1 .. Len(codec)
          <5>1. /\ from <= codec[i].pos /\ InFrontOfQueue(codec[i].n) /\ codec[i].n \in Int
                /\ \A j \in i + 1 .. Len(codec) : ~IsStale(codec[j]) /\ codec[i].n < codec[j].n
            BY <1>0, <3>1, <4>1 DEF Chained, CodecOrder, IsStale, ChainTyping
          <5>2. codec[i].n < FirstOf(p.pos)
            BY <2>14, <5>1
          <5>3. ASSUME NEW j \in i + 1 .. Len(codec')
                PROVE  codec'[j].of = serial /\ codec[i].n < codec'[j].n
            <6>1. j \in 1 .. Len(codec') /\ j \in Int
              BY <4>0
            <6>2. CASE codec'[j] = codec[j] /\ j \in 1 .. Len(codec)
              <7>1. j \in i + 1 .. Len(codec)
                BY <6>2
              <7>2. QED
                BY <5>1, <6>2, <7>1 DEF IsStale
            <6>3. CASE /\ codec'[j].n = FirstOf(p.pos) + (j - Len(fl)) - 1
                       /\ j - Len(fl) \in 1 .. PerPacket /\ codec'[j].of = serial
              BY <2>12, <4>0, <5>1, <5>2, <6>1, <6>3
            <6>4. QED
              BY <2>11, <6>1, <6>2, <6>3
          <5>4. InFrontOfQueue(codec[i].n)'
            BY <2>15, <4>1, <5>1
          <5>5. QED
            BY <4>1, <5>1, <5>3, <5>4
        <4>2. CASE /\ i > Len(fl) /\ codec'[i].n = FirstOf(p.pos) + (i - Len(fl)) - 1
                   /\ i - Len(fl) \in 1 .. PerPacket
                   /\ codec'[i].pos = p.pos /\ codec'[i].of = serial
          <5>1. codec'[i].n \in Int /\ codec'[i].n < FirstOf(p.pos) + PerPacket
            BY <2>12, <4>0, <4>2
          <5>2. InFrontOfQueue(codec[i].n)'
            BY <2>13, <5>1
          <5>3. ASSUME NEW j \in i + 1 .. Len(codec')
                PROVE  codec'[j].of = serial /\ codec'[i].n < codec'[j].n
            <6>1. j \in 1 .. Len(codec') /\ j \in Int /\ ~(j \in 1 .. Len(fl)) /\ i < j
              BY <4>0, <4>2
            <6>2. codec'[j].n = FirstOf(p.pos) + (j - Len(fl)) - 1 /\ codec'[j].of = serial
              BY <2>11, <6>1
            <6>3. QED
              BY <2>12, <4>0, <4>2, <6>1, <6>2
          <5>4. QED
            BY <2>5, <4>2, <5>2, <5>3
        <4>3. QED
          BY <2>11, <4>1, <4>2
      <3>2. QED
        BY <1>2, <3>1 DEF CodecOrder, IsStale
    <2>17. FrameOrder' /\ SentOrder'
      <3>1. ~Current(frame)'
        BY <1>2, <1>6 DEF Current
      <3>2. SUFFICES ASSUME Current(sent)
                     PROVE  NoneStale' /\ InFrontOfCodec(sent.n)' /\ FirstOf(start) <= sent.n
        BY <1>2, <1>6, <3>1 DEF FrameOrder, SentOrder
      <3>3. FirstOf(start) <= sent.n /\ NoneStale /\ InFrontOfCodec(sent.n) /\ sent.n \in Int
        BY <1>0, <3>2 DEF Chained, SentOrder, ChainTyping
      <3>4. ASSUME NEW i \in 1 .. Len(codec')
            PROVE  codec'[i].of = serial /\ sent.n < codec'[i].n
        <4>1. CASE codec'[i] = codec[i] /\ i \in 1 .. Len(codec)
          BY <3>3, <4>1 DEF NoneStale, InFrontOfCodec, IsStale
        <4>2. CASE /\ codec'[i].n = FirstOf(p.pos) + (i - Len(fl)) - 1
                   /\ i - Len(fl) \in 1 .. PerPacket /\ codec'[i].of = serial
          <5>1. sent.n < FirstOf(p.pos)
            BY <2>14, <3>3 DEF InFrontOfCodec
          <5>2. QED
            BY <2>12, <3>3, <4>2, <5>1
        <4>3. QED
          BY <2>11, <4>1, <4>2
      <3>5. InFrontOfQueue(sent.n)'
        BY <1>2, <2>15, <3>3 DEF InFrontOfCodec
      <3>6. QED
        BY <1>2, <3>3, <3>4, <3>5 DEF NoneStale, InFrontOfCodec, IsStale
    <2>18. ASSUME NEW n \in Int, Previous < n, Held(n) PROVE Held(n)'
      <3>1. CASE \E i \in 1 .. Len(codec) : ~IsStale(codec[i]) /\ codec[i].n = n
        <4>1. PICK i \in 1 .. Len(codec) : ~IsStale(codec[i]) /\ codec[i].n = n
          BY <3>1
        <4>2. fl = codec
          BY <1>3, <4>1
        <4>3. i \in 1 .. Len(fl) + PerPacket /\ i <= Len(fl)
          BY <1>0, <4>2, Sizes DEF ChainTyping
        <4>4. i \in 1 .. Len(codec') /\ codec'[i] = codec[i]
          BY <2>10, <4>2, <4>3
        <4>5. QED
          BY <1>2, <4>1, <4>4 DEF Held, IsStale
      <3>2. ASSUME NEW i \in 1 .. Len(queue), ~IsStale(queue[i]), HasFrame(queue[i], n)
            PROVE  Held(n)'
        <4>1. ~(i \in 1 .. k)
          BY <1>3, <1>5, <2>18, <3>2
        <4>2. CASE i = k + 1
          <5>1. FirstOf(p.pos) <= n /\ n < FirstOf(p.pos) + PerPacket
            BY <3>2, <4>2 DEF HasFrame, p
          <5>2. PICK y \in Int : y = Len(fl) + (n - FirstOf(p.pos) + 1)
            BY <1>3, <2>12
          <5>3. /\ y \in 1 .. Len(fl) + PerPacket /\ ~(y \in 1 .. Len(fl))
                /\ FirstOf(p.pos) + (y - Len(fl)) - 1 = n
            BY <1>3, <2>12, <5>1, <5>2
          <5>4. y \in 1 .. Len(codec')
            BY <2>10, <5>3
          <5>5. codec'[y].n = n /\ codec'[y].of = serial
            BY <2>11, <5>3, <5>4
          <5>6. QED
            BY <1>2, <5>4, <5>5 DEF Held, IsStale
        <4>3. CASE i # k + 1
          <5>0. Len(queue') = Len(queue) - k - 1
            BY <2>4
          <5>1. i - k - 1 \in 1 .. Len(queue') /\ k + 1 + (i - k - 1) = i
            BY <2>2, <4>1, <4>3, <5>0
          <5>2. queue'[i - k - 1] = queue[i]
            BY <2>4, <5>1
          <5>3. QED
            BY <1>2, <3>2, <5>1, <5>2 DEF Held, IsStale, HasFrame
        <4>4. QED
          BY <4>2, <4>3
      <3>3. QED
        BY <1>6, <2>18, <3>1, <3>2 DEF Held
    <2>19. NoneMissing'
      BY <1>6, <2>18 DEF Chained, NoneMissing
    <2>20. QED
      BY <2>8, <2>16, <2>17, <2>19 DEF Chained
  <1>8. CASE FindsNone(k)
    <2>1. k = Len(queue) /\ queue' = <<>> /\ Len(queue') = 0 /\ codec' = fl
      BY <1>8, EmptySeq DEF FindsNone, fl
    <2>2. QueueOrder'
      BY <1>2, <1>6, <2>1 DEF Chained, QueueOrder
    <2>3. \A n : InFrontOfQueue(n) => InFrontOfQueue(n)'
      BY <1>6, <2>1 DEF InFrontOfQueue
    <2>4. CASE codec' = codec
      <3>1. \A n : InFrontOfCodec(n) => InFrontOfCodec(n)'
        BY <1>2, <2>3, <2>4 DEF InFrontOfCodec, IsStale
      <3>2. CodecOrder' /\ FrameOrder' /\ SentOrder'
        BY <1>2, <2>3, <2>4, <3>1
           DEF Chained, CodecOrder, FrameOrder, SentOrder, NoneStale, IsStale, Current
      <3>3. ASSUME NEW n \in Int, Previous < n, Held(n) PROVE Held(n)'
        <4>1. ~(\E i \in 1 .. Len(queue) : ~IsStale(queue[i]) /\ HasFrame(queue[i], n))
          BY <1>3, <1>5, <2>1, <3>3
        <4>2. QED
          BY <1>2, <1>6, <2>4, <3>3, <4>1 DEF Held, IsStale
      <3>4. NoneMissing'
        BY <1>6, <3>3 DEF Chained, NoneMissing
      <3>5. QED
        BY <2>2, <3>2, <3>4 DEF Chained
    <2>5. CASE codec' = <<>> /\ \A j \in 1 .. Len(codec) : IsStale(codec[j])
      <3>1. Len(codec') = 0
        BY <2>5, EmptySeq
      <3>2. CodecOrder' /\ FrameOrder' /\ SentOrder'
        <4>1. CodecOrder' /\ NoneStale' /\ ~Current(frame)'
          BY <1>2, <1>6, <3>1 DEF CodecOrder, NoneStale, Current
        <4>2. \A n : InFrontOfCodec(n) => InFrontOfCodec(n)'
          BY <2>3, <3>1 DEF InFrontOfCodec
        <4>3. QED
          BY <1>2, <1>6, <4>1, <4>2 DEF Chained, FrameOrder, SentOrder
      <3>3. ASSUME NEW n \in Int, Previous < n, Held(n) PROVE FALSE
        BY <1>3, <1>5, <1>6, <2>1, <2>5, <3>3 DEF Held
      <3>4. NoneMissing'
        BY <1>6, <3>3 DEF Chained, NoneMissing
      <3>5. QED
        BY <2>2, <3>2, <3>4 DEF Chained
    <2>6. QED
      BY <1>3, <2>1, <2>4, <2>5
  <1>9. QED
    BY <1>1, <1>7, <1>8

\* The file goes on at a new place, and what is left of the old one is known by its serial
LEMMA SeekStartsChain ==
  ASSUME TypeInv, StaleInv, ReaderSeeks, stamp' = serial
  PROVE  Chained'
  <1>0. ChainTyping
    BY ChainTypes
  <1>1. /\ UNCHANGED <<inFlight, queue, codec, frame, sent, start, serial>>
        /\ inFlight = NoPacket /\ from' = at' /\ stamp < serial
        /\ stamp \in Nat /\ serial \in Nat
    BY DEF ReaderSeeks, TypeInv, StampInv
  <1>2. ~IsPacket(inFlight) /\ Coming' = at'
    BY <1>1, Kinds DEF IsPacket, Coming
  <1>3. at' \in Int
    BY <1>0, Sizes DEF ReaderSeeks, ChainTyping, TypeInv, StampInv
  <1>4. Len(queue) <= 1
    BY <1>0, <1>1, <1>2 DEF StaleInv, ChainTyping
  <1>5. \A i \in 1 .. Len(queue) : queue[i].of # serial /\ i = 1
    <2>1. \A i \in 1 .. Len(queue) : queue[i].of \in Nat /\ queue[i].of <= stamp
      BY <1>0 DEF ChainTyping, TypeInv, PlacesInv, Packet
    <2>2. QED
      BY <1>0, <1>1, <1>4, <2>1 DEF ChainTyping
  <1>6. \A i \in 1 .. Len(codec) : codec[i].of # serial
    <2>1. \A i \in 1 .. Len(codec) : codec[i].of \in Nat /\ codec[i].of <= stamp
      BY <1>0 DEF ChainTyping, TypeInv, PlacesInv, Frame
    <2>2. QED
      BY <1>1, <2>1
  <1>7. ~Current(frame)' /\ ~Current(sent)'
    <2>1. \A f \in Frame \union {NoFrame} : f.of \in Nat
      BY DEF Frame, NoFrame
    <2>2. /\ frame \in Frame \union {NoFrame} /\ frame.of <= stamp
          /\ sent \in Frame \union {NoFrame} /\ sent.of <= stamp
      BY DEF TypeInv, PlacesInv
    <2>3. QED
      BY <1>1, <2>1, <2>2 DEF Current
  <1>8. QueueOrder' /\ CodecOrder' /\ FrameOrder' /\ SentOrder'
    BY <1>1, <1>2, <1>3, <1>5, <1>6, <1>7
       DEF QueueOrder, CodecOrder, FrameOrder, SentOrder, IsStale
  <1>9. NoneMissing'
    <2> DEFINE g == Greatest(start, from')
    <2>1. g \in Int /\ at' <= g
      BY <1>0, <1>1, <1>3 DEF Greatest, ChainTyping
    <2>2. Previous' = (g - 1) * PerPacket
      BY <1>1, <1>7 DEF Previous, Current, Greatest
    <2> HIDE DEF g
    <2>3. FirstOf(g) = Previous' + 1 /\ FirstOf(g) \in Int /\ Previous' \in Int
      <3>1. FirstOf(g) = Previous' + 1
        BY <2>2 DEF FirstOf
      <3>2. (g - 1) * PerPacket \in Int
        BY <2>1, Sizes
      <3>3. QED
        BY <2>1, <2>2, <3>1, <3>2, FirstOfFacts
    <2>4. FirstOf(at') <= FirstOf(g) /\ FirstOf(at') \in Int
      BY <1>3, <2>1, FirstOfFacts
    <2>5. \A n \in Int : ~(Previous' < n /\ n < FirstOf(at'))
      BY <2>3, <2>4
    <2>6. QED
      BY <1>2, <2>5 DEF NoneMissing
  <1>10. QED
    BY <1>8, <1>9 DEF Chained

\* The chain holds while the three agree on the position, and starts anew when they do again
LEMMA ChainStep == TypeInv /\ StaleInv /\ ChainInv /\ [Next]_vars => ChainInv'
  <1> SUFFICES ASSUME TypeInv, StaleInv, ChainInv, [Next]_vars, Agreed' PROVE Chained'
    BY DEF ChainInv
  <1>1. CASE ReaderSeeks
    <2>1. stamp' = serial
      BY <1>1 DEF ReaderSeeks, Agreed
    <2>2. QED
      BY <1>1, <2>1, SeekStartsChain
  <1>2. CASE DecoderSeeks
    BY <1>2 DEF DecoderSeeks, Agreed, TypeInv, StampInv
  <1>3. CASE \E to \in Targets : SeekInternal(to)
    BY <1>3 DEF SeekInternal, Agreed, TypeInv, StampInv
  <1>4. CASE ~ReaderSeeks /\ ~DecoderSeeks /\ ~(\E to \in Targets : SeekInternal(to))
    <2>1. /\ UNCHANGED <<seekId, serial, stamp>>
          /\ loop' # "failed" => loop # "failed"
      BY <1>4 DEF Next, Reader, Reads, HandsOver, ReaderChecks, PlayOrPause, Decoder, ProcessInternal,
         ReceivesFrame, ReceivesEnd, AsksForPacket, OnFrame, Writes, Written, Device, LooksAtFlags,
         ReadsRing, vars
    <2>2. Agreed /\ loop' # "failed" /\ Chained
      BY <2>1 DEF Agreed, ChainInv
    <2>3. CASE Reads
      BY <2>2, <2>3, ReadsKeepsChain
    <2>4. CASE HandsOver
      BY <2>2, <2>4, PushedKeepsChain
    <2>5. CASE ReceivesFrame
      BY <2>2, <2>5, ReceivedKeepsChain
    <2>6. CASE AsksForPacket
      BY <2>2, <2>6, AsksKeepsChain
    <2>7. CASE OnFrame \/ Writes \/ Written
      BY <2>2, <2>7, FrameKeepsChain
    <2>8. CASE ProcessInternal \/ ReceivesEnd \/ PlayOrPause \/ Device \/ ReaderChecks \/ UNCHANGED vars
      BY <2>2, <2>8, OthersKeepChain
    <2>9. QED
      BY <1>4, <2>3, <2>4, <2>5, <2>6, <2>7, <2>8 DEF Next, Reader, Decoder
  <1>5. QED
    BY <1>1, <1>2, <1>3, <1>4

-----------------------------------------------------------------------------
(* The theorems *)

\* The way of the sound, from the reader to the ring, keeps its invariant in any interleaving
\* of reader, loop, device and seeks.
THEOREM SpecPlaybackInv == Spec => []PlaybackInv
  <1>1. PlaybackInv /\ [Next]_vars => PlaybackInv'
    BY TypeStep, RoomStep, ClockStep, StaleStep, EndStep, ChainStep DEF PlaybackInv
  <1>2. QED
    BY <1>1, InitPlayback, PTL DEF Spec

\* The loop is only done behind the last frame of the file (ProcessInternal, AVERROR_EOF): the
\* codec keeps frames back, a frame may wait for room while the end is announced, and yet
\* nothing is behind.
THEOREM SpecCompletesWhenAllIsSent == Spec => []CompletesWhenAllIsSent
  <1>1. PlaybackInv => CompletesWhenAllIsSent
    BY DEF PlaybackInv, EndInv, CompletesWhenAllIsSent, IsLast
  <1>2. QED
    BY <1>1, SpecPlaybackInv, PTL

\* The clock is never set by sound from before the seek that it was told of, when the codec
\* keeps nothing back.
THEOREM SpecClockFollowsSeek == Spec => []ClockFollowsSeek
  <1>1. PlaybackInv => ClockFollowsSeek
    BY DEF PlaybackInv, ClockInv, ClockFollowsSeek
  <1>2. QED
    BY <1>1, SpecPlaybackInv, PTL

\* A write never meets a ring without room (WritePlanar), though room is found in an earlier
\* step and the device reads and seeks reset the ring in between.
THEOREM SpecNothingIsOverwritten == Spec => NothingIsOverwritten
  <1>1. ASSUME PlaybackInv, [Next]_vars
        PROVE  [loop = "writing" /\ loop' = "written" => level' = level + FrameSize]_vars
    <2>1. SUFFICES ASSUME loop = "writing", loop' = "written"
                   PROVE  level' = level + FrameSize
      OBVIOUS
    <2>2. Writes
      BY <1>1, <2>1 DEF Next, Reader, Reads, HandsOver, ReaderChecks, ReaderSeeks, SeekInternal, PlayOrPause,
         Decoder, DecoderSeeks, ProcessInternal, ReceivesFrame, ReceivesEnd, AsksForPacket, OnFrame,
         Written, Device, LooksAtFlags, ReadsRing, vars
    <2>3. level + FrameSize <= Capacity /\ level \in Nat
      BY <1>1, <2>1 DEF PlaybackInv, RoomInv
    <2>4. QED
      BY <2>2, <2>3, Sizes DEF Writes
  <1>2. QED
    BY <1>1, SpecPlaybackInv, PTL DEF Spec, NothingIsOverwritten

\* The frames of a position are written in their order, each once, from the first one that is
\* due, however many seeks, flushes and retries there were (GetPacket, OnFrame); left out are
\* those of the packets that the queue lost when it grew (ReSizeQueue), and no others.
THEOREM SpecFramesComeInOrder == Spec => FramesComeInOrder
  <1>1. ASSUME PlaybackInv, [Next]_vars
        PROVE  [sent' # sent /\ sent'.of = serial /\ serial = seekId =>
                  /\ Previous < sent'.n
                  /\ \A n \in Previous + 1 .. sent'.n - 1 : FrameLost(n)]_vars
    <2>1. SUFFICES ASSUME sent' # sent, sent'.of = serial, serial = seekId
                   PROVE  /\ Previous < sent'.n
                          /\ \A n \in Previous + 1 .. sent'.n - 1 : FrameLost(n)
      OBVIOUS
    <2>2. Writes
      BY <1>1, <2>1 DEF Next, Reader, Reads, HandsOver, ReaderChecks, ReaderSeeks, SeekInternal,
         PlayOrPause, Decoder, DecoderSeeks, ProcessInternal, ReceivesFrame, ReceivesEnd,
         AsksForPacket, OnFrame, Written, Device, LooksAtFlags, ReadsRing, vars
    <2> USE <1>1 DEF PlaybackInv
    <2>3. TypeInv /\ ChainTyping
      BY ChainTypes
    <2>4. /\ sent' = frame /\ loop = "writing" /\ frame # NoFrame /\ frame \in Frame
          /\ start <= frame.pos
      BY <2>2, <2>3 DEF Writes, TypeInv, LoopInv, PlacesInv, ChainTyping, Frame
    <2>5. Current(frame) /\ frame.n \in Int /\ frame.pos \in Int /\ FirstOf(frame.pos) <= frame.n
      BY <2>1, <2>4, Sizes DEF Current, Frame
    <2>6. stamp = serial
      BY <2>1, <2>3, <2>4 DEF TypeInv, StampInv, PlacesInv
    <2>7. Chained
      BY <2>1, <2>4, <2>6 DEF ChainInv, Agreed
    <2>8. /\ Previous \in Int /\ (Current(sent) => Previous = sent.n)
          /\ ~Current(sent) =>
               \A a \in Int : start <= a /\ from <= a => Previous < FirstOf(a)
      BY <2>3, <2>7, PreviousFacts DEF Chained
    <2>9. from <= frame.pos /\ InFrontOfCodec(frame.n)
      BY <2>5, <2>7 DEF Chained, FrameOrder
    <2>10. Previous < frame.n
      <3>1. CASE Current(sent)
        BY <2>4, <2>7, <2>8, <3>1 DEF Chained, SentOrder
      <3>2. CASE ~Current(sent)
        <4>1. Previous < FirstOf(frame.pos) /\ FirstOf(frame.pos) \in Int
          BY <2>4, <2>5, <2>8, <2>9, <3>2, FirstOfFacts
        <4>2. QED
          BY <2>5, <2>8, <4>1
      <3>3. QED
        BY <3>1, <3>2
    <2>11. ASSUME NEW n \in Int, Previous < n, n < frame.n PROVE FrameLost(n)
      <3>1. n < FirstOf(Coming)
        BY <2>3, <2>5, <2>9, <2>11 DEF InFrontOfCodec, InFrontOfQueue, ChainTyping
      <3>2. ~Held(n)
        <4>1. ~(\E i \in 1 .. Len(codec) : ~IsStale(codec[i]) /\ codec[i].n = n)
          BY <2>3, <2>5, <2>9, <2>11 DEF InFrontOfCodec, ChainTyping
        <4>2. ASSUME NEW i \in 1 .. Len(queue), ~IsStale(queue[i]), HasFrame(queue[i], n)
              PROVE  FALSE
          <5>1. frame.n < FirstOf(queue[i].pos) /\ FirstOf(queue[i].pos) <= n
            BY <2>9, <4>2 DEF InFrontOfCodec, InFrontOfQueue, HasFrame
          <5>2. FirstOf(queue[i].pos) \in Int
            BY <2>3, FirstOfFacts DEF ChainTyping
          <5>3. QED
            BY <2>5, <2>11, <5>1, <5>2
        <4>3. frame.n # n
          BY <2>5, <2>11
        <4>4. QED
          BY <4>1, <4>2, <4>3 DEF Held
      <3>3. QED
        BY <2>7, <2>11, <3>1, <3>2 DEF Chained, NoneMissing
    <2>12. \A n \in Previous + 1 .. frame.n - 1 : n \in Int /\ Previous < n /\ n < frame.n
      BY <2>5, <2>8
    <2>13. QED
      BY <2>4, <2>10, <2>11, <2>12
  <1>2. QED
    BY <1>1, SpecPlaybackInv, PTL DEF Spec, FramesComeInOrder
=================================================================================
