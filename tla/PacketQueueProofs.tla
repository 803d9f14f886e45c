--------------------------- MODULE PacketQueueProofs ---------------------------
(***************************************************************************)
(* Theorems about PacketQueue for every initial size and any number of     *)
(* packets: the indices stay consistent through wrap around, growth and    *)
(* Clear, and the ring implements the FIFO as long as it grows aligned.    *)
(***************************************************************************)
EXTENDS PacketQueue, SequenceTheorems, TLAPS

USE InitialSizeAssumption, MaxPushAssumption, NoPacketAssumption DEF None, NextWrite, SlotsAfterMove, ClearedSlots, ClearedWrite

-----------------------------------------------------------------------------
(* The window of the ring: pure arithmetic on read, write and size.         *)

\* What the window is, as far as the indices tell.
WindowFacts ==
  /\ Queued \in 0 .. size
  /\ read = None <=> Queued = 0
  /\ read # None => Slot(1) = read
  /\ read # None /\ write # None => Queued < size /\ Slot(Queued + 1) = write
  /\ \A k \in 1 .. Queued : Slot(k) \in 0 .. size - 1 /\ Slot(k) # write
  /\ \A k, j \in 1 .. Queued : Slot(j) = Slot(k) => j = k

\* The queue holds between one and size packets unless read_index_ is -1; the slots
\* of the window are distinct, and write_index_ is the slot right after them.
LEMMA Window == TypeOK => WindowFacts
<1>. SUFFICES ASSUME TypeOK PROVE WindowFacts
  OBVIOUS
<1>1. /\ size \in Nat \ {0}
      /\ read \in 0 .. size - 1 \union {-1}
      /\ write \in 0 .. size - 1 \union {-1}
      /\ read = -1 => write # -1
      /\ read # write
  BY DEF TypeOK
<1>2. /\ Queued \in 0 .. size
      /\ read = -1 <=> Queued = 0
      /\ read # -1 => Slot(1) = read
      /\ read # -1 /\ write # -1 => Queued < size /\ Slot(Queued + 1) = write
  BY <1>1 DEF Queued, Slot
<1>3. ASSUME NEW k \in 1 .. Queued
      PROVE  Slot(k) \in 0 .. size - 1 /\ Slot(k) # write
  BY <1>1 DEF Queued, Slot
<1>4. ASSUME NEW k \in 1 .. Queued, NEW j \in 1 .. Queued, Slot(j) = Slot(k)
      PROVE  j = k
  BY <1>1, <1>4 DEF Queued, Slot
<1>. QED
  BY <1>2, <1>3, <1>4 DEF WindowFacts

\* The initial state satisfies the invariant.
LEMMA InitIndexInv == Init => IndexInv
<1>. SUFFICES ASSUME Init PROVE IndexInv
  OBVIOUS
<1>1. TypeOK
  <2>1. /\ size \in Nat \ {0} /\ slots \in [0 .. size - 1 -> Packet \union {NoPacket}]
    BY DEF Init
  <2>2. read = -1 /\ write = 0 /\ last = -1 /\ 0 \in 0 .. size - 1
    BY DEF Init
  <2>4. eof \in BOOLEAN
    BY DEF Init
  <2>5. pushed \in 0 .. MaxPush
    BY DEF Init
  <2>3. answer \in [status : {"none", "kOk", "kEof", "kEAgain", "kError"},
                    packet : Packet \union {NoPacket}]
    BY DEF Init
  <2>. QED
    BY <2>1, <2>2, <2>3, <2>4, <2>5 DEF TypeOK
<1>2. QueuedPacketsAreValid
  BY DEF Init, QueuedPacketsAreValid, Queued
<1>3. LastIsNewest
  BY DEF Init, LastIsNewest
<1>. QED
  BY <1>1, <1>2, <1>3 DEF IndexInv

-----------------------------------------------------------------------------
(* PushPacket.                                                              *)

\* PushAt writes a free slot of the ring it is given and steps write_index_ on.
LEMMA PushAtTypeOK ==
  ASSUME TypeOK, pushed < MaxPush,
         NEW n \in Nat \ {0}, n >= size,
         NEW w \in 0 .. n - 1,
         NEW ring \in [0 .. n - 1 -> Packet \union {NoPacket}],
         w # read,
         PushAt(w, n, ring)
  PROVE  TypeOK'
<1>1. size' = n /\ last' = w /\ w # -1
  BY DEF PushAt
<1>2. slots' \in [0 .. n - 1 -> Packet \union {NoPacket}]
  BY DEF PushAt, TypeOK, Packet
<1>3. /\ read' \in 0 .. n - 1
      /\ write' \in 0 .. n - 1 \union {-1}
      /\ read' # write'
      /\ read' # -1
  BY DEF PushAt, TypeOK, Succ
<1>4. eof' \in BOOLEAN /\ UNCHANGED answer
  BY DEF PushAt, TypeOK
<1>5. pushed' \in 0 .. MaxPush
  BY DEF PushAt, TypeOK
<1>. QED
  BY <1>1, <1>2, <1>3, <1>4, <1>5 DEF TypeOK

LEMMA PushTypeOK == TypeOK /\ PushPacket => TypeOK'
<1>. SUFFICES ASSUME TypeOK, PushPacket PROVE TypeOK'
  OBVIOUS
<1>1. CASE write = -1
  <2>1. PushAt(size, 2 * size, Grown)
    BY <1>1 DEF PushPacket
  <2>2. Grown \in [0 .. 2 * size - 1 -> Packet \union {NoPacket}]
    BY DEF Grown, TypeOK
  <2>3. 2 * size \in Nat \ {0} /\ size \in 0 .. 2 * size - 1 /\ 2 * size >= size
        /\ size # read /\ pushed < MaxPush
    BY DEF TypeOK, PushPacket
  <2>. QED
    BY <2>1, <2>2, <2>3, PushAtTypeOK
<1>2. CASE write # -1
  <2>1. PushAt(write, size, slots)
    BY <1>2 DEF PushPacket
  <2>2. write \in 0 .. size - 1 /\ size \in Nat \ {0} /\ size >= size
        /\ write # read /\ pushed < MaxPush
    BY <1>2 DEF TypeOK, PushPacket
  <2>3. slots \in [0 .. size - 1 -> Packet \union {NoPacket}]
    BY DEF TypeOK
  <2>. QED
    BY <2>1, <2>2, <2>3, PushAtTypeOK
<1>. QED
  BY <1>1, <1>2

\* A push onto the first n - 1 packets of the queue, which are where they were.
Appended(n) ==
  /\ Queued' = n
  /\ last' = Slot(Queued)' /\ read' # None
  /\ Items'[n] = pushed
  /\ \A k \in 1 .. n - 1 : k \in 1 .. Queued /\ Items'[k] = Items[k]

\* Without growth a push appends to the queue.
LEMMA PushInPlace ==
  ASSUME TypeOK, PushPacket, write # None
  PROVE  Appended(Queued + 1) /\ size' = size
<1>1. /\ size \in Nat \ {0} /\ read \in 0 .. size - 1 \union {-1}
      /\ write \in 0 .. size - 1 /\ read # write
      /\ slots \in [0 .. size - 1 -> Packet \union {NoPacket}]
  BY DEF TypeOK
<1>2. /\ size' = size /\ slots' = [slots EXCEPT ![write] = pushed]
      /\ read' = IF read = -1 THEN write ELSE read
      /\ last' = write
      /\ write' = IF Succ(write, size) = read' THEN -1 ELSE Succ(write, size)
  BY DEF PushPacket, PushAt
<1>3. Queued \in 0 .. size /\ Queued' = Queued + 1
  BY <1>1, <1>2 DEF Queued, Succ
<1>4. Slot(Queued)' = write
  BY <1>1, <1>2, <1>3, SMTT(30) DEF Queued, Slot
<1>5. ASSUME NEW k \in 1 .. Queued
      PROVE  Slot(k)' = Slot(k) /\ Slot(k) \in 0 .. size - 1 /\ Slot(k) # write
  BY <1>1, <1>2 DEF Queued, Slot
<1>6. Items'[Queued + 1] = pushed
  BY <1>1, <1>2, <1>3, <1>4 DEF Items
<1>7. ASSUME NEW k \in 1 .. Queued
      PROVE  Items'[k] = Items[k]
  <2>1. Items'[k] = slots'[Slot(k)']
    BY <1>3 DEF Items
  <2>. QED
    BY <2>1, <1>1, <1>2, <1>5 DEF Items
<1>. QED
  BY <1>1, <1>2, <1>3, <1>4, <1>6, <1>7 DEF Appended

\* With growth it appends to what lies between read_index_ and the end of the ring;
\* the packets before read_index_ leave the queue.
LEMMA PushGrows ==
  ASSUME TypeOK, PushPacket, write = None
  PROVE  Appended(size - read + 1) /\ size' = 2 * size /\ Queued = size
<1>1. /\ size \in Nat \ {0} /\ read \in 0 .. size - 1
      /\ slots \in [0 .. size - 1 -> Packet \union {NoPacket}]
  BY DEF TypeOK
<1>2. /\ size' = 2 * size /\ slots' = [Grown EXCEPT ![size] = pushed]
      /\ read' = read
      /\ last' = size
      /\ write' = IF Succ(size, 2 * size) = read THEN -1 ELSE Succ(size, 2 * size)
  BY <1>1 DEF PushPacket, PushAt
<1>3. Queued = size /\ Queued' = size - read + 1
  BY <1>1, <1>2 DEF Queued, Succ
<1>4. Slot(Queued)' = size
  BY <1>1, <1>2, <1>3 DEF Slot
<1>5. ASSUME NEW k \in 1 .. size - read
      PROVE  Slot(k)' = Slot(k) /\ Slot(k) \in 0 .. size - 1
  BY <1>1, <1>2 DEF Slot
<1>6. Items'[size - read + 1] = pushed
  BY <1>1, <1>2, <1>3, <1>4 DEF Items, Grown
<1>7. ASSUME NEW k \in 1 .. size - read
      PROVE  k \in 1 .. Queued /\ Items'[k] = Items[k]
  <2>1. Items'[k] = slots'[Slot(k)']
    BY <1>1, <1>3 DEF Items
  <2>2. slots'[Slot(k)] = slots[Slot(k)]
    BY <1>1, <1>2, <1>5 DEF Grown
  <2>. QED
    BY <2>1, <2>2, <1>1, <1>3, <1>5 DEF Items
<1>. QED
  BY <1>1, <1>2, <1>3, <1>4, <1>6, <1>7 DEF Appended

LEMMA PushIndexInv == IndexInv /\ PushPacket => IndexInv'
<1>. SUFFICES ASSUME IndexInv, PushPacket PROVE IndexInv'
  OBVIOUS
<1>1. TypeOK /\ TypeOK'
  BY PushTypeOK DEF IndexInv
<1>2. \E n \in Nat : Appended(n)
  <2>1. CASE write # None
    BY <2>1, <1>1, PushInPlace, Window DEF WindowFacts
  <2>2. CASE write = None
    <3>1. size - read + 1 \in Nat
      BY <1>1, <2>2 DEF TypeOK
    <3>. QED
      BY <3>1, <2>2, <1>1, PushGrows
  <2>. QED
    BY <2>1, <2>2
<1>3. PICK n \in Nat : Appended(n)
  BY <1>2
<1>4. ASSUME NEW k \in 1 .. Queued'
      PROVE  Items'[k] # NoPacket
  <2>1. CASE k = n
    BY <2>1, <1>3, <1>1 DEF Appended, TypeOK, Packet
  <2>2. CASE k # n
    BY <2>2, <1>3 DEF Appended, IndexInv, QueuedPacketsAreValid
  <2>. QED
    BY <2>1, <2>2
<1>5. QueuedPacketsAreValid'
  BY <1>4 DEF QueuedPacketsAreValid
<1>6. LastIsNewest'
  BY <1>3 DEF LastIsNewest, Appended
<1>. QED
  BY <1>1, <1>5, <1>6 DEF IndexInv

-----------------------------------------------------------------------------
(* GetPacket and the rest.                                                  *)

\* Taking a packet removes the first one of the queue.
Removed ==
  /\ Queued' = Queued - 1
  /\ read' # None => last' = Slot(Queued)'
  /\ read' = None => last' = None
  /\ \A k \in 1 .. Queued - 1 : Items'[k] = Items[k + 1]

LEMMA GetRemoves ==
  ASSUME IndexInv, GetPacket
  PROVE  Removed /\ slots[read] # NoPacket /\ TakePacket /\ size' = size
<1>1. /\ size \in Nat \ {0} /\ read \in 0 .. size - 1
      /\ write \in 0 .. size - 1 \union {-1} /\ read # write
      /\ slots \in [0 .. size - 1 -> Packet \union {NoPacket}]
  BY DEF IndexInv, TypeOK, GetPacket
<1>2. Queued \in 1 .. size /\ Slot(1) = read
  BY <1>1 DEF Queued, Slot
<1>3. slots[read] # NoPacket
  BY <1>2 DEF IndexInv, QueuedPacketsAreValid, Items
<1>4. TakePacket /\ size' = size
  BY <1>3 DEF GetPacket
<1>5. /\ slots' = [slots EXCEPT ![read] = NoPacket]
      /\ write' = IF write = -1 THEN read ELSE write
      /\ last' = IF read = last THEN -1 ELSE last
      /\ read' = IF Succ(read, size) = write' THEN -1 ELSE Succ(read, size)
  BY <1>4 DEF TakePacket
<1>6. Queued' = Queued - 1
  BY <1>1, <1>4, <1>5 DEF Queued, Succ
<1>7. ASSUME NEW k \in 1 .. Queued - 1
      PROVE  Items'[k] = Items[k + 1]
  <2>1. /\ Slot(k)' = Slot(k + 1)
        /\ Slot(k + 1) \in 0 .. size - 1 /\ Slot(k + 1) # read
    BY <1>1, <1>4, <1>5 DEF Queued, Slot, Succ
  <2>2. Items'[k] = slots'[Slot(k)']
    BY <1>2, <1>6 DEF Items
  <2>3. Items[k + 1] = slots[Slot(k + 1)]
    BY <1>2 DEF Items
  <2>. QED
    BY <2>1, <2>2, <2>3, <1>1, <1>5
<1>8. last = Slot(Queued)
  BY <1>1 DEF IndexInv, LastIsNewest
<1>9. Slot(1) = read
  BY <1>2
<1>10. CASE Queued = 1
  <2>1. read' = -1 /\ last' = -1
    <3>1. last = read
      BY <1>8, <1>9, <1>10
    <3>2. Succ(read, size) = write'
      BY <1>1, <1>5, <1>10 DEF Queued, Succ
    <3>. QED
      BY <3>1, <3>2, <1>5
  <2>. QED
    BY <2>1, <1>3, <1>4, <1>6, <1>7 DEF Removed
<1>11. CASE Queued # 1
  <2>1. /\ Slot(Queued) # read /\ read' # -1
        /\ Slot(Queued)' = Slot(Queued)
    BY <1>11, <1>1, <1>2, <1>4, <1>5 DEF Queued, Slot, Succ
  <2>2. last' = Slot(Queued)'
    BY <2>1, <1>5, <1>8
  <2>. QED
    BY <2>1, <2>2, <1>3, <1>4, <1>6, <1>7 DEF Removed
<1>. QED
  BY <1>3, <1>4, <1>10, <1>11

LEMMA GetTypeOK == TypeOK /\ GetPacket => TypeOK'
  BY DEF TypeOK, GetPacket, TakePacket, RefusePacket, Succ, Packet

LEMMA GetIndexInv == IndexInv /\ GetPacket => IndexInv'
<1>. SUFFICES ASSUME IndexInv, GetPacket PROVE IndexInv'
  OBVIOUS
<1>1. TypeOK /\ TypeOK'
  BY GetTypeOK DEF IndexInv
<1>2. Removed
  BY GetRemoves
<1>3. QueuedPacketsAreValid'
  BY <1>1, <1>2, Window DEF Removed, WindowFacts, IndexInv, QueuedPacketsAreValid
<1>4. LastIsNewest'
  BY <1>2 DEF Removed, LastIsNewest
<1>. QED
  BY <1>1, <1>3, <1>4 DEF IndexInv

LEMMA ClearIndexInv == IndexInv /\ Clear => IndexInv'
<1>. SUFFICES ASSUME IndexInv, Clear PROVE IndexInv'
  OBVIOUS
<1>1. TypeOK'
  BY DEF IndexInv, TypeOK, Clear
<1>2. QueuedPacketsAreValid'
  BY DEF Clear, QueuedPacketsAreValid, Queued
<1>3. LastIsNewest'
  BY DEF IndexInv, TypeOK, Clear, LastIsNewest
<1>. QED
  BY <1>1, <1>2, <1>3 DEF IndexInv

\* The steps that leave the ring alone.
LEMMA IdleIndexInv ==
  IndexInv /\ (GetPacketNone \/ SetEof \/ UNCHANGED vars) => IndexInv'
<1>. SUFFICES ASSUME IndexInv, GetPacketNone \/ SetEof \/ UNCHANGED vars
              PROVE  IndexInv'
  OBVIOUS
<1>1. UNCHANGED <<size, slots, read, write, last, pushed>>
  BY DEF GetPacketNone, SetEof, vars
<1>2. eof' \in BOOLEAN
  BY DEF GetPacketNone, SetEof, vars, IndexInv, TypeOK
<1>3. answer' \in [status : {"none", "kOk", "kEof", "kEAgain", "kError"},
                   packet : Packet \union {NoPacket}]
  BY DEF GetPacketNone, SetEof, vars, IndexInv, TypeOK
<1>4. TypeOK'
  BY <1>1, <1>2, <1>3 DEF IndexInv, TypeOK
<1>5. QueuedPacketsAreValid' /\ LastIsNewest'
  BY <1>1 DEF IndexInv, QueuedPacketsAreValid, LastIsNewest, Items, Queued, Slot
<1>. QED
  BY <1>4, <1>5 DEF IndexInv

LEMMA NextIndexInv == IndexInv /\ [Next]_vars => IndexInv'
  BY PushIndexInv, GetIndexInv, ClearIndexInv, IdleIndexInv DEF Next

\* The indices are consistent in every reachable state: GetPacket never meets an
\* invalid packet, whatever growth, Clear and wrap around came before.
THEOREM SpecIndexInv == Spec => []IndexInv
  BY InitIndexInv, NextIndexInv, PTL DEF Spec

\* Neither RTC_DCHECK of GetPacket can fail: every queued slot holds a packet.
THEOREM SpecQueuedPacketsAreValid == Spec => []QueuedPacketsAreValid
  BY SpecIndexInv, PTL DEF IndexInv

\* GetDuration is the newest minus the oldest dts, and holds no reader back when
\* there is nothing to read.
LEMMA IndexInvGivesDuration == IndexInv => DurationIsThatOfTheQueue
<1>. SUFFICES ASSUME IndexInv PROVE DurationIsThatOfTheQueue
  OBVIOUS
<1>1. CASE read = None
  BY <1>1 DEF IndexInv, LastIsNewest, DurationIsThatOfTheQueue, GetDuration, DtsAt, NoPts
<1>2. CASE read # None
  <2>1. Queued \in 1 .. size /\ Slot(1) = read
    BY <1>2, Window DEF IndexInv, WindowFacts
  <2>2. last = Slot(Queued) /\ last # -1
    BY <1>2, <2>1, Window DEF IndexInv, LastIsNewest, WindowFacts
  <2>3. Items[1] = slots[read] /\ Items[Queued] = slots[last]
    BY <2>1, <2>2 DEF Items
  <2>4. Items[1] # NoPacket /\ Items[Queued] # NoPacket
    BY <2>1 DEF IndexInv, QueuedPacketsAreValid
  <2>. QED
    BY <1>2, <2>2, <2>3, <2>4 DEF DurationIsThatOfTheQueue, GetDuration, DtsAt
<1>. QED
  BY <1>1, <1>2

\* What the reader's back-pressure reads is, in every reachable state, the duration
\* of what is queued.
THEOREM SpecDuration == Spec => []DurationIsThatOfTheQueue
  BY SpecIndexInv, IndexInvGivesDuration, PTL

-----------------------------------------------------------------------------
(* The order of delivery, of every ring: growth may lose packets, and that   *)
(* is all.                                                                   *)

\* No packet is in two slots, and the ones of the window are in order.  A packet that
\* growth pushed out of the window stays in its slot, older than the ones to come.
InOrder ==
  /\ \A i \in 0 .. size - 1 : slots[i] # NoPacket => slots[i] < pushed
  /\ \A i, j \in 0 .. size - 1 : slots[i] = slots[j] /\ slots[i] # NoPacket => i = j
  /\ \A j, k \in 1 .. Queued : j < k => Items[j] < Items[k]

OrderInv == IndexInv /\ InOrder

\* What the window holds are packets that were pushed.
LEMMA WindowHoldsPackets ==
  ASSUME OrderInv, NEW k \in 1 .. Queued
  PROVE  Items[k] \in Packet /\ Items[k] < pushed /\ Queued \in Nat
<1>1. Slot(k) \in 0 .. size - 1 /\ Queued \in 0 .. size /\ size \in Nat
  BY Window DEF OrderInv, IndexInv, WindowFacts, TypeOK
<1>2. Items[k] = slots[Slot(k)] /\ Items[k] # NoPacket
  BY DEF Items, OrderInv, IndexInv, QueuedPacketsAreValid
<1>3. slots[Slot(k)] \in Packet \union {NoPacket}
  BY <1>1 DEF OrderInv, IndexInv, TypeOK
<1>. QED
  BY <1>1, <1>2, <1>3 DEF OrderInv, InOrder

\* A push stores a packet that is newer than all that is there.
LEMMA PushInOrder == OrderInv /\ PushPacket => InOrder'
<1>. SUFFICES ASSUME OrderInv, PushPacket PROVE InOrder'
  OBVIOUS
<1>1. /\ size \in Nat \ {0} /\ pushed \in Nat /\ pushed' = pushed + 1 /\ pushed \in Packet
      /\ slots \in [0 .. size - 1 -> Packet \union {NoPacket}]
      /\ write \in 0 .. size - 1 \union {-1}
  BY DEF OrderInv, IndexInv, TypeOK, PushPacket, PushAt, Packet
<1>2. \E n \in Nat : Appended(n)
  <2>1. CASE write # None
    BY <2>1, PushInPlace, Window DEF OrderInv, IndexInv, WindowFacts
  <2>2. CASE write = None
    <3>1. size - read + 1 \in Nat
      BY <2>2 DEF OrderInv, IndexInv, TypeOK
    <3>. QED
      BY <3>1, <2>2, PushGrows DEF OrderInv, IndexInv
  <2>. QED
    BY <2>1, <2>2
<1>3. PICK n \in Nat : Appended(n)
  BY <1>2
<1>4. PICK w \in 0 .. size' - 1 :
        \A i \in 0 .. size' - 1 :
          slots'[i] = IF i = w THEN pushed ELSE IF i \in 0 .. size - 1 THEN slots[i] ELSE NoPacket
  <2>1. CASE write # None
    <3>1. size' = size /\ slots' = [slots EXCEPT ![write] = pushed] /\ write \in 0 .. size - 1
      BY <2>1, <1>1 DEF PushPacket, PushAt
    <3>. QED
      BY <3>1, <1>1
  <2>2. CASE write = None
    <3>1. size' = 2 * size /\ slots' = [Grown EXCEPT ![size] = pushed]
      BY <2>2, <1>1 DEF PushPacket, PushAt
    <3>2. size \in 0 .. size' - 1
      BY <3>1, <1>1
    <3>3. ASSUME NEW i \in 0 .. size' - 1
          PROVE  slots'[i] = IF i = size THEN pushed
                             ELSE IF i \in 0 .. size - 1 THEN slots[i] ELSE NoPacket
      BY <3>1, <1>1 DEF Grown
    <3>. QED
      BY <3>2, <3>3
  <2>. QED
    BY <2>1, <2>2
<1>5. \A i \in 0 .. size - 1 : slots[i] = NoPacket \/ (slots[i] \in Packet /\ slots[i] < pushed)
  BY <1>1 DEF OrderInv, InOrder
<1>6. \A i \in 0 .. size' - 1 : slots'[i] # NoPacket => slots'[i] < pushed'
  BY <1>1, <1>4, <1>5 DEF Packet
<1>7. ASSUME NEW i \in 0 .. size' - 1, NEW j \in 0 .. size' - 1,
             slots'[i] = slots'[j], slots'[i] # NoPacket
      PROVE  i = j
  BY <1>1, <1>4, <1>5, <1>7 DEF OrderInv, InOrder, Packet
<1>8. ASSUME NEW j \in 1 .. Queued', NEW k \in 1 .. Queued', j < k
      PROVE  Items'[j] < Items'[k]
  <2>1. j \in 1 .. Queued /\ Items'[j] = Items[j] /\ Queued' = n
    BY <1>3, <1>8 DEF Appended
  <2>2. CASE k = n
    BY <1>3, <2>1, <2>2, WindowHoldsPackets DEF Appended
  <2>3. CASE k # n
    BY <1>3, <1>8, <2>1, <2>3 DEF Appended, OrderInv, InOrder
  <2>. QED
    BY <2>2, <2>3
<1>. QED
  BY <1>6, <1>7, <1>8 DEF InOrder

\* A packet that is taken leaves its slot empty, and the rest as it was.
LEMMA GetInOrder == OrderInv /\ GetPacket => InOrder'
<1>. SUFFICES ASSUME OrderInv, GetPacket PROVE InOrder'
  OBVIOUS
<1>1. Removed /\ TakePacket /\ size' = size /\ pushed' = pushed
  BY GetRemoves DEF OrderInv, GetPacket
<1>2. /\ slots \in [0 .. size - 1 -> Packet \union {NoPacket}] /\ read \in 0 .. size - 1
      /\ slots' = [slots EXCEPT ![read] = NoPacket]
  BY <1>1 DEF OrderInv, IndexInv, TypeOK, GetPacket, TakePacket
<1>3. \A i \in 0 .. size' - 1 : slots'[i] # NoPacket => slots'[i] < pushed'
  BY <1>1, <1>2 DEF OrderInv, InOrder
<1>4. \A i, j \in 0 .. size' - 1 : slots'[i] = slots'[j] /\ slots'[i] # NoPacket => i = j
  BY <1>1, <1>2 DEF OrderInv, InOrder
<1>5. ASSUME NEW j \in 1 .. Queued', NEW k \in 1 .. Queued', j < k
      PROVE  Items'[j] < Items'[k]
  <2>1. Queued \in Nat
    BY Window DEF OrderInv, IndexInv, WindowFacts, TypeOK
  <2>2. Items'[j] = Items[j + 1] /\ Items'[k] = Items[k + 1]
    BY <1>1, <2>1 DEF Removed
  <2>3. j + 1 \in 1 .. Queued /\ k + 1 \in 1 .. Queued /\ j + 1 < k + 1
    BY <1>1, <1>5, <2>1 DEF Removed
  <2>. QED
    BY <2>2, <2>3 DEF OrderInv, InOrder
<1>. QED
  BY <1>3, <1>4, <1>5 DEF InOrder

\* Every step keeps the order; Clear leaves the slots, and takes the window.
LEMMA NextOrderInv == OrderInv /\ [Next]_vars => OrderInv'
<1>. SUFFICES ASSUME OrderInv, [Next]_vars PROVE InOrder'
  BY NextIndexInv DEF OrderInv
<1>1. CASE PushPacket
  BY <1>1, PushInOrder
<1>2. CASE GetPacket
  BY <1>2, GetInOrder
<1>3. CASE Clear
  BY <1>3 DEF Clear, InOrder, Queued, OrderInv, IndexInv, TypeOK
<1>4. CASE GetPacketNone \/ SetEof \/ UNCHANGED vars
  <2>1. UNCHANGED <<size, slots, read, write, pushed>>
    BY <1>4 DEF GetPacketNone, SetEof, vars
  <2>. QED
    BY <2>1 DEF OrderInv, InOrder, Items, Queued, Slot
<1>. QED
  BY <1>1, <1>2, <1>3, <1>4 DEF Next

\* No packet is handed out twice or after a later one, also by a ring that lost packets
\* when it grew.
THEOREM SpecDeliveredInOrder == Spec => DeliveredInOrder
<1>1. Init => OrderInv
  BY InitIndexInv DEF Init, OrderInv, InOrder, Queued
<1>2. OrderInv /\ [Next]_vars =>
        [answer'.status = "kOk" /\ answer' # answer
           => answer'.packet \notin {slots'[i] : i \in DOMAIN slots'}
              /\ \A k \in 1 .. Queued' : answer'.packet < Items'[k]]_vars
  <2>. SUFFICES ASSUME OrderInv, Next, answer'.status = "kOk", answer' # answer
                PROVE  /\ answer'.packet \notin {slots'[i] : i \in DOMAIN slots'}
                       /\ \A k \in 1 .. Queued' : answer'.packet < Items'[k]
    OBVIOUS
  <2>1. GetPacket
    BY DEF Next, PushPacket, PushAt, GetPacketNone, SetEof, Clear
  <2>2. Removed /\ TakePacket /\ size' = size /\ slots[read] # NoPacket
    BY <2>1, GetRemoves DEF OrderInv
  <2>3. /\ slots \in [0 .. size - 1 -> Packet \union {NoPacket}] /\ read \in 0 .. size - 1
        /\ slots' = [slots EXCEPT ![read] = NoPacket]
        /\ answer'.packet = slots[read]
    BY <2>1, <2>2 DEF OrderInv, IndexInv, TypeOK, GetPacket, TakePacket
  <2>4. answer'.packet \notin {slots'[i] : i \in DOMAIN slots'}
    BY <2>2, <2>3 DEF OrderInv, InOrder
  <2>5. ASSUME NEW k \in 1 .. Queued'
        PROVE  answer'.packet < Items'[k]
    <3>1. Queued \in Nat /\ Slot(1) = read
      BY <2>3, Window DEF OrderInv, IndexInv, WindowFacts, TypeOK
    <3>2. Items'[k] = Items[k + 1] /\ 1 \in 1 .. Queued /\ k + 1 \in 1 .. Queued /\ 1 < k + 1
      BY <2>2, <3>1 DEF Removed
    <3>3. Items[1] = slots[read]
      BY <3>1, <3>2 DEF Items
    <3>. QED
      BY <2>3, <3>2, <3>3 DEF OrderInv, InOrder
  <2>. QED
    BY <2>4, <2>5
<1>. QED
  BY <1>1, <1>2, NextOrderInv, PTL DEF Spec, DeliveredInOrder

-----------------------------------------------------------------------------
(* The ring that grows aligned is the FIFO.                                 *)

\* The queued packets are a sequence of packets.
LEMMA ItemsIsASequence ==
  IndexInv => Items \in Seq(Packet) /\ Len(Items) = Queued
<1>. SUFFICES ASSUME IndexInv
              PROVE  Items \in Seq(Packet) /\ Len(Items) = Queued
  OBVIOUS
<1>1. Queued \in Nat /\ \A k \in 1 .. Queued : Slot(k) \in 0 .. size - 1
  BY Window DEF IndexInv, WindowFacts, TypeOK
<1>2. ASSUME NEW k \in 1 .. Queued
      PROVE  slots[Slot(k)] \in Packet
  <2>1. slots[Slot(k)] # NoPacket
    BY DEF IndexInv, QueuedPacketsAreValid, Items
  <2>. QED
    BY <2>1, <1>1 DEF IndexInv, TypeOK
<1>3. Items \in [1 .. Queued -> Packet]
  BY <1>2 DEF Items
<1>4. Items \in Seq(Packet)
  BY <1>1, <1>3, SeqDef
<1>5. Len(Items) = Queued
  BY <1>1, <1>3, <1>4, LenProperties
<1>. QED
  BY <1>4, <1>5

LEMMA EmptyItems == IndexInv => (Items = <<>> <=> read = None)
<1>. SUFFICES ASSUME IndexInv PROVE Items = <<>> <=> read = None
  OBVIOUS
<1>1. Items \in Seq(Packet) /\ Len(Items) = Queued
  BY ItemsIsASequence
<1>2. read = None <=> Queued = 0
  BY Window DEF IndexInv, WindowFacts
<1>3. Items = <<>> <=> Len(Items) = 0
  BY <1>1
<1>. QED
  BY <1>1, <1>2, <1>3

\* The same after a step.
LEMMA ItemsIsASequenceNext ==
  (IndexInv => Items \in Seq(Packet) /\ Len(Items) = Queued)'
  BY ItemsIsASequence, PTL

LEMMA EmptyItemsNext == (IndexInv => (Items = <<>> <=> read = None))'
  BY EmptyItems, PTL

\* Every push of AlignedSpec appends.
LEMMA PushRefines ==
  ASSUME IndexInv, IndexInv', PushPacket, size' # size => read = 0
  PROVE  Items' = Append(Items, pushed) /\ UNCHANGED <<eof, answer>>
<1>1. pushed \in Packet
  BY DEF IndexInv, TypeOK, Packet, PushPacket
<1>2. Appended(Queued + 1)
  <2>1. CASE write # None
    BY <2>1, PushInPlace DEF IndexInv
  <2>2. CASE write = None
    <3>1. size \in Nat \ {0} /\ size' = 2 * size /\ Queued = size /\ Appended(size - read + 1)
      BY <2>2, PushGrows DEF IndexInv, TypeOK
    <3>2. size - read + 1 = Queued + 1
      BY <3>1
    <3>. QED
      BY <3>1, <3>2
  <2>. QED
    BY <2>1, <2>2
<1>3. /\ Items \in Seq(Packet) /\ Len(Items) = Queued
      /\ Items' \in Seq(Packet) /\ Len(Items') = Queued'
  BY ItemsIsASequence, ItemsIsASequenceNext
<1>4. Queued \in Nat /\ Queued' = Queued + 1
  BY <1>2, <1>3, LenProperties DEF Appended
<1>5. ASSUME NEW k \in 1 .. Len(Items')
      PROVE  Items'[k] = Append(Items, pushed)[k]
  <2>1. CASE k = Queued + 1
    BY <2>1, <1>1, <1>2, <1>3, AppendProperties DEF Appended
  <2>2. CASE k # Queued + 1
    <3>1. k \in 1 .. Queued
      BY <2>2, <1>3, <1>4
    <3>2. Items'[k] = Items[k]
      BY <3>1, <1>2, <1>4 DEF Appended
    <3>. QED
      BY <3>1, <3>2, <1>1, <1>3, AppendProperties
  <2>. QED
    BY <2>1, <2>2
<1>6. Append(Items, pushed) \in Seq(Packet) /\ Len(Append(Items, pushed)) = Queued + 1
  BY <1>1, <1>3, AppendProperties
<1>7. Items' = Append(Items, pushed)
  BY <1>3, <1>4, <1>5, <1>6, SeqEqual
<1>. QED
  BY <1>7 DEF PushPacket, PushAt

\* A packet that is taken is the first of the queue.
LEMMA GetRefines ==
  ASSUME IndexInv, IndexInv', GetPacket
  PROVE  /\ Items # <<>> /\ Items' = Tail(Items)
         /\ answer' = [status |-> "kOk", packet |-> Head(Items)]
         /\ UNCHANGED eof
<1>1. Removed /\ TakePacket
  BY GetRemoves
<1>2. /\ Items \in Seq(Packet) /\ Len(Items) = Queued
      /\ Items' \in Seq(Packet) /\ Len(Items') = Queued'
  BY ItemsIsASequence, ItemsIsASequenceNext
<1>3. Items # <<>>
  BY EmptyItems DEF GetPacket
<1>4. /\ Tail(Items) \in Seq(Packet) /\ Len(Tail(Items)) = Queued - 1
      /\ \A k \in 1 .. Queued - 1 : Tail(Items)[k] = Items[k + 1]
  BY <1>2, <1>3, HeadTailProperties
<1>5. Items' = Tail(Items)
  BY <1>1, <1>2, <1>4, SeqEqual DEF Removed
<1>6. Slot(1) = read /\ Queued \in Nat \ {0}
  BY <1>2, <1>3, Window DEF IndexInv, WindowFacts, GetPacket
<1>7. Items[1] = slots[read]
  BY <1>6 DEF Items
<1>8. Head(Items) = Items[1]
  BY <1>2, <1>3
<1>. QED
  BY <1>1, <1>3, <1>5, <1>7, <1>8 DEF TakePacket, GetPacket

\* What the other steps do to the queued packets.
LEMMA ClearRefines ==
  IndexInv' /\ Clear => Items' = <<>> /\ UNCHANGED <<eof, answer>>
  BY EmptyItemsNext DEF Clear

LEMMA ItemsUnchanged ==
  UNCHANGED <<size, slots, read, write>> => Items' = Items
  BY DEF Items, Queued, Slot

LEMMA StepRefines ==
  IndexInv /\ IndexInv' /\ [Next /\ (size' # size => read = 0)]_vars
    => [Fifo!Next]_(Fifo!vars)
<1>. SUFFICES ASSUME IndexInv, IndexInv', [Next /\ (size' # size => read = 0)]_vars
              PROVE  [Fifo!Next]_(Fifo!vars)
  OBVIOUS
<1>1. CASE PushPacket /\ (size' # size => read = 0)
  <2>1. pushed \in Packet
    BY <1>1 DEF IndexInv, TypeOK, Packet, PushPacket
  <2>2. Fifo!Push(pushed)
    BY <1>1, PushRefines DEF Fifo!Push
  <2>. QED
    BY <2>1, <2>2 DEF Fifo!Next
<1>2. CASE GetPacket
  BY <1>2, GetRefines DEF Fifo!Get, Fifo!Next
<1>3. CASE GetPacketNone
  <2>1. Items = <<>> /\ Items' = Items
    BY <1>3, EmptyItems, ItemsUnchanged DEF GetPacketNone
  <2>. QED
    BY <2>1, <1>3 DEF GetPacketNone, Fifo!GetNothing, Fifo!Next
<1>4. CASE SetEof
  BY <1>4, ItemsUnchanged DEF SetEof, Fifo!SetEof, Fifo!Next
<1>5. CASE Clear
  BY <1>5, ClearRefines DEF Fifo!Clear, Fifo!Next
<1>6. CASE UNCHANGED vars
  BY <1>6, ItemsUnchanged DEF vars, Fifo!vars
<1>. QED
  BY <1>1, <1>2, <1>3, <1>4, <1>5, <1>6 DEF Next

LEMMA InitRefines == Init => Fifo!Init
<1>. SUFFICES ASSUME Init PROVE Fifo!Init
  OBVIOUS
<1>1. Items = <<>>
  BY InitIndexInv, EmptyItems DEF Init
<1>. QED
  BY <1>1 DEF Init, Fifo!Init, Fifo!NoAnswer

\* As long as the ring grows only with read_index_ at 0, it implements the queue its
\* users count on: each packet once, in order, kEof only when empty.
THEOREM AlignedImplementsFifo == AlignedSpec => ImplementsFifo
<1>1. IndexInv /\ [Next /\ (size' # size => read = 0)]_vars => IndexInv'
  BY NextIndexInv
<1>. QED
  BY <1>1, InitIndexInv, InitRefines, StepRefines, PTL DEF AlignedSpec, ImplementsFifo, Fifo!Spec

=============================================================================
