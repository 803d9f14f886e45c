------------------------------ MODULE PacketQueue ------------------------------
(***************************************************************************)
(* player/packet_queue.{h,cc}: the growable ring of packets between the    *)
(* reader thread and a decode loop.  AvPacketQueue holds one for audio and *)
(* one for video and calls each operation under its mutex_, so an          *)
(* operation is one step.                                                  *)
(*                                                                         *)
(* A packet is identified with its dts; the n-th packet pushed is n, as    *)
(* the demuxer delivers a stream in increasing dts order.  The members     *)
(* first_reserved_index_ and second_idr_index_ never leave -1 in this      *)
(* code (nothing calls HandleReservedPacket), so they are left out.        *)
(***************************************************************************)
EXTENDS Integers, Sequences

CONSTANTS
  InitialSize,  \* packet_queue_.resize(10) in the constructor
  MaxPush,      \* bound: packets pushed in one behaviour
  NoPacket      \* a slot whose packet was moved out or unreferenced

Packet == 0 .. MaxPush

ASSUME InitialSizeAssumption == InitialSize \in Nat \ {0}
ASSUME MaxPushAssumption == MaxPush \in Nat
ASSUME NoPacketAssumption == NoPacket \notin Packet

VARIABLES
  size,     \* packet_queue_.size()
  slots,    \* packet_queue_: index -> packet, NoPacket when it is not valid
  read,     \* read_index_
  write,    \* write_index_
  last,     \* last_writed_index_
  eof,      \* is_eof_
  pushed,   \* how many packets were pushed so far, the next packet's dts
  answer    \* the last answer of GetPacket

vars == <<size, slots, read, write, last, eof, pushed, answer>>

None == -1

Init ==
  /\ size = InitialSize
  /\ slots = [i \in 0 .. InitialSize - 1 |-> NoPacket]
  /\ read = None
  /\ write = 0
  /\ last = None
  /\ eof = FALSE
  /\ pushed = 0
  /\ answer = [status |-> "none", packet |-> NoPacket]

\* (i + 1) % n for an index i of a ring of n slots
Succ(i, n) == IF i + 1 = n THEN 0 ELSE i + 1

-----------------------------------------------------------------------------

\* ReSizeQueue: twice the slots, every packet keeps its index
Grown == [i \in 0 .. 2 * size - 1 |-> IF i < size THEN slots[i] ELSE NoPacket]

\* Mutant: a full ring is not told by write_index_ = -1
NextWriteUnchecked(w, r) == w

\* write_index_ after a push, the ring being full when it meets read_index_
NextWrite(w, r) == IF w = r THEN None ELSE w

\* The part of PushPacket that follows the growth: n slots, write at w
PushAt(w, n, ring) ==
  LET r == IF read = None THEN w ELSE read IN
      /\ size' = n
      /\ slots' = [ring EXCEPT ![w] = pushed]
      /\ read' = r
      /\ last' = w
      /\ write' = NextWrite(Succ(w, n), r)
      /\ pushed' = pushed + 1
      /\ UNCHANGED <<eof, answer>>

PushPacket ==
  /\ pushed < MaxPush
  /\ IF write = None
       THEN PushAt(size, 2 * size, Grown)
       ELSE PushAt(write, size, slots)

\* Mutants: the packet is copied out of its slot; Clear leaves write_index_, or the
\* packets, as they are
SlotsAfterCopy == slots
ClearedWriteKept == write
ClearedSlotsKept == slots

\* What GetPacket and Clear leave in the ring, and where Clear writes next
SlotsAfterMove == [slots EXCEPT ![read] = NoPacket]
ClearedSlots == [i \in DOMAIN slots |-> NoPacket]
ClearedWrite == 0

\* The branch of GetPacket that moves the packet out of its slot
TakePacket ==
  LET w == IF write = None THEN read ELSE write
      next == Succ(read, size)
  IN  /\ answer' = [status |-> "kOk", packet |-> slots[read]]
      /\ slots' = SlotsAfterMove
      /\ write' = w
      /\ last' = IF read = last THEN None ELSE last
      /\ read' = IF next = w THEN None ELSE next

\* The branch of GetPacket behind RTC_DCHECK(false) << "packet is invalid"
RefusePacket ==
  /\ answer' = [status |-> "kError", packet |-> NoPacket]
  /\ UNCHANGED <<slots, read, write, last>>

\* GetPacket when read_index_ names a slot
GetPacket ==
  /\ read # None
  /\ IF slots[read] # NoPacket THEN TakePacket ELSE RefusePacket
  /\ UNCHANGED <<size, eof, pushed>>

\* GetPacket when there is nothing to read
GetPacketNone ==
  /\ read = None
  /\ answer' = [status |-> IF eof THEN "kEof" ELSE "kEAgain", packet |-> NoPacket]
  /\ UNCHANGED <<size, slots, read, write, last, eof, pushed>>

SetEof ==
  /\ eof' = TRUE
  /\ UNCHANGED <<size, slots, read, write, last, pushed, answer>>

\* Clear keeps is_eof_ and last_writed_index_
Clear ==
  /\ slots' = ClearedSlots
  /\ read' = None
  /\ write' = ClearedWrite
  /\ UNCHANGED <<size, last, eof, pushed, answer>>

Next ==
  \/ PushPacket
  \/ GetPacket
  \/ GetPacketNone
  \/ SetEof
  \/ Clear

Spec == Init /\ [][Next]_vars

-----------------------------------------------------------------------------

\* dts of an invalid packet, AV_NOPTS_VALUE: below every difference of two dts
NoPts == -1000000

DtsAt(i) == IF i = None THEN 0 ELSE IF slots[i] = NoPacket THEN NoPts ELSE slots[i]

\* GetDuration, what ReadPacket compares with max_packet_queue_size_ms_
GetDuration == DtsAt(last) - DtsAt(read)

\* The packets between read_index_ and write_index_, oldest first
Queued ==
  IF read = None THEN 0
  ELSE IF write = None THEN size
  ELSE IF read < write THEN write - read ELSE write + size - read

Slot(k) == IF read + k - 1 < size THEN read + k - 1 ELSE read + k - 1 - size

Items == [k \in 1 .. Queued |-> slots[Slot(k)]]

Fifo == INSTANCE PacketFifo WITH items <- Items

\* A push that grows the ring while read_index_ is inside it leaves write_index_
\* on a packet that was not read yet.  AlignedSpec is the behaviours without it.
AlignedSpec == Init /\ [][Next /\ (size' # size => read = 0)]_vars

-----------------------------------------------------------------------------

\* The members hold values of their types; read_index_, write_index_ and
\* last_writed_index_ name slots of the ring or are -1, never both of the
\* first two.
TypeOK ==
  /\ size \in Nat \ {0}
  /\ slots \in [0 .. size - 1 -> Packet \union {NoPacket}]
  /\ read \in 0 .. size - 1 \union {None}
  /\ write \in 0 .. size - 1 \union {None}
  /\ last \in 0 .. size - 1 \union {None}
  /\ read = None => write # None
  /\ read # write
  /\ eof \in BOOLEAN
  /\ pushed \in 0 .. MaxPush
  /\ answer \in [status : {"none", "kOk", "kEof", "kEAgain", "kError"},
                 packet : Packet \union {NoPacket}]

\* Every slot GetPacket will reach before it empties the queue holds a packet:
\* neither RTC_DCHECK of GetPacket can fail, whatever growth, Clear and wrap
\* around came before.
QueuedPacketsAreValid == \A k \in 1 .. Queued : Items[k] # NoPacket

\* What makes them inductive: last_writed_index_ is the newest packet of the queue,
\* and names no packet when the queue is empty.
LastIsNewest ==
  IF read = None THEN last = None \/ slots[last] = NoPacket
  ELSE last = Slot(Queued)

IndexInv == TypeOK /\ QueuedPacketsAreValid /\ LastIsNewest

\* The back-pressure of the reader never lies: with packets queued GetDuration
\* is the newest minus the oldest dts, and on an empty queue, also the one
\* Clear leaves with a stale last_writed_index_, it does not hold the reader.
DurationIsThatOfTheQueue ==
  IF read = None THEN GetDuration <= 0
  ELSE GetDuration = Items[Queued] - Items[1]

\* No packet is handed out twice or after a later one, across Clear, wrap
\* around and every growth, the misaligned ones included.
DeliveredInOrder ==
  [][answer'.status = "kOk" /\ answer' # answer
       => answer'.packet \notin {slots'[i] : i \in DOMAIN slots'}
          /\ \A k \in 1 .. Queued' : answer'.packet < Items'[k]]_vars

\* As long as the ring only grows with read_index_ at 0, no packet is lost or
\* reordered: the ring is the queue the reader and the decode loops count on.
ImplementsFifo == Fifo!Spec

\* packet_queue.h: "write_index_ always points at the position that can be
\* written now, otherwise -1".
WriteIndexIsWritable == write # None => slots[write] = NoPacket

=============================================================================
