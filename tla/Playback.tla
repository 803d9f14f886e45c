-------------------------------- MODULE Playback --------------------------------
(***************************************************************************)
(* The way of the sound: packets of the reader (player_impl.cc), the decode *)
(* loop (decode_to_render.cc, audio_decode_to_render.cc) with its codec     *)
(* (decoder_ffmpeg.cc), the render with its ring (audio_render_impl.cc),    *)
(* the device that reads it, and the clock's view of a seek                 *)
(* (player_timer.cc).  Player models the threads and the calls; here a seek *)
(* is one step of the player, one of the decoder and two of the reader      *)
(* thread.  The packets wait in the ring of packet_queue.cc, with what it   *)
(* loses when it grows (PacketQueue).                                       *)
(*                                                                          *)
(* Sound is counted in units of what one callback of the device reads.  A   *)
(* packet is its place in the file and the serial it was stamped with, a    *)
(* frame its number, its packet, the serial of that and the one the loop    *)
(* gives it.  A seek's target is where a packet begins.                     *)
(***************************************************************************)
EXTENDS Integers, Sequences

CONSTANTS
  Packets,    \* packets of the file
  PerPacket,  \* frames that a packet holds
  Holds,      \* frames that a codec keeps until it is drained: one of this set
  FrameSize,  \* a frame
  Watermark,  \* player_start_watermark_
  Delay,      \* GetPlayoutDelayMs()
  Slots,      \* of a new packet queue
  QueueBound, \* packets between the first and the last queued that hold the reader back
  Targets,    \* bound: the packets that seeks go to
  MaxSeeks    \* bound: seeks in one behaviour

ASSUME SizesAssumption ==
  /\ {Packets, PerPacket, FrameSize, Watermark, Delay, Slots, QueueBound} \subseteq Nat \ {0}
  /\ Holds \subseteq Nat /\ Holds # {}
ASSUME TargetsAssumption == Targets \subseteq 1 .. Packets
ASSUME MaxSeeksAssumption == MaxSeeks \in Nat

VARIABLES
  at,       \* the next packet that the reader reads
  stamp,    \* reader_info_.serial
  pending,  \* the target of the seek that is posted to the reader, 0 for none
  moving,   \* the target and the number of the seek that the reader found to be the newest
  inFlight, \* what av_read_frame returned and the reader has not passed on
  broken,   \* av_read_frame answered kError
  queue,    \* the packets that the queue will give
  size,     \* packet_queue_.size()
  front,    \* read_index_; the slot of the next packet while it is -1
  eof,      \* is_eof_
  seekId,   \* seek_id_ of the player
  target,   \* start_time_ of the player
  serial,   \* serial_ of the loop, seek_id_ of the clock
  start,    \* start_time_ of the loop
  newest,   \* newest_packet_serial_
  frame,    \* av_frame_ while last_av_frame_pending_, NoFrame otherwise
  loop,     \* where ProcessInternal is
  codec,    \* frames inside the codec
  holds,    \* how many of them it keeps
  draining, \* it was sent the end
  level,    \* CurrentSize of the ring
  reached,  \* player_start_watermark_had_reached_
  playing,  \* is_playing_
  device,   \* where the device's callback is
  clock,    \* the frame of the clock's last update
  sent,     \* the last frame that was written
  from,     \* the packet at which the reader went on after the newest seek
  lost,     \* the packets that the queue lost since then
  late      \* whether the end was in sight when a seek came

readerVars == <<at, stamp, pending, moving, inFlight, broken, from>>
queueVars == <<queue, size, front, eof, lost>>
seekVars == <<seekId, target>>
loopVars == <<serial, start, newest, frame, loop>>
codecVars == <<codec, holds, draining>>
renderVars == <<level, reached, playing, device>>
seenVars == <<clock, sent>>
vars == <<readerVars, queueVars, seekVars, loopVars, codecVars, renderVars, seenVars, late>>

NoPacket == [pos |-> 0, of |-> 0]
EndOfFile == [pos |-> Packets + 1, of |-> 0]
NoFrame == [n |-> 0, pos |-> 0, of |-> 0, serial |-> 0]

Greatest(m, n) == IF m < n THEN n ELSE m

\* The useable capacity that Init sets
Capacity == Greatest(Watermark + Delay, 2 * Delay)

Init ==
  /\ at = 1 /\ stamp = 0 /\ pending = 0 /\ moving = NoPacket /\ inFlight = NoPacket
  /\ broken = FALSE /\ from = 1
  /\ queue = <<>> /\ size = Slots /\ front = 0 /\ eof = FALSE /\ lost = {}
  /\ seekId = 0 /\ target = 1
  /\ serial = 0 /\ start = 1 /\ newest = 0 /\ frame = NoFrame /\ loop = "posted"
  /\ codec = <<>> /\ holds \in Holds /\ draining = FALSE
  /\ level = 0 /\ reached = FALSE /\ playing = TRUE /\ device = "idle"
  /\ clock = NoFrame /\ sent = NoFrame /\ late = FALSE

-----------------------------------------------------------------------------
(* The reader *)

\* The reader's task is over
Free == inFlight = NoPacket /\ moving = NoPacket

\* The queue is short and no seek is on its way; an error of the file or of the codec is the
\* end of reading
MayRead ==
  /\ Free /\ stamp = seekId /\ ~broken /\ loop # "failed"
  /\ queue # <<>> => queue[Len(queue)].pos - queue[1].pos < QueueBound

\* av_read_frame, until it answers something else than kEAgain
Reads ==
  /\ MayRead
  /\ \/ /\ at <= Packets
        /\ inFlight' = [pos |-> at, of |-> stamp] /\ at' = at + 1 /\ UNCHANGED broken
     \/ /\ at > Packets
        /\ inFlight' = EndOfFile /\ UNCHANGED <<at, broken>>
     \/ broken' = TRUE /\ UNCHANGED <<at, inFlight>>
  /\ UNCHANGED <<stamp, pending, moving, from, queueVars, seekVars, loopVars, codecVars,
                 renderVars, seenVars, late>>

\* Mutant: a ring that is full does not grow, its oldest packet is overwritten
Overwrites(p) ==
  /\ queue' = Append(IF Len(queue) < size THEN queue ELSE Tail(queue), p)
  /\ UNCHANGED <<size, lost>>

\* PushPacket.  A ring that is full grows behind its last slot: what had wrapped in front of
\* the oldest packet is not read any more.
Pushes(p) ==
  IF Len(queue) < size
    THEN queue' = Append(queue, p) /\ UNCHANGED <<size, lost>>
    ELSE /\ queue' = Append(SubSeq(queue, 1, size - front), p)
         /\ size' = 2 * size
         /\ lost' = lost \union {queue[i].pos : i \in size - front + 1 .. size}

HandsOver ==
  /\ inFlight # NoPacket
  /\ IF inFlight = EndOfFile
       THEN eof' = TRUE /\ UNCHANGED <<queue, size, lost>>
       ELSE Pushes(inFlight) /\ UNCHANGED eof
  /\ inFlight' = NoPacket
  /\ UNCHANGED <<at, stamp, pending, moving, broken, from, front, seekVars, loopVars, codecVars,
                 renderVars, seenVars, late>>

\* The task of the newest seek looks at seek_id_; that of an older one finds another and returns
ReaderChecks ==
  /\ Free /\ pending # 0 /\ seekId = serial
  /\ moving' = [pos |-> pending, of |-> serial] /\ pending' = 0
  /\ UNCHANGED <<at, stamp, inFlight, broken, from, queueVars, seekVars, loopVars, codecVars,
                 renderVars, seenVars, late>>

\* Then it seeks, also when the next seek has come.  The file goes to a place before the
\* target, or refuses to.
ReaderSeeks ==
  /\ moving # NoPacket
  /\ at' \in {at} \union 1 .. moving.pos
  /\ stamp' = moving.of /\ moving' = NoPacket /\ from' = at' /\ lost' = {}
  /\ late' = (late \/ at' > Packets)
  /\ UNCHANGED <<pending, inFlight, broken, queue, size, front, eof, seekVars, loopVars,
                 codecVars, renderVars, seenVars>>

Reader == Reads \/ HandsOver \/ ReaderChecks \/ ReaderSeeks

-----------------------------------------------------------------------------
(* Seek, Play and Pause *)

\* SeekInternal up to its blocking call: seek_id_ and start_time_ are there for the others to read
SeekInternal(to) ==
  /\ seekId = serial /\ seekId < MaxSeeks
  /\ seekId' = seekId + 1 /\ target' = to
  /\ UNCHANGED <<readerVars, queueVars, loopVars, codecVars, renderVars, seenVars, late>>

\* The blocking call, between two tasks of the decoder thread, and the task for the reader
DecoderSeeks ==
  /\ seekId # serial
  /\ loop \in {"posted", "completed", "failed"}
  /\ serial' = seekId /\ start' = target
  /\ level' = 0 /\ reached' = FALSE
  /\ queue' = <<>> /\ front' = 0
  /\ pending' = target
  /\ late' = (late \/ eof \/ inFlight = EndOfFile)
  /\ UNCHANGED <<at, stamp, moving, inFlight, broken, from, size, eof, lost, seekVars, newest,
                 frame, loop, codecVars, playing, device, seenVars>>

PlayOrPause ==
  /\ playing' = ~playing
  /\ UNCHANGED <<readerVars, queueVars, seekVars, loopVars, codecVars, level, reached, device,
                 seenVars, late>>

-----------------------------------------------------------------------------
(* The decode loop.  From "posted" to "posted" it is one task of the decoder thread. *)

\* A frame that waits is tried again
ProcessInternal ==
  /\ loop = "posted"
  /\ loop' = IF frame = NoFrame THEN "receiving" ELSE "framed"
  /\ UNCHANGED <<readerVars, queueVars, seekVars, serial, start, newest, frame, codecVars,
                 renderVars, seenVars, late>>

MayGive == Len(codec) > holds \/ (draining /\ codec # <<>>)

\* avcodec_receive_frame gives a frame
ReceivesFrame ==
  /\ loop = "receiving" /\ MayGive
  /\ frame' = [Head(codec) EXCEPT !.serial = newest]
  /\ codec' = Tail(codec)
  /\ loop' = "framed"
  /\ UNCHANGED <<readerVars, queueVars, seekVars, serial, start, newest, holds, draining,
                 renderVars, seenVars, late>>

\* AVERROR_EOF: on_completed, and the loop is over
ReceivesEnd ==
  /\ loop = "receiving" /\ draining /\ codec = <<>>
  /\ loop' = "completed"
  /\ UNCHANGED <<readerVars, queueVars, seekVars, serial, start, newest, frame, codecVars,
                 renderVars, seenVars, late>>

FramesOf(p) ==
  [i \in 1 .. PerPacket |->
     [n |-> (p.pos - 1) * PerPacket + i, pos |-> p.pos, of |-> p.of, serial |-> 0]]

\* GetAudioPacket drops a packet that ends before start_time_, GetPacket one of another position
Ends(p) == p.pos + 1 < target
IsStale(p) == p.of # serial

\* How many packets in front of the queue they pass over
PassedOver ==
  LET s == {k \in 0 .. Len(queue) : \A i \in 1 .. k : Ends(queue[i]) \/ IsStale(queue[i])}
  IN  CHOOSE k \in s : \A j \in s : j <= k

\* GetPacket flushes the codec when it dropped a packet; what GetAudioPacket drops it never sees
Flushed(k) == IF \E i \in 1 .. k : IsStale(queue[i]) /\ ~Ends(queue[i]) THEN <<>> ELSE codec

\* Mutant: an empty queue is the end
EmptyIsEof == TRUE

\* What an empty queue answers: kEof, or kEAgain
IsEof == eof

\* AVERROR(EAGAIN): GetPacket, and what it found goes to the codec, which may fail
AsksForPacket ==
  /\ loop = "receiving" /\ ~MayGive /\ ~draining
  /\ LET k == PassedOver
     IN  \/ /\ k < Len(queue)
            /\ newest' = queue[k + 1].of
            /\ queue' = SubSeq(queue, k + 2, Len(queue)) /\ front' = (front + k + 1) % size
            /\ \/ codec' = Flushed(k) \o FramesOf(queue[k + 1]) /\ UNCHANGED loop
               \/ codec' = Flushed(k) /\ loop' = "failed"
            /\ UNCHANGED draining
         \/ /\ k = Len(queue)
            /\ newest' = IF k = 0 THEN 0 ELSE queue[k].of
            /\ queue' = <<>> /\ front' = (front + k) % size
            /\ codec' = Flushed(k)
            /\ IF IsEof THEN draining' = TRUE /\ UNCHANGED loop
                        ELSE loop' = "posted" /\ UNCHANGED draining
  /\ UNCHANGED <<readerVars, size, eof, lost, seekVars, serial, start, frame, holds, renderVars,
                 seenVars, late>>

\* Mutant: any room will do
HasAnyRoom == level < Capacity

\* A frame needs room for itself and a millisecond
HasRoom == Capacity - level > FrameSize

\* A frame from before the start time is dropped, one without room is tried again later
OnFrame ==
  /\ loop = "framed"
  /\ CASE frame.pos < start -> loop' = "posted" /\ frame' = NoFrame
       [] frame.pos >= start /\ HasRoom -> loop' = "writing" /\ UNCHANGED frame
       [] OTHER -> loop' = "posted" /\ UNCHANGED frame
  /\ UNCHANGED <<readerVars, queueVars, seekVars, serial, start, newest, codecVars, renderVars,
                 seenVars, late>>

\* WritePlanar; the ring would lose its oldest sound rather than hold more than its capacity
Writes ==
  /\ loop = "writing"
  /\ level' = IF level + FrameSize > Capacity THEN Capacity ELSE level + FrameSize
  /\ sent' = frame
  /\ loop' = "written"
  /\ UNCHANGED <<readerVars, queueVars, seekVars, serial, start, newest, frame, codecVars,
                 reached, playing, device, clock, late>>

\* Mutant: the sound starts when the ring is full
IsFull == level = Capacity

IsAtWatermark == level >= Watermark

\* Mutant: the clock does not look at the number of the seek
ClockOfAnySeek == [frame EXCEPT !.serial = serial]

\* SetAudioCurrentTime
ClockUpdated == IF frame.serial = serial THEN frame ELSE clock

\* The watermark is looked at behind the write, then the clock is told
Written ==
  /\ loop = "written"
  /\ reached' = (reached \/ IsAtWatermark)
  /\ clock' = ClockUpdated
  /\ frame' = NoFrame /\ loop' = "posted"
  /\ UNCHANGED <<readerVars, queueVars, seekVars, serial, start, newest, codecVars,
                 level, playing, device, sent, late>>

Decoder ==
  \/ DecoderSeeks
  \/ ProcessInternal \/ ReceivesFrame \/ ReceivesEnd \/ AsksForPacket
  \/ OnFrame \/ Writes \/ Written

-----------------------------------------------------------------------------
(* The device reads: first it looks whether it may, then it takes what there is *)

LooksAtFlags ==
  /\ device = "idle" /\ playing /\ reached
  /\ device' = "reading"
  /\ UNCHANGED <<readerVars, queueVars, seekVars, loopVars, codecVars, level, reached, playing,
                 seenVars, late>>

ReadsRing ==
  /\ device = "reading"
  /\ level' = IF level > 0 THEN level - 1 ELSE 0
  /\ device' = "idle"
  /\ UNCHANGED <<readerVars, queueVars, seekVars, loopVars, codecVars, reached, playing,
                 seenVars, late>>

Device == LooksAtFlags \/ ReadsRing

Next ==
  \/ Reader
  \/ \E to \in Targets : SeekInternal(to)
  \/ PlayOrPause
  \/ Decoder
  \/ Device

Spec == Init /\ [][Next]_vars

\* The threads run what they were posted, in its order, the device calls, and the file does
\* not answer kEAgain for ever.
Fairness ==
  /\ WF_vars(Reader) /\ WF_vars(Decoder) /\ WF_vars(Device)
  /\ SF_vars(DecoderSeeks)

FairSpec == Spec /\ Fairness

-----------------------------------------------------------------------------

Places == 0 .. Packets + 1
Serials == 0 .. MaxSeeks
Frames ==
  [n : 0 .. Packets * PerPacket, pos : 0 .. Packets, of : Serials, serial : Serials]

\* Room is found and used in two steps, and the device takes sound in between: a write still
\* never finds less room than was found for it, so nothing that was not heard is overwritten.
NothingIsOverwritten ==
  [][loop = "writing" /\ loop' = "written" => level' = level + FrameSize]_vars

\* The frame behind which the next one of the loop's position is to come
Previous ==
  IF sent # NoFrame /\ sent.of = serial THEN sent.n ELSE (Greatest(start, from) - 1) * PerPacket

FrameLost(n) == \E p \in lost : (p - 1) * PerPacket < n /\ n <= p * PerPacket

\* The frames of a position are written in their order, each once, from the first one behind
\* the target; left out are those of the packets that the queue lost by growing, and no
\* others: whatever the codec was flushed of and however often a frame had to wait, while
\* no seek is under way.
FramesComeInOrder ==
  [][sent' # sent /\ sent'.of = serial /\ serial = seekId =>
       /\ Previous < sent'.n
       /\ \A n \in Previous + 1 .. sent'.n - 1 : FrameLost(n)]_vars

\* The loop is only done when the last frame of the file was written, unless a seek came
\* when the end had been announced, which no later seek takes back.
CompletesWhenAllIsSent ==
  loop = "completed" /\ ~late => sent.n = Packets * PerPacket /\ sent.of = serial

\* With a codec that keeps nothing back the clock is never set by sound from before the seek
\* that it was told of.
ClockFollowsSeek == holds = 0 => clock.of = clock.serial

\* Unless the file or the codec comes to its end or fails the render starts again after each seek.
\* For this a frame must fit above the watermark.
StartsToPlay ==
  FrameSize <= Capacity - Watermark =>
    (~reached ~> reached \/ loop \in {"completed", "failed"} \/ broken)

=================================================================================
