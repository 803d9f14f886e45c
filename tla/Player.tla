-------------------------------- MODULE Player --------------------------------
(***************************************************************************)
(* player/player_impl.{h,cc} with the control of player/decode_to_render.  *)
(*                                                                         *)
(* A client thread calls the API; PlayerImpl runs a player, a reader and a *)
(* decoder thread, each an rtc::Thread with a FIFO queue of tasks and a    *)
(* set of delayed tasks.  A BlockingCall of the player thread is a task in *)
(* the callee's queue and a value of playerPc: the callee's last step      *)
(* advances playerPc, which is the Event the caller waits for.  A task     *)
(* stays at the head of its queue until its last step.  A task that looks  *)
(* at what another thread may change and acts on it, or that changes two   *)
(* things of which another thread may see one, is a step for each.         *)
(*                                                                         *)
(* Abstracted: a packet is its stamped serial and `origin', the number of  *)
(* the seek that positioned the file when it was read; a position, a       *)
(* target and a pts are choices.  The packet queue is the FIFO that        *)
(* PacketQueue implements; the codec is what avcodec_receive_frame will    *)
(* answer next.                                                            *)
(***************************************************************************)
EXTENDS Integers, Sequences

CONSTANTS
  Streams,     \* the enabled streams the file has: a subset of {"audio", "video"}
  MaxCalls,    \* bound: calls of the client between the first Init and UnInit
  QueueBound,  \* bound: packets in one queue; below the 10 slots of a new ring
  Configs      \* what Init may be called with: TRUE for a valid config

ASSUME StreamsAssumption == Streams \subseteq {"audio", "video"} /\ Streams # {}
ASSUME MaxCallsAssumption == MaxCalls \in Nat
ASSUME QueueBoundAssumption == QueueBound \in 2 .. 9
ASSUME ConfigsAssumption == Configs \subseteq BOOLEAN /\ Configs # {}

VARIABLES
  clientPc,      \* where the client is in Init; other calls; UnInit
  calls,         \* calls made between them
  state,         \* player_info_.state
  seekId,        \* seek_id_
  playerThread, playerQ, playerPc,
  readerThread, readerQ, readerTimer,
  reader,        \* reader_info_.reader_: "none", "open" or "failed"
  readerSerial,  \* reader_info_.serial
  filePos,       \* the seek the file position stems from
  atEnd,         \* av_read_frame reached the end of the file from there
  refused,       \* the seeks avformat_seek_file refused; nobody reads its result
  inflight,      \* what av_read_frame returned to the running ReadPacket
  decoderThread, decoderQ, decoderTimer,
  isInit,        \* DecodeToRender::is_init_ of each stream
  serial,        \* DecodeToRender::serial_
  pending,       \* DecodeToRender::last_av_frame_pending_
  codec,         \* "empty" (needs a packet), "holding" (a frame), "draining"
  renderAlive,   \* the render each stream's config_ points to exists
  rendering,     \* the renders play and the timer runs
  timerSeekId,   \* PlayerTimer::seek_id_
  queue,         \* av_packet_queue_
  eof,           \* is_eof_ of both its queues
  fault          \* the first undefined or asserted-against step, "none" before

clientVars  == <<clientPc, calls>>
playerVars  == <<playerThread, playerQ, playerPc>>
fileVars    == <<reader, readerSerial, filePos, atEnd, refused>>
readerVars  == <<readerThread, readerQ, readerTimer, fileVars, inflight>>
threadVars  == <<decoderThread, decoderQ, decoderTimer>>
loopVars    == <<isInit, serial, pending, codec>>
renderVars  == <<renderAlive, rendering, timerSeekId>>
decoderVars == <<threadVars, loopVars, renderVars>>
queueVars   == <<queue, eof>>

vars == <<clientVars, state, seekId, playerVars, readerVars, decoderVars,
          queueVars, fault>>

-----------------------------------------------------------------------------
(* Tasks and threads.                                                       *)

\* A task of the player or the decoder thread, and one of the reader thread
Task(op)            == [op |-> op, stream |-> "none"]
Process(s)          == [op |-> "Process", stream |-> s]
ReaderTask(op, n)   == [op |-> op, seek |-> n]

PlayerOps  == {"Init", "Play", "Pause", "Seek", "UnInit", "OnError"}
ReaderOps  == {"InitReader", "FirstRead", "ReadPacket", "Seek", "SeekTo", "UnInitReader"}
DecoderOps == {"InitDecoder", "Play", "Pause", "Seek", "UnInitDecoder", "Process"}

PlayerTasks  == [op : PlayerOps, stream : {"none"}]
ReaderTasks  == [op : ReaderOps, seek : Nat]
DecoderTasks == [op : DecoderOps, stream : Streams \union {"none"}]

\* Thread::PostTask: dropped once the thread was told to quit
Post(thread, q, t) == IF thread = "running" THEN Append(q, t) ELSE q

\* Whether t is the task a thread runs; a quitting thread still runs what is queued
Runs(thread, q, op) == thread \in {"running", "quitting"} /\ q # <<>> /\ Head(q).op = op

Packet(n, o) == [serial |-> n, origin |-> o]

NoRead == [res |-> "none", stream |-> "none", packet |-> Packet(0, 0)]

\* What av_read_frame may answer: at the end of the file kEof, also when asked
\* again; before it, among others, a packet of a stream that is disabled
ReadResults ==
  IF atEnd THEN {[NoRead EXCEPT !.res = "kEof"]}
  ELSE {[res |-> "kOk", stream |-> s, packet |-> Packet(readerSerial, filePos)] :
           s \in Streams \union {"none"}}
       \union {[NoRead EXCEPT !.res = r] : r \in {"kEof", "kEAgain", "kError"}}

States == {"kIdle", "kPrepared", "kPlaying", "kPaused", "kCompleted", "kEnded", "kError"}

\* Mutant: the states that may be paused are mistaken for those that may be played
CheckStateMistaken(from, to) ==
  CASE to \in {"kIdle", "kPrepared"} -> from = "kIdle"
    [] to = "kPlaying"   -> from \in {"kPrepared", "kPaused"}
    [] to = "kPaused"    -> from \in {"kPrepared", "kPaused"}
    [] OTHER             -> TRUE

\* CheckState(to) in state `from'
CheckState(from, to) ==
  CASE to \in {"kIdle", "kPrepared"} -> from = "kIdle"
    [] to = "kPlaying"   -> from \in {"kPrepared", "kPaused"}
    [] to = "kPaused"    -> from = "kPlaying"
    [] to = "kCompleted" -> from \notin {"kError", "kIdle"}
    [] OTHER             -> TRUE

SetState(to) == state' = IF CheckState(state, to) THEN to ELSE state

ThreadShouldExit == state \in {"kError", "kEnded"}

\* SetError: state kError, and OnError posted to the player thread, whose queue is q
SetError(q) ==
  /\ state' = "kError"
  /\ playerQ' = Post(playerThread, q, Task("OnError"))

Init ==
  /\ clientPc = "new" /\ calls = 0
  /\ state = "kIdle" /\ seekId = 0
  /\ playerThread = "running" /\ playerQ = <<>> /\ playerPc = "ready"
  /\ readerThread = "null" /\ readerQ = <<>> /\ readerTimer = FALSE
  /\ reader = "none" /\ readerSerial = 0 /\ filePos = 0 /\ atEnd = FALSE
  /\ refused = {}
  /\ inflight = NoRead
  /\ decoderThread = "null" /\ decoderQ = <<>> /\ decoderTimer = {}
  /\ isInit = [s \in Streams |-> FALSE]
  /\ serial = [s \in Streams |-> 0]
  /\ pending = [s \in Streams |-> FALSE]
  /\ codec = [s \in Streams |-> "empty"]
  /\ renderAlive = [s \in Streams |-> FALSE]
  /\ rendering = FALSE /\ timerSeekId = 0
  /\ queue = [s \in Streams |-> <<>>] /\ eof = FALSE
  /\ fault = "none"

-----------------------------------------------------------------------------
(* The client, as examples/player_test.cc drives the API: Init first, then  *)
(* calls in any order, UnInit last.                                         *)

ClientPosts(op) ==
  /\ playerQ' = Post(playerThread, playerQ, Task(op))
  /\ UNCHANGED <<state, seekId, playerThread, playerPc, readerVars, decoderVars,
                 queueVars, fault>>

CallInit ==
  /\ clientPc = "new"
  /\ clientPc' = "using"
  /\ UNCHANGED calls
  /\ ClientPosts("Init")

Call(op) ==
  /\ clientPc = "using"
  /\ calls < MaxCalls
  /\ calls' = calls + 1
  /\ UNCHANGED clientPc
  /\ ClientPosts(op)

\* UnInit: BlockingCall of UnInitInternal ...
CallUnInit ==
  /\ clientPc = "using"
  /\ clientPc' = "uninit"
  /\ UNCHANGED calls
  /\ ClientPosts("UnInit")

\* ... and then Stop: Quit ...
StopPlayer ==
  /\ clientPc = "stop"
  /\ clientPc' = "join"
  /\ playerThread' = "quitting"
  /\ UNCHANGED <<calls, state, seekId, playerQ, playerPc, readerVars, decoderVars,
                 queueVars, fault>>

\* Mutant: UnInit returns without the join
PlayerJoined == TRUE

\* ... and Join
PlayerHasExited == playerThread = "exited"

JoinPlayer ==
  /\ clientPc = "join"
  /\ PlayerHasExited
  /\ clientPc' = "released"
  /\ UNCHANGED <<calls, state, seekId, playerVars, readerVars, decoderVars,
                 queueVars, fault>>

Client ==
  \/ CallInit
  \/ \E op \in {"Init", "Play", "Pause", "Seek"} : Call(op)
  \/ CallUnInit
  \/ StopPlayer
  \/ JoinPlayer

-----------------------------------------------------------------------------
(* The player thread.                                                       *)

PlayerRuns(op) == playerPc = "ready" /\ Runs(playerThread, playerQ, op)

PlayerReturns == playerQ' = Tail(playerQ) /\ playerPc' = "ready"

\* InitInternal of a player that is past kIdle
InitIgnored ==
  /\ PlayerRuns("Init")
  /\ state # "kIdle"
  /\ PlayerReturns
  /\ UNCHANGED <<clientVars, state, seekId, playerThread, readerVars, decoderVars,
                 queueVars, fault>>

\* InitInternal with no url, no window or an empty window
InitInvalid ==
  /\ PlayerRuns("Init")
  /\ state = "kIdle"
  /\ FALSE \in Configs
  /\ SetError(Tail(playerQ))
  /\ UNCHANGED <<clientVars, seekId, playerThread, playerPc, readerVars,
                 decoderVars, queueVars, fault>>

\* InitInternal up to the BlockingCall of InitReaderIfNeed
InitReaderIfNeed ==
  /\ PlayerRuns("Init")
  /\ state = "kIdle"
  /\ TRUE \in Configs
  /\ readerThread' = "running"
  /\ readerQ' = <<ReaderTask("InitReader", 0)>>
  /\ playerPc' = "initReader"
  /\ UNCHANGED <<clientVars, state, seekId, playerThread, playerQ, readerTimer,
                 fileVars, inflight, decoderVars, queueVars, fault>>

\* InitReaderIfNeed returned true, whatever the reader found: InitDecoder
StartDecoder ==
  /\ playerPc = "initReaderDone"
  /\ decoderThread' = "running"
  /\ decoderQ' = <<Task("InitDecoder")>>
  /\ playerPc' = "initDecoder"
  /\ UNCHANGED <<clientVars, state, seekId, playerThread, playerQ, readerVars,
                 decoderTimer, loopVars, renderVars, queueVars, fault>>

\* The end of InitInternal: kPrepared unless SetError was faster, OnPrepared
Prepared ==
  /\ playerPc = "initDecoderDone"
  /\ SetState("kPrepared")
  /\ PlayerReturns
  /\ UNCHANGED <<clientVars, seekId, playerThread, readerVars, decoderVars,
                 queueVars, fault>>

\* PlayInternal reads the state; its kCompleted branch is dead, no SetState leads there
PlayInternal ==
  /\ PlayerRuns("Play")
  /\ IF state \in {"kPrepared", "kPaused"}
       THEN playerPc' = "play" /\ UNCHANGED playerQ
       ELSE PlayerReturns
  /\ UNCHANGED <<clientVars, state, seekId, playerThread, readerVars, decoderVars,
                 queueVars, fault>>

\* It posts the task that starts the renders, which may be run ...
PostPlay ==
  /\ playerPc = "play"
  /\ decoderQ' = Post(decoderThread, decoderQ, Task("Play"))
  /\ playerPc' = "played"
  /\ UNCHANGED <<clientVars, state, seekId, playerThread, playerQ, readerVars,
                 decoderThread, decoderTimer, loopVars, renderVars, queueVars, fault>>

\* ... before the state says so, unless SetError came between
SetPlaying ==
  /\ playerPc = "played"
  /\ SetState("kPlaying")
  /\ PlayerReturns
  /\ UNCHANGED <<clientVars, seekId, playerThread, readerVars, decoderVars,
                 queueVars, fault>>

\* A call through the null decoder_task_queue_
NullCheck == fault' = IF decoderThread = "null" THEN "null" ELSE fault

\* PauseInternal sets the state ...
PauseInternal ==
  /\ PlayerRuns("Pause")
  /\ SetState("kPaused")
  /\ playerPc' = "paused"
  /\ UNCHANGED <<clientVars, seekId, playerThread, playerQ, readerVars, decoderVars,
                 queueVars, fault>>

\* ... and posts the pause, also when SetState refused it
PostPause ==
  /\ playerPc = "paused"
  /\ NullCheck
  /\ decoderQ' = Post(decoderThread, decoderQ, Task("Pause"))
  /\ PlayerReturns
  /\ UNCHANGED <<clientVars, state, seekId, playerThread, readerVars, decoderThread,
                 decoderTimer, loopVars, renderVars, queueVars>>

\* SeekInternal up to its BlockingCall
SeekInternal ==
  /\ PlayerRuns("Seek")
  /\ seekId' = seekId + 1
  /\ NullCheck
  /\ decoderQ' = Post(decoderThread, decoderQ, Task("Seek"))
  /\ playerPc' = "seek"
  /\ UNCHANGED <<clientVars, state, playerThread, playerQ, readerVars,
                 decoderThread, decoderTimer, loopVars, renderVars, queueVars>>

\* The rest of SeekInternal: the task that seeks the file
PostReaderSeek ==
  /\ playerPc = "seekDone"
  /\ readerQ' = Post(readerThread, readerQ, ReaderTask("Seek", seekId))
  /\ PlayerReturns
  /\ UNCHANGED <<clientVars, state, seekId, playerThread, readerThread, readerTimer,
                 fileVars, inflight, decoderVars, queueVars, fault>>

\* UnInitInternal up to the BlockingCall of UnInitDecoder
UnInitInternal ==
  /\ PlayerRuns("UnInit")
  /\ SetState("kEnded")
  /\ fault' = IF state = "kIdle" THEN "check"
              ELSE IF decoderThread = "null" THEN "null" ELSE fault
  /\ decoderQ' = Post(decoderThread, decoderQ, Task("UnInitDecoder"))
  /\ playerPc' = "uninitDecoder"
  /\ UNCHANGED <<clientVars, seekId, playerThread, playerQ, readerVars,
                 decoderThread, decoderTimer, loopVars, renderVars, queueVars>>

\* Mutant: the decoder thread is joined but never told to quit
NotToldToQuit == decoderThread

\* decoder_task_queue_->Stop: Quit ...
ToldToQuit == "quitting"

QuitDecoder ==
  /\ playerPc = "uninitDecoderDone"
  /\ decoderThread' = ToldToQuit
  /\ playerPc' = "joinDecoder"
  /\ UNCHANGED <<clientVars, state, seekId, playerThread, playerQ, readerVars,
                 decoderQ, decoderTimer, loopVars, renderVars, queueVars, fault>>

\* ... Join; the loops and the renders are destroyed and UnInitReader calls the reader
JoinDecoder ==
  /\ playerPc = "joinDecoder"
  /\ decoderThread = "exited"
  /\ decoderThread' = "null"
  /\ decoderQ' = <<>>
  /\ decoderTimer' = {}
  /\ isInit' = [s \in Streams |-> FALSE]
  /\ renderAlive' = [s \in Streams |-> FALSE]
  /\ readerQ' = Post(readerThread, readerQ, ReaderTask("UnInitReader", 0))
  /\ playerPc' = "uninitReader"
  /\ UNCHANGED <<clientVars, state, seekId, playerThread, playerQ, readerThread,
                 readerTimer, fileVars, inflight, serial, pending, codec, rendering,
                 timerSeekId, queueVars, fault>>

\* reader_task_queue_->Stop: Quit ...
QuitReader ==
  /\ playerPc = "uninitReaderDone"
  /\ readerThread' = "quitting"
  /\ playerPc' = "joinReader"
  /\ UNCHANGED <<clientVars, state, seekId, playerThread, playerQ, readerQ,
                 readerTimer, fileVars, inflight, decoderVars, queueVars, fault>>

\* ... Join; reader_ is destroyed and the client's BlockingCall returns
JoinReader ==
  /\ playerPc = "joinReader"
  /\ readerThread = "exited"
  /\ readerThread' = "null"
  /\ readerQ' = <<>>
  /\ readerTimer' = FALSE
  /\ reader' = "none"
  /\ PlayerReturns
  /\ clientPc' = "stop"
  /\ UNCHANGED <<calls, state, seekId, playerThread, readerSerial, filePos, atEnd,
                 refused, inflight, decoderVars, queueVars, fault>>

\* The task SetError posts: config_.callback->OnError
OnError ==
  /\ PlayerRuns("OnError")
  /\ PlayerReturns
  /\ UNCHANGED <<clientVars, state, seekId, playerThread, readerVars, decoderVars,
                 queueVars, fault>>

PlayerExits ==
  /\ playerThread = "quitting"
  /\ playerQ = <<>>
  /\ playerThread' = "exited"
  /\ UNCHANGED <<clientVars, state, seekId, playerQ, playerPc, readerVars,
                 decoderVars, queueVars, fault>>

PlayerStep ==
  \/ InitIgnored \/ InitInvalid \/ InitReaderIfNeed \/ StartDecoder \/ Prepared
  \/ PlayInternal \/ PostPlay \/ SetPlaying
  \/ PauseInternal \/ PostPause
  \/ SeekInternal \/ PostReaderSeek
  \/ UnInitInternal \/ QuitDecoder \/ JoinDecoder \/ QuitReader \/ JoinReader
  \/ OnError \/ PlayerExits

-----------------------------------------------------------------------------
(* The reader thread.                                                       *)

\* The task of InitReaderIfNeed up to its call of ReadPacket.  An unopened file
\* is two errors, an opened file without a stream one.
InitReader ==
  /\ Runs(readerThread, readerQ, "InitReader")
  /\ readerSerial' = seekId
  /\ readerQ' = [readerQ EXCEPT ![1] = ReaderTask("FirstRead", 0)]
  /\ \/ /\ reader' = "open"
        /\ UNCHANGED <<state, playerQ>>
     \/ /\ reader' = "failed"
        /\ SetError(playerQ)
     \/ /\ reader' = "failed"
        /\ SetError(Post(playerThread, playerQ, Task("OnError")))
  /\ UNCHANGED <<clientVars, seekId, playerThread, playerPc, readerThread,
                 readerTimer, filePos, atEnd, refused, inflight, decoderVars,
                 queueVars, fault>>

Reading == Runs(readerThread, readerQ, "FirstRead") \/ Runs(readerThread, readerQ, "ReadPacket")

\* Mutant: InitReaderIfNeed gives up on a file it could not open
InitAfterFailure == IF reader = "failed" THEN "ready" ELSE "initReaderDone"

\* What InitInternal does after the first ReadPacket, whatever became of the reader
InitAfterFirstRead == "initReaderDone"

\* The end of ReadPacket: whether it posts itself "now", "later" (10 ms) or not at
\* all; the first ReadPacket is inside the BlockingCall of InitReaderIfNeed
ReadPacketReturns(again) ==
  /\ readerQ' = IF again = "now"
                  THEN Post(readerThread, Tail(readerQ), ReaderTask("ReadPacket", 0))
                  ELSE Tail(readerQ)
  /\ readerTimer' = (readerTimer \/ (again = "later" /\ readerThread = "running"))
  /\ playerPc' = IF Head(readerQ).op = "FirstRead" THEN InitAfterFirstRead ELSE playerPc

ReadExit ==
  /\ Reading
  /\ inflight = NoRead
  /\ ThreadShouldExit
  /\ ReadPacketReturns("never")
  /\ UNCHANGED <<clientVars, state, seekId, playerThread, playerQ, readerThread,
                 fileVars, inflight, decoderVars, queueVars, fault>>

\* Mutant: ReadPacket reads on whatever the queues hold
MayReadAlways == seekId = readerSerial

\* Both queues are shorter than max_packet_queue_size_ms_, surely with one packet,
\* surely not at the bound; and the reader has followed the last seek
MayHold == seekId # readerSerial \/ \E s \in Streams : Len(queue[s]) >= 2
MayRead == seekId = readerSerial /\ \A s \in Streams : Len(queue[s]) < QueueBound

ReadHold ==
  /\ Reading
  /\ inflight = NoRead
  /\ ~ThreadShouldExit
  /\ MayHold
  /\ ReadPacketReturns("later")
  /\ UNCHANGED <<clientVars, state, seekId, playerThread, playerQ, readerThread,
                 fileVars, inflight, decoderVars, queueVars, fault>>

\* ReadPacket up to av_read_frame: the packet is stamped with the reader's serial
ReadFrame ==
  /\ Reading
  /\ inflight = NoRead
  /\ ~ThreadShouldExit
  /\ MayRead
  /\ \E r \in ReadResults :
       /\ inflight' = r
       /\ atEnd' = (r.res = "kEof")
  /\ UNCHANGED <<clientVars, state, seekId, playerVars, readerThread, readerQ,
                 readerTimer, reader, readerSerial, filePos, refused, decoderVars,
                 queueVars, fault>>

\* Mutant: the packet is stamped after the read, with seek_id_
StampedLate == [inflight.packet EXCEPT !.serial = seekId]

\* The rest of ReadPacket, after any step of the other threads: it pushes the packet
\* as it was stamped before the read, and announces the end of the file
Stamped == inflight.packet
IsEof(res) == res = "kEof"

HandOver ==
  /\ Reading
  /\ inflight # NoRead
  /\ inflight' = NoRead
  /\ ReadPacketReturns(IF inflight.res = "kOk" THEN "now" ELSE "later")
  /\ queue' = IF inflight.stream \in Streams
                THEN [queue EXCEPT ![inflight.stream] = Append(@, Stamped)]
                ELSE queue
  /\ eof' = (eof \/ IsEof(inflight.res))
  /\ IF inflight.res = "kError" THEN SetError(playerQ) ELSE UNCHANGED <<state, playerQ>>
  /\ UNCHANGED <<clientVars, seekId, playerThread, readerThread, fileVars,
                 decoderVars, fault>>

\* Mutant: the newest seek is the one that is dropped
IsOvertaken(n) == n # seekId

\* seek_id == seek_id_ in the task of SeekInternal: no later seek is under way
IsNewest(n) == n = seekId

\* Mutant: the serial is read again after the file was positioned
SerialOfNow(n) == seekId

\* reader_info_.serial gets the captured seek_id
SerialOf(n) == n

\* The task of SeekInternal compares its seek with the newest one ...
ReaderSeek ==
  LET n == Head(readerQ).seek IN
  /\ Runs(readerThread, readerQ, "Seek")
  /\ readerQ' = IF IsNewest(n) THEN [readerQ EXCEPT ![1] = ReaderTask("SeekTo", n)]
                ELSE Tail(readerQ)
  /\ UNCHANGED <<clientVars, state, seekId, playerVars, readerThread, readerTimer,
                 fileVars, inflight, decoderVars, queueVars, fault>>

\* ... and positions the file, whatever the player thread counted in between.  A
\* refused seek leaves the file where it is, and the serial moves on all the same.
SeekTo ==
  LET n == Head(readerQ).seek IN
  /\ Runs(readerThread, readerQ, "SeekTo")
  /\ readerQ' = Tail(readerQ)
  /\ readerSerial' = SerialOf(n)
  /\ \/ /\ reader = "open"
        /\ filePos' = n
        /\ atEnd' = FALSE
        /\ UNCHANGED refused
     \/ /\ refused' = refused \union {n}
        /\ UNCHANGED <<filePos, atEnd>>
  /\ UNCHANGED <<clientVars, state, seekId, playerVars, readerThread, readerTimer,
                 reader, inflight, decoderVars, queueVars, fault>>

UnInitReader ==
  /\ Runs(readerThread, readerQ, "UnInitReader")
  /\ readerQ' = Tail(readerQ)
  /\ playerPc' = "uninitReaderDone"
  /\ UNCHANGED <<clientVars, state, seekId, playerThread, playerQ, readerThread,
                 readerTimer, fileVars, inflight, decoderVars, queueVars, fault>>

\* Thread::Get moves a delayed task that is due to the end of the queue
ReaderTimerFires ==
  /\ readerTimer
  /\ readerThread \in {"running", "quitting"}
  /\ readerTimer' = FALSE
  /\ readerQ' = Append(readerQ, ReaderTask("ReadPacket", 0))
  /\ UNCHANGED <<clientVars, state, seekId, playerVars, readerThread, fileVars,
                 inflight, decoderVars, queueVars, fault>>

ReaderExits ==
  /\ readerThread = "quitting"
  /\ readerQ = <<>>
  /\ readerThread' = "exited"
  /\ UNCHANGED <<clientVars, state, seekId, playerVars, readerQ, readerTimer,
                 fileVars, inflight, decoderVars, queueVars, fault>>

ReaderStep ==
  \/ InitReader \/ ReadExit \/ ReadHold \/ ReadFrame \/ HandOver
  \/ ReaderSeek \/ SeekTo \/ UnInitReader \/ ReaderExits

-----------------------------------------------------------------------------
(* The decoder thread.                                                      *)

DecoderRuns(op) == Runs(decoderThread, decoderQ, op)

\* InitDecoder posts the loops in this order
PostLoops(q) ==
  LET withAudio == IF "audio" \in Streams THEN Append(q, Process("audio")) ELSE q
  IN  IF "video" \in Streams THEN Append(withAudio, Process("video")) ELSE withAudio

\* The task of InitDecoder; without an opened file there is nothing to decode
InitDecoder ==
  /\ DecoderRuns("InitDecoder")
  /\ playerPc' = "initDecoderDone"
  /\ IF reader = "open"
       THEN /\ decoderQ' = PostLoops(Tail(decoderQ))
            /\ isInit' = [s \in Streams |-> TRUE]
            /\ renderAlive' = [s \in Streams |-> TRUE]
            /\ rendering' = TRUE
       ELSE /\ decoderQ' = Tail(decoderQ)
            /\ UNCHANGED <<isInit, renderAlive, rendering>>
  /\ UNCHANGED <<clientVars, state, seekId, playerThread, playerQ, readerVars,
                 decoderThread, decoderTimer, serial, pending, codec, timerSeekId,
                 queueVars, fault>>

\* The tasks of PlayInternal and PauseInternal
SetRendering(op, on) ==
  /\ DecoderRuns(op)
  /\ decoderQ' = Tail(decoderQ)
  /\ rendering' = on
  /\ UNCHANGED <<clientVars, state, seekId, playerVars, readerVars, decoderThread,
                 decoderTimer, loopVars, renderAlive, timerSeekId, queueVars,
                 fault>>

\* The BlockingCall of SeekInternal; SetSerial asserts that the serial grows
DecoderSeek ==
  /\ DecoderRuns("Seek")
  /\ decoderQ' = Tail(decoderQ)
  /\ serial' = [s \in Streams |-> IF isInit[s] THEN seekId ELSE serial[s]]
  /\ fault' = IF \E s \in Streams : isInit[s] /\ seekId <= serial[s]
                THEN "check" ELSE fault
  /\ timerSeekId' = timerSeekId + 1
  /\ queue' = [s \in Streams |-> <<>>]
  /\ playerPc' = "seekDone"
  /\ UNCHANGED <<clientVars, state, seekId, playerThread, playerQ, readerVars,
                 decoderThread, decoderTimer, isInit, pending, codec, renderAlive,
                 rendering, eof>>

\* Mutant: audio_render_ goes in UnInitDecoder too
NoRenderLeft == [s \in Streams |-> FALSE]

\* audio_render_ outlives the decoder thread, video_render_ goes in UnInitDecoder
RendersLeft == [s \in Streams |-> s = "audio" /\ renderAlive[s]]

\* The BlockingCall of UnInitDecoder.  AudioDecodeToRender::UnInit tests its own
\* is_init_, which nothing sets, and returns: the audio loop goes on.
UnInitDecoder ==
  /\ DecoderRuns("UnInitDecoder")
  /\ decoderQ' = Tail(decoderQ)
  /\ isInit' = [s \in Streams |-> s = "audio" /\ isInit[s]]
  /\ serial' = [s \in Streams |-> IF s = "audio" THEN serial[s] ELSE 0]
  /\ renderAlive' = RendersLeft
  /\ rendering' = FALSE
  /\ playerPc' = "uninitDecoderDone"
  /\ UNCHANGED <<clientVars, state, seekId, playerThread, playerQ, readerVars,
                 decoderThread, decoderTimer, pending, codec, timerSeekId,
                 queueVars, fault>>

\* The decode loop of s is the running task, a DecodeToRender::ProcessInternal
Processes(s) == DecoderRuns("Process") /\ Head(decoderQ).stream = s

\* The end of ProcessInternal: it posts itself "now", "later" or not at all
ProcessReturns(s, again) ==
  /\ decoderQ' = IF again = "now"
                   THEN Post(decoderThread, Tail(decoderQ), Process(s))
                   ELSE Tail(decoderQ)
  /\ decoderTimer' = IF again = "later" /\ decoderThread = "running"
                       THEN decoderTimer \union {s} ELSE decoderTimer

ProcessExit(s) ==
  /\ Processes(s)
  /\ ~isInit[s]
  /\ ProcessReturns(s, "never")
  /\ UNCHANGED <<clientVars, state, seekId, playerVars, readerVars, decoderThread,
                 loopVars, renderVars, queueVars, fault>>

\* A frame, new or pending, goes to OnFrame, which keeps it pending until the render
\* takes it; a frame before start_time_ is dropped
SendFrame(s) ==
  /\ Processes(s)
  /\ isInit[s]
  /\ \/ pending[s] /\ UNCHANGED codec
     \/ ~pending[s] /\ codec[s] = "holding" /\ \E c \in {"holding", "empty"} :
                                                  codec' = [codec EXCEPT ![s] = c]
     \/ ~pending[s] /\ codec[s] = "draining" /\ UNCHANGED codec
  /\ \E wait \in BOOLEAN :
       /\ pending' = [pending EXCEPT ![s] = wait]
       /\ ProcessReturns(s, IF wait THEN "later" ELSE "now")
  /\ fault' = IF renderAlive[s] THEN fault ELSE "dangling"
  /\ UNCHANGED <<clientVars, state, seekId, playerVars, readerVars, decoderThread,
                 isInit, serial, renderVars, queueVars>>

\* Receive asks for a packet: GetAudioPacket and GetVideoPacket go through reader_
AsksForPacket(s) ==
  /\ Processes(s)
  /\ isInit[s]
  /\ ~pending[s]
  /\ codec[s] = "empty"
  /\ fault' = IF reader = "none" THEN "dangling"
              ELSE IF queue[s] # <<>> /\ Head(queue[s]).serial > serial[s] THEN "check"
              ELSE fault

\* GetPacket drops a packet of an earlier serial; GetAudioPacket drops what ends
\* before start_time_, which may be any packet here
DropPacket(s) ==
  /\ AsksForPacket(s)
  /\ queue[s] # <<>>
  /\ s = "audio" \/ Head(queue[s]).serial # serial[s]
  /\ queue' = [queue EXCEPT ![s] = Tail(@)]
  /\ UNCHANGED <<clientVars, state, seekId, playerVars, readerVars, threadVars,
                 loopVars, renderVars, eof>>

\* The packet goes to the codec, which may then have a frame or want another packet
SendPacket(s) ==
  /\ AsksForPacket(s)
  /\ queue[s] # <<>>
  /\ Head(queue[s]).serial = serial[s]
  /\ queue' = [queue EXCEPT ![s] = Tail(@)]
  /\ \E c \in {"holding", "empty"} : codec' = [codec EXCEPT ![s] = c]
  /\ UNCHANGED <<clientVars, state, seekId, playerVars, readerVars, threadVars,
                 isInit, serial, pending, renderVars, eof>>

\* The codec refuses the packet: on_error, and the loop ends
CodecError(s) ==
  /\ AsksForPacket(s)
  /\ queue[s] # <<>>
  /\ Head(queue[s]).serial = serial[s]
  /\ queue' = [queue EXCEPT ![s] = Tail(@)]
  /\ SetError(playerQ)
  /\ ProcessReturns(s, "never")
  /\ UNCHANGED <<clientVars, seekId, playerThread, playerPc, readerVars,
                 decoderThread, loopVars, renderVars, eof>>

NoPacketYet(s) ==
  /\ AsksForPacket(s)
  /\ queue[s] = <<>>
  /\ ~eof
  /\ ProcessReturns(s, "later")
  /\ UNCHANGED <<clientVars, state, seekId, playerVars, readerVars, decoderThread,
                 loopVars, renderVars, queueVars>>

\* kEof: the null packet starts to drain the codec
Drain(s) ==
  /\ AsksForPacket(s)
  /\ queue[s] = <<>>
  /\ eof
  /\ codec' = [codec EXCEPT ![s] = "draining"]
  /\ UNCHANGED <<clientVars, state, seekId, playerVars, readerVars, threadVars,
                 isInit, serial, pending, renderVars, queueVars>>

\* The codec is drained: on_completed on this thread, and the loop ends for good
Completed(s) ==
  /\ Processes(s)
  /\ isInit[s]
  /\ ~pending[s]
  /\ codec[s] = "draining"
  /\ ProcessReturns(s, "never")
  /\ UNCHANGED <<clientVars, state, seekId, playerVars, readerVars, decoderThread,
                 loopVars, renderVars, queueVars, fault>>

DecoderTimerFires(s) ==
  /\ s \in decoderTimer
  /\ decoderThread \in {"running", "quitting"}
  /\ decoderTimer' = decoderTimer \ {s}
  /\ decoderQ' = Append(decoderQ, Process(s))
  /\ UNCHANGED <<clientVars, state, seekId, playerVars, readerVars, decoderThread,
                 loopVars, renderVars, queueVars, fault>>

DecoderExits ==
  /\ decoderThread = "quitting"
  /\ decoderQ = <<>>
  /\ decoderThread' = "exited"
  /\ UNCHANGED <<clientVars, state, seekId, playerVars, readerVars, decoderQ,
                 decoderTimer, loopVars, renderVars, queueVars, fault>>

ProcessInternal(s) ==
  \/ ProcessExit(s) \/ SendFrame(s)
  \/ DropPacket(s) \/ SendPacket(s) \/ CodecError(s) \/ NoPacketYet(s)
  \/ Drain(s) \/ Completed(s)

DecoderStep ==
  \/ InitDecoder
  \/ SetRendering("Play", TRUE)
  \/ SetRendering("Pause", FALSE)
  \/ DecoderSeek
  \/ UnInitDecoder
  \/ \E s \in Streams : ProcessInternal(s)
  \/ DecoderExits

-----------------------------------------------------------------------------

\* The program ended: released, or past a step it does not survive
Ended == (clientPc = "released" \/ fault # "none") /\ UNCHANGED vars

Next ==
  \/ /\ fault = "none"
     /\ \/ Client
        \/ PlayerStep
        \/ ReaderStep
        \/ ReaderTimerFires
        \/ DecoderStep
        \/ \E s \in Streams : DecoderTimerFires(s)
  \/ Ended

Spec == Init /\ [][Next]_vars

\* rtc::Thread runs its tasks and fires its delayed tasks; a client that called
\* UnInit waits inside it.  Nothing makes the client call anything.
Fairness ==
  /\ WF_vars(fault = "none" /\ PlayerStep)
  /\ WF_vars(fault = "none" /\ ReaderStep)
  /\ WF_vars(fault = "none" /\ DecoderStep)
  /\ WF_vars(fault = "none" /\ ReaderTimerFires)
  /\ \A s \in Streams : WF_vars(fault = "none" /\ DecoderTimerFires(s))
  /\ WF_vars(fault = "none" /\ (StopPlayer \/ JoinPlayer))

FairSpec == Spec /\ Fairness

-----------------------------------------------------------------------------
(* Properties.                                                              *)

Threads == {"null", "running", "quitting", "exited"}

PlayerPcs ==
  {"ready", "initReader", "initReaderDone", "initDecoder", "initDecoderDone",
   "play", "played", "paused", "seek", "seekDone", "uninitDecoder", "uninitDecoderDone", "joinDecoder",
   "uninitReader", "uninitReaderDone", "joinReader"}

Packets == [serial : Nat, origin : Nat]

Reads == [res : {"none", "kOk", "kEof", "kEAgain", "kError"},
          stream : Streams \union {"none"},
          packet : Packets]

ClientTypes ==
  /\ clientPc \in {"new", "using", "uninit", "stop", "join", "released"}
  /\ calls \in 0 .. MaxCalls

PlayerTypes ==
  /\ state \in States
  /\ seekId \in Nat
  /\ playerThread \in Threads
  /\ playerQ \in Seq(PlayerTasks)
  /\ playerPc \in PlayerPcs

ReaderTypes ==
  /\ readerThread \in Threads
  /\ readerQ \in Seq(ReaderTasks)
  /\ readerTimer \in BOOLEAN
  /\ reader \in {"none", "open", "failed"}
  /\ readerSerial \in Nat
  /\ filePos \in Nat
  /\ atEnd \in BOOLEAN
  /\ refused \subseteq Nat
  /\ inflight \in Reads

DecoderTypes ==
  /\ decoderThread \in Threads
  /\ decoderQ \in Seq(DecoderTasks)
  /\ decoderTimer \in SUBSET Streams
  /\ isInit \in [Streams -> BOOLEAN]
  /\ serial \in [Streams -> Nat]
  /\ pending \in [Streams -> BOOLEAN]
  /\ codec \in [Streams -> {"empty", "holding", "draining"}]
  /\ renderAlive \in [Streams -> BOOLEAN]
  /\ rendering \in BOOLEAN
  /\ timerSeekId \in Nat

QueueTypes ==
  /\ queue \in [Streams -> Seq(Packets)]
  /\ \A s \in Streams : Len(queue[s]) <= QueueBound
  /\ eof \in BOOLEAN

FaultTypes == fault \in {"none", "null", "check", "dangling"}

\* Every variable has its type, and the reader's back-pressure bounds the queues.
TypeOK ==
  /\ ClientTypes /\ PlayerTypes /\ ReaderTypes /\ DecoderTypes /\ QueueTypes
  /\ FaultTypes

\* RTC_CHECK_LT of DecodeToRender::GetPacket, RTC_DCHECK_GT of SetSerial and
\* RTC_DCHECK of UnInitInternal hold: whatever the reader thread pushes while a
\* seek is between the threads, no packet is ahead of its decode loop.
ChecksHold == fault # "check"

\* No decode loop uses reader_, or a render, after it was destroyed: the order in
\* which UnInit stops the threads is enough.
NoDanglingAccess == fault # "dangling"

\* Only a config that Init refused leaves the null decoder_task_queue_ a later call
\* may go through: with a valid one no call in any order does, also when the reader
\* could not open the file.
NullOnlyAfterInvalidConfig ==
  fault = "null" => reader = "none" /\ state \in {"kError", "kEnded"}

\* What a decode loop will accept was read from the file after the newest seek that
\* loop and the clock were told of: no packet of an earlier position is decoded,
\* also when it was read before a seek and pushed after Clear.  Only a seek that the
\* file refused is played from the earlier position.
AcceptedPacketsAreCurrent ==
  \A s \in Streams : isInit[s] =>
    \A i \in DOMAIN queue[s] :
      queue[s][i].serial = serial[s] =>
        queue[s][i].origin = timerSeekId \/ timerSeekId \in refused

\* Once the decoder thread has caught up with the calls, the renders play whenever
\* the player is kPlaying, and stand still whenever it is kPaused but for the steps
\* inside PlayInternal and PauseInternal where the state lags behind the renders or
\* runs ahead of them: SetError between those steps leaves no other difference.
RenderingFollowsState ==
  (\A i \in DOMAIN decoderQ : decoderQ[i].op \notin {"Play", "Pause"}) =>
    /\ state = "kPlaying" \/ playerPc = "played" => rendering
    /\ state = "kPaused" /\ playerPc \notin {"played", "paused"} => ~rendering

\* When UnInit has returned no thread of the player is left and no callback is
\* pending, so the client may destroy the callback and the window.
ReleasedIsQuiet ==
  clientPc = "released" =>
    /\ playerThread = "exited" /\ playerQ = <<>>
    /\ readerThread = "null" /\ decoderThread = "null"

\* The newest seek is in the hands of the player thread or in the reader's queue
SeekOps == {"Seek", "SeekTo"}
NewestIsOnItsWay ==
  \/ playerPc \in {"seek", "seekDone"}
  \/ \E i \in DOMAIN readerQ : readerQ[i].op \in SeekOps /\ readerQ[i].seek = seekId

\* The reader only ever goes forward, with the file where its serial says, and is
\* never left on an overtaken seek: one that passed the check before the player
\* thread counted the next may still move it, and then the newest is on its way.
ReaderFollowsTheNewestSeek ==
  /\ [](readerSerial = seekId \/ NewestIsOnItsWay)
  /\ [][<<filePos, readerSerial>>' # <<filePos, readerSerial>> =>
          readerSerial' > readerSerial /\ filePos' \in {filePos, readerSerial'}]_vars

\* UnInit returns, whatever the loops, the reader and the earlier calls are doing, but
\* for the call through a null task queue that a refused config leaves behind.
UnInitReturns == clientPc = "uninit" ~> clientPc = "released" \/ fault = "null"

\* The last seek reaches the reader, unless the player stops first: the reader does
\* not go on holding packets back for a seek that was dropped.
SeekReachesReader ==
  []<>(readerSerial = seekId \/ ThreadShouldExit \/ fault # "none")

=============================================================================
