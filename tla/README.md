# A TLA+ development of media_demo

media_demo is a media player in C++: it reads a file with ffmpeg, decodes audio and
video on threads of their own, and renders them against a clock. Besides the player
it holds the audio plumbing that a player or a call needs: a mixer, a wrapper of the
platform's audio device, ring buffers, file sinks and sources, a resampler.

The program's own code is `src/src/player`, `src/src/core` and `src/src/util`, about
10,000 lines; `src/src/webrtc` is WebRTC's `rtc_base` and its audio processing
(vendored), `src/examples` the programs that drive the library.

All paths in this file are relative to the repository, whose root is `src/`; line
numbers are of the commit that the modules were written from.

## 1. The system

### Components

| Component | Code | State | Operations |
|---|---|---|---|
| player | `src/player/player_impl.{h,cc}` | `player_info_.state`, `seek_id_`, three threads, `reader_info_`, the decode loops, the renders | Init, Play, Pause, Seek, UnInit, and the tasks they post |
| decode loop | `src/player/decode_to_render.{h,cc}`, `audio_`, `video_decode_to_render` | `is_init_`, `serial_`, a frame that waits, a codec | Process, which posts itself until the end |
| packet queue | `src/player/packet_queue.{h,cc}`, `av_packet_queue` | a ring of packets, three indices, `is_eof_` | PushPacket, GetPacket, SetEof, Clear, GetDuration |
| reader, decoder | `src/core/codec/` | an ffmpeg context each | ReadPacket, SeekTo; Receive, Flush |
| clock | `src/player/player_timer.{h,cc}` | time and pts of the last update, `seek_id_`, whether it is paused | SetAudioCurrentTime, SetVideoCurrentTime, SeekTo, Pause, Resume, GetCurrentMainTime |
| audio render | `src/player/audio_render_impl.{h,cc}` | a ring of decoded audio, watermark, whether it plays | SendFrame, Flush, Play, Pause, the device's Read |
| ring buffer | `src/util/ring_buffer_wrapper.{h,cc}`, `src/webrtc/common_audio/ring_buffer.c` | bytes, two positions, a wrap flag | BufferWrite, BufferRead, BufferSeek, AdjustCapacity, Clear |
| audio ring buffer | `src/core/audio/audio_ring_buffer_io_impl.{h,cc}`, `audio_buffer_common_reader` | a ring per plane, waiting reads and writes, a signed count of samples to skip or zeros to insert | Read, Write and their blocking forms, Discard, FillZeroFront, Cancel, Reset, WriteCompletion, ResetUseableCapacity |
| audio mixer | `src/core/audio/audio_mixer_impl.{h,cc}` | a map of sources | AddSource, RemoveSource, MixFrame |
| audio device | `src/core/audio/audio_device_wrapper_impl.{h,cc}` | lists of sinks and subscribers under a shared lock, the mixer, a signal thread | Add, Remove and Subscribe; starts and stops on the signal thread; the device's callbacks |
| callback registry | `src/util/callback_register_template.h` | a list of pointers whose places are reused | RegisterCallback, UnRegisterCallback, GetCallbackList |
| audio files | `src/core/audio/file` | a file with a header, its length and position, zeros to come first | Write, WriteCompletion; Read, Discard, FillZeroFront, SetCyclicMode |
| threads | `src/webrtc/rtc_base/thread.{h,cc}`, `null_socket_server.cc` | a FIFO of tasks, a heap of delayed ones, an event, `stop_` | PostTask, PostDelayedTask, BlockingCall, the loop, Quit, Join, the destructor |
| resampler, formats, video | `resample_io`, `audio_format_*`, `src/core/video_*` | buffers | sequential |

### How they interact

A call of the API becomes a task of the *player thread*. `Init` creates a *reader
thread* and a *decoder thread* and waits, with `BlockingCall`, for each to set itself
up. From then on the reader posts `ReadPacket` to itself: it reads a packet from the
file, stamps it with `reader_info_.serial` and pushes it to the queue of its stream.
Each stream has a decode loop that posts itself on the decoder thread: it takes a
packet, hands it to the codec, and hands the frames it gets to its render, which may
ask it to come again later.

A seek crosses all of them. The player thread takes the next `seek_id_`, tells the
decode loops and the clock and clears the queues in a blocking call of the decoder
thread, and then posts the seek of the file to the reader, which compares its number
with `seek_id_` once it runs, and then moves the file. Meanwhile the reader may be inside
`av_read_frame` with a packet of the earlier position, and the player thread may count the next
seek at any time.

`SetError` may run on any of the three threads: it writes the player's state and posts
`OnError` to the player thread.

`UnInit` blocks the client on the player thread, which blocks on the decoder thread,
joins it, destroys the loops and the renders, blocks on the reader thread, joins it and
destroys the reader; then the client joins the player thread.

Sound goes on from the decode loop: `SendFrame` writes it to the ring of the audio render if
there is room, the render is a source of the mixer, and the device's playout thread mixes
what its sources have. The device itself is started and stopped by tasks that adding and
removing a source, or a sink of the capture, post to the *signal thread*; the mixer posts one
too when a callback finds nothing left to mix.

### What makes it hard

* *Seeks against reads*: packets, queues, loops and the clock belong to different
  threads, and each learns of a seek at its own time. Serials alone decide what is
  decoded. `GetPacket` aborts the program (`RTC_CHECK_LT`) if a packet is ever ahead of
  its loop.
* *Teardown*: loops and reads post themselves; whatever is still queued when an object
  goes must not touch it.
* *Blocking calls in a chain*: client, player, decoder and reader wait for each other.
* *Failure in the middle of Init*: a refused config leaves threads null; a file that does
  not open is reported, and Init goes on.
* *The state that two threads write*: `PlayInternal` asks for it, posts the switch of the renders
  and sets it in three steps, and `SetError` writes it on another thread in between.
* *The ring that grows*: growth keeps every packet at its index, wherever `read_index_` is.
* *The end of the file*: announced while packets are queued, sticky across a seek.
* *What is under way when a seek comes*: packets in the reader's hands, frames inside the
  codec, one that waits for room, sound in the ring: each is dropped, flushed or let through
  by a rule of its own.
* *Stops against starts*: whether the device may stop is asked in one step and done in a
  later one, on a thread that the clients do not wait for.
* *A lock held across a join*: the stop of the recording waits for a thread that asks for
  the lock.
* *A clock that is asked*: the pause stops it when somebody asks for the time, sound sets it
  behind the write, pictures sleep for a time that they took from it once.
* *A wake-up without the lock*: a thread's loop looks at its queues, at `stop_` and at its event
  one after the other, and tasks are posted in between.
* *A header that is written twice*: a file may be opened, and its writer may die, before,
  between and behind.

PROJECT.json lists each of these at its line, with the properties that watch it.

### What makes each component correct

* Player: no packet from before a seek is decoded after it; the reader only goes forward through
  the seeks and comes to the newest; no loop uses what was destroyed; UnInit returns, and leaves
  nothing running; once the switches are served the renders run exactly when the player says it
  plays; completion is never early.
* Packet queue: packets come out once and in order; none is lost, which does not hold when it
  grows (section 5); the duration it reports is that of what it holds; no read meets a slot
  without a packet.
* Decode loop and audio render: the frames behind the target are written once and in order, and
  all of them but those of packets that the queue lost; sound that was not heard is never
  overwritten; the sound starts; the end comes last.
* Clock: a frame from before a seek does not set it; it goes with what is heard; who is left
  alone loses no picture, and a pause keeps the place.
* Threads: tasks run once, in the order of posting or of their time, none is forgotten while the
  thread is not told to quit, and no blocking call is left waiting; those that are ready when it is
  told to quit still run, which does not hold for one that was just posted (section 5).
* Audio files: what a source takes for sound is on disk; it stays where reads, discards and
  zeros say, and in whole frames.
* Ring buffer: what is read is what was written, in order; a blocked call is woken once it
  can go on, or was cancelled.
* Mixer and device: a source leaves only when it finished or a client asked, and then it
  does; nobody who wants the device is left with one that stands still, an idle one is
  stopped, and nobody waits for ever.

## 2. The modules

| Module | What it is |
|---|---|
| `PacketFifo` | what a packet queue promises: a FIFO with an end |
| `PacketQueue` | the ring of `packet_queue.cc`, with the refinement of `PacketFifo` |
| `MCPacketQueue` | its instance for TLC |
| `PacketQueueProofs` | its inductive invariant and the refinement, proved |
| `Player` | the client, the player, reader and decoder threads, and everything they share |
| `PlayerInv` | the inductive invariant of `Player` |
| `PlayerProofs` | its proof; and where packets come from, which seeks the reader follows, what the renders do and what `UnInit` leaves, proved |
| `ByteFifo` | what a byte ring promises: a queue that overwrites its oldest bytes when full |
| `RingBuffer` | `ring_buffer_wrapper.cc` over WebRTC's `ring_buffer.c`, with the refinement of `ByteFifo` |
| `AudioRingBuffer` | the buffer of samples with blocking reads and writes, over the operators of `ByteFifo` |
| `AudioRingBufferProofs` | that its samples are accounted for, its waits are woken, a write that waited overwrites nothing, and that `RingBuffer` implements `ByteFifo`, proved |
| `AudioDevice` | the clients, the signal thread and the device's threads around the wrapper, the mixer and the registry |
| `AudioDeviceProofs` | that no source or sink is left behind, proved |
| `Playback` | the data of the player: packets, codec, frames, the render's ring and the clock, through seeks |
| `PlaybackProofs` | that frames come in order and to the end, nothing is overwritten, and the clock follows the seek, proved |
| `VideoSync` | both decode loops, the clock and the device in time |
| `VideoSyncProofs` | that the clock goes with what is heard, who is left alone loses no picture, and the first pause keeps the place and costs few pictures, proved |
| `TaskQueue` | what a thread promises those who post to it |
| `TaskThread` | the loop of `rtc::Thread` and the calls around it, with the refinement of `TaskQueue` |
| `TaskThreadProofs` | that every step of a thread is one of its queue, which tasks it leaves, and which blocking calls return unserved, proved |
| `AudioFile` | a sound file between the writer that makes it and a source that plays it |
| `AudioFileProofs` | that a source never takes for sound what is not on disk, keeps its place and whole frames, and fills a buffer in cyclic mode, proved |

`Player`, `Playback` and `VideoSync` are three views of one program. `Player` has every task,
thread and call, and no data: it shows who may do what when. `Playback` has one audio loop and
the data, and takes from `Player` that a seek is a step of the player thread, a step between two
tasks of the decoder thread, and two steps of the reader, a check and a move; its queue of
packets is the ring of `PacketQueue`, by what it holds and what it loses. `VideoSync` has both
loops and time, and takes from `Playback` that each is given the frames of its stream in order.
What all three count on when they post a task is `TaskQueue`, which `TaskThread` implements.

### PacketQueue

The variables are the members (`read` is `read_index_`, `last` is
`last_writed_index_`, and so on), with -1 for "none" as in the code; `slots` maps an
index to its packet, or to `NoPacket` for a slot that was moved out of. Each operation
of `AvPacketQueue` runs under its mutex and is one action. `PushPacket` includes
`ReSizeQueue`; `GetPacket` its branch behind `RTC_DCHECK(false)`. A packet is its dts,
and the n-th packet pushed is n: what is pushed only matters for order and duration.

`Items` is the queue that the indices describe, and the refinement mapping of
`Fifo == INSTANCE PacketFifo WITH items <- Items`.

The ring is a FIFO only as long as it grows with `read_index_` at 0 (`AlignedSpec`):
`ReSizeQueue` appends the new slots behind the last index, and when `read_index_` is
inside the ring the next write after the new slots wraps around to index 0, which the
oldest packets may still occupy. `Spec` is the code as it is, `AlignedSpec` the behaviours in
which the refinement holds. What survives in both is that packets come out once and in
increasing order (some may be missing) and that the indices stay consistent.

### Player

Each thread is a state (`"null"`, `"running"`, `"quitting"`, `"exited"`), a FIFO of tasks and a
set of delayed ones. A task stays at the head of its queue until its last step, so that
"this thread runs this task" is a predicate of the queue (`Runs`). A blocking call of the
player thread is a task in the callee's queue and a value of `playerPc`; the callee's last
step moves `playerPc` on, which is the `Event` the caller waits for. A task is split
into steps where another thread can see the difference:

* around a blocking call, and between `Quit` and `Join`;
* between `GetState`, `PostTask` and `SetState`, each under a lock of its own: `PlayInternal`,
  `PostPlay` and `SetPlaying`; `PauseInternal` and `PostPause`. `SetError` may come between them,
  and the decoder thread run the switch;
* between `av_read_frame` and the push of the packet that it returned (`ReadFrame`, `HandOver`);
* in the reader's task of a seek, between the look at `seek_id_` and the seek of the file
  (`ReaderSeek`, `SeekTo`): the player thread counts the next seek without a lock. `SeekTo` sets
  the file and the serial in one step, since both are the reader thread's own.

One pass of a decode loop is one step per trip around `Receive`'s loop.

What the file contains, what the codec answers, when a frame is due and whether a render
takes it are choices. Time is abstracted: the reader's back-pressure by duration is the
choice between `MayRead` and `MayHold`, which overlap, and a delayed task fires at any
time after it was posted.

`fault` records the first step that the program does not survive: `"check"` an assertion,
`"dangling"` an access to a destroyed object, `"null"` a call through a null pointer. Steps
go on only while it is `"none"`, so that the invariants on it are the claim that the code's
order of things is enough.

`origin` is a history: the number of the seek that positioned the file when a packet was
read. The code has no such member; the serial it stamps is what must agree with it.

Some of what the model says may surprise, and is what the code does:

* `AudioDecodeToRender::UnInit` tests its own `is_init_`, a member that shadows the base
  class's and that nothing sets: it returns at once, and the audio loop goes on until the
  join of its thread. It is the order of destruction that saves it (`NoDanglingAccess`).
* `PauseInternal` posts the pause whether or not the state could change. `PlayInternal` posts the
  switch before it sets the state, so the state lags behind the renders there, and runs ahead
  of them in `PauseInternal`; if `SetError` comes between, the renders are switched and the state
  is `kError`. `RenderingFollowsState` excepts the two windows and nothing else.
* A seek that passed its check may still move the reader when the next one was counted. The
  reader is behind `seek_id_` then and reads nothing, and the next seek is on its way: this is what
  `ReaderFollowsTheNewestSeek` says, and why `AcceptedPacketsAreCurrent` holds all the same.
* Init of a file that cannot be opened reports an error and creates the decoder thread
  all the same, without loops. This is why a later call finds its thread; only a refused
  config leaves it null.
* Nobody reads the result of the seek of the file: after a refused one the old position is
  played under the new serial (`refused`).
* Nothing leads to `kCompleted`: `OnCompleted` is called by the loop, and the state stays.

### RingBuffer and ByteFifo

The positions, the wrap flag and the size are those of `ring_buffer.c`; `BufferWrite`
includes the growth that precedes it and the read that makes room in a ring that does not
grow. `Items` is what the positions describe. `AdjustCapacity` is translated with its
mistake: in a full ring that wraps, the two positions are equal, the first of the two
pieces it copies comes out empty and the second one is the whole buffer from its start.
`AlignedSpec` leaves out exactly those calls (`FullInside`), and there `Items` is the queue of
`ByteFifo`.

### AudioRingBuffer

Each call is a critical section of `mutex_` and one action. A blocking call that waits
becomes two: `BlockingRead` records what it waits for, as `waiting_read_size_` does, and
`WakeReader` is everything behind the return of `cv_reader_.wait`. A condition variable may
return for no reason, so `WakeReader` is always possible while the reader waits; `notified`
only says that a notification is under way. There is one blocking reader and one blocking
writer, for which the two `waiting_` members have room.

Samples are numbered in the order in which they were handed to a write. `head` counts those
that were delivered, discarded or overwritten; with it, "nothing is lost, repeated or
reordered" is `EverySampleIsAccountedFor`. The model keeps the code's units: free space and
readable size are totals over the planes where the code's are, and sizes of one plane where
the code's are, which is where the two disagree.

The contents of a ring are `ByteFifo`'s. So `ResetUseableCapacity` leaves out the growth of a
full ring, which need not come out as a queue (`FullInside` of `RingBuffer`).

`transfer` singles out the behaviours in which nobody but a thread that writes everything and one
that reads everything, both blocking, use the buffer, as `TestBlockReadAndWrite` of the unit
test has it. Only of those can it be said that all arrives (`TransferCompletes`).

### AudioDevice

A client's call is two steps or three: it changes a list, waiting for the lock if the list
needs one, and then posts its task; `clientPc` is what it has still to do. The signal
thread runs one task at a time, the head of `tasks`, in the steps of `signalPc`: a start with
its notifications, a stop with the question that comes before it. The device's playout and
capture threads are each in their callback or not.

`shared_mutex_` is not a variable. All but one of its sections are a single step; the one that
lasts is `CheckIfStopRecording`, which shares the lock while `StopRecording` joins the capture
thread. So an exclusive section needs that task to be over (`MayExclude`), and a shared one may
have to wait for a writer that waits (`MayShare`). Which it is depends on the library: glibc's
`std::shared_mutex` lets readers pass (`ReadersFirst`), that of libc++, the library of the
platforms that `build_script/build_mac.sh` and `build_android.sh` build for, keeps them out
while a writer waits. The runs have `ReadersFirst = FALSE`; the proofs are of both.

With such a lock the program locks up: the stop waits for the capture thread, the capture thread
for the client that wants to add a sink or to subscribe, the client for the stop, which has its
share of the lock (`LockedUp`). The signal thread and that client never go on. No line of the
repository says that this does not happen, so it is no run of its own; the three liveness
properties except it, and `NobodyWaitsForEver` says that it is the only way in which anybody waits
for ever. With `ReadersFirst = TRUE` the circle does not exist.

`silent` is why the device does not run though it was asked to: it refused to start, which
nobody repeats, or its recording was stopped. That stop counts the list of the recording's
*subscribers* (`audio_device_wrapper_impl.cc:289`) instead of its sinks, so one client's
`RemoveRecordSink` may stop the recording of another, and, since places in the list are
never given up, does so only while nobody has ever subscribed.

`MixFrame` removes for each source at its end the first source of the map, which is some
source. The model takes any for the first, since the order is that of pointers.

### Playback

The unit of sound is what one callback of the device reads. A packet is its place in the file
and the serial it was stamped with; a frame its number, packet and the two serials: `of`, of
the packet it came from, and `serial`, which the loop gives it (`newest_packet_serial_`). The
codec is a queue that keeps `holds` frames back until it is drained. A seek's target is where
a packet begins, and the file goes anywhere up to it, or nowhere.

The packets wait in the ring of `packet_queue.cc`: `queue` is what it will give, in the slots from
`front`, of `size`. A full ring grows by `ReSizeQueue`, and then what had wrapped in front of
`read_index_` is not read any more (`Pushes`); the history `lost` has those packets. The code begins
with ten slots, and a queue of a second of sound is longer, so this happens there too.
`av_read_frame` may fail, which ends the reading (`broken`), as a codec that refuses a packet ends
the loop (`"failed"`).

From `loop = "posted"` back to it is one task of the decoder thread, which the other threads may
interleave. The reader's task of a seek is two steps, the look at `seek_id_` and the move
(`ReaderChecks`, `ReaderSeeks`). `SeekInternal` raises `seek_id_` and `start_time_` before its
blocking call: the reader stops, and `GetAudioPacket`, which reads `start_time_` without a lock,
already drops what ends before the new target. The render's check for room, its write and its
look at the watermark are three steps, since the device reads in between; so are the device's
look at the flags and its read. `from` and `late` are histories: where the reader went on after
the newest seek, and whether the end was already in sight when a seek came.

What the model says that may surprise:

* Frames are missing behind a growth of the packet queue, and the sound goes on behind the gap
  as if nothing were missing: this is why `FramesComeInOrder` excepts `FrameLost`, and nothing
  else. Without the exception TLC refutes it: with two slots, a packet of an earlier position is
  dropped, 1 and 2 fill the ring, 3 makes it grow, and the frame of 3 follows that of 1.
* The codec is flushed when `GetPacket` itself dropped a stale packet. If `Clear` emptied the
  queue, or the leftovers ended before the target and `GetAudioPacket` dropped them, the codec
  keeps frames from before the seek. They come out with the serial of the newest packet, and
  the clock takes them for the new position: `ClockFollowsSeek` holds of codecs that keep
  nothing back.
* A frame from before the seek that waits for room, or is inside the codec, is written if its
  pts is not before the target.
* `is_eof_` and the drain are never taken back: once the end was announced, a seek back
  plays what happens to be queued and completes (`late`); a completed loop stays where it is.
* What is drained at the end is stamped 0 when the queue was empty, and no longer moves the
  clock after a seek.
* The sound starts at the watermark, and a frame needs its own length and a millisecond of
  room. Unless `FrameSize <= Capacity - Watermark` the ring may fill up below the watermark,
  and then the decoder waits for the device and the device for the decoder
  (`StartsToPlay`). With the code's 200 ms and a device of 20 ms, frames of 32 ms do that: six
  are 192 ms, and a seventh needs 33 of 220.
* A file shorter than the watermark is never heard.

### VideoSync

A tick is the unit of time and of sound: the device plays one unit in each, while the render
plays, the watermark was reached and the ring holds some. `due` is when the posted task of a
loop runs, `frame` the frame that `last_av_frame_pending_` says is tried again. A task that is
due runs up to `Lag` ticks late. `GetCurrentMainTime` answers and changes its own members, so it
is two operators, `Time` and `AskedAt`; every place where the code asks has both.

`exact` is a history: nothing came between the last update of the clock and now but sound. Then
the clock must be right, up to the frame that set it: `SetAudioCurrentTime` gets the pts of the
frame's start and a delay that counts its length, so the clock stands one frame behind what is
heard (`ClockShowsTheSound`). `place` is what the clock showed when the last pause came.

What the model says that may surprise:

* A paused clock stops when somebody asks it. With sound both loops ask often enough: what is
  refused or waits is tried again, so the pause costs only the pictures that fit between two
  questions (`PauseDropsFew`), and the clock goes back at the pause at most to what the last
  sound written made of it (`PauseKeepsThePlace`). Both are about the first pause: if nobody asks
  for the time during it, because the video loop sleeps or is done, the clock goes on by the whole
  pause, and a second one begins there.
* A picture that is early waits in one piece, for a time taken from the clock once. After a seek
  forward the video loop may look before the sound does, and then sleeps for the whole
  distance; after a seek back a picture from before it waits until the clock has come there.
  In both cases only the pictures are late: `LeftAloneShowsAll` is about a player without seeks.
* `PlayerTimer::type_` is `kAudio` whatever the file holds. Without sound the clock starts with
  the first picture that asks and runs; but nothing sets it: a pause takes it to 0, after a seek
  back the pictures are all late and dropped, after one forward they wait.

### TaskQueue and TaskThread

`TaskQueue` is what the program counts on: tasks run once and one at a time, those to run at
once in the order of their posting, delayed ones not before their time and in the order of their
times; and a queue ends only when it was told to quit and found nothing to run at once behind its
last task (`looked`), so that what it drops is delayed or was posted since. A task is a number that
is above those of the tasks that are there, so the order of posting is that of the numbers, and what
waits is two sets. The mapping of `TaskThread` has `looked` where the loop has found nothing and not
yet asked for `stop_`, and takes the sets from the sequence and the heap of the code by the time of
a task alone, wherever the loop has put it.

`TaskThread` is the code: `Get` looks at the queues under the lock (`Scan`), asks `IsQuitting`
without it (`Exit`, `Wait`), and waits for the event of the `NullSocketServer` or a time-out
that it computed before. A post is three steps, `stop_`, the push under the lock, the wake-up
behind it; a blocking call a fourth and fifth, the second look at `stop_` by the post and the
wait for its task. The event stays set until somebody waits for it, which is why a wake-up
between the look and the wait is not lost. The owner tells the thread to quit, joins it and
destroys it, with what is left in the queue; a task that is destroyed ends the blocking call that
waits for it.

`ImplementsTaskQueue` is the refinement with fairness: it also says that every task runs, and
that a thread that was told to quit ends. `since` of a delayed task is when it came: a later post
with an earlier time may find that the other one was moved behind the tasks to run at once
already.

`thread.h:251` promises more: when `Quit` is called all posts that are ready, and pending
blocking calls, are delivered before `Get` returns false. This is `ReadyPostsAreDelivered`,
which TLC refutes: the loop finds its queue empty and gives up the lock, a client posts, `Quit`
is called, the loop sees `stop_` and ends, and the task is destroyed with the thread. `RanUnlessQuit` excepts a blocking call that `Quit` overtakes in this way. What the
thread's own tasks posted always runs (`OwnTasksRun`). The player's exits count on an empty
queue where nobody else posts.

### AudioFile

The sound is counted in bytes. stdio keeps what is written and passes it on whenever it likes and
in pieces of any size (`PassesOn`); a program that dies takes the rest with it (`Dies`).
`WriteCompletion` is cut where the file on disk changes: the way back to the start passes on all
sound, and the header follows. A source opens the file at any time: it measures the file in
its constructor and reads the header in another step.

`Read` includes the call of itself that goes on at the start of the file in cyclic mode,
however often. `DiscardDataSizeInByte` counts what can be skipped from the start of the
file, header included, so that close to the end it moves the position back (`astray`).

What may surprise:

* A file whose writer died has a header of no frames, and its source plays what is there, which
  may end inside a frame.
* A read that takes zeros and begins the file again moves the pointer behind the zeros twice: a
  gap of the size of the zeros stays in the middle of the buffer, and as much is written behind
  its end.
* A header that tells of more than there is, as that of a copy that was cut off, lets `Read`
  call itself without end; no writer of this program leaves one. A file that is too short for a
  header fails an `RTC_DCHECK`, one that cannot be opened is closed as a null pointer.

## 3. The runs

The largest is `video_sync`, with 5.5 million states in a little more than a minute; `playback` has
1.3 million and takes two, `player` 0.26 million and one, most of it for the liveness properties;
`audio_device` takes less than a minute, the others seconds.

| Run | Question | Bounds |
|---|---|---|
| `packet_queue` | Do indices, duration and order survive every sequence of pushes, gets, clears and growth? | a ring of 2 that grows to 4 and 8, 12 packets: growth happens twice with `read_index_` at every place |
| `packet_queue_writable` | Is `write_index_` always a place that may be written? No. | the same |
| `player` | Do the safety properties, and the invariant of the proofs, hold with every interleaving of client, player, reader and decoder; does UnInit return, and does the last seek reach the reader? | one stream, two calls between Init and UnInit, valid and refused configs, a queue that holds the reader back at 2 packets |
| `ring_buffer_fifo` | Is the byte ring a queue, when no full ring is reordered? | a ring of 3 that grows to 6 and 7 (by doubling, by the threshold and by the maximum), writes of up to 3, 8 bytes |
| `audio_ring` | Are samples accounted for, blocked calls woken, and does a blocking transfer finish? | one plane of 3, sizes 1 and 2, capacities 1 to 3, 6 samples |
| `audio_device` | Is everybody who wants the device served, is an idle one stopped, and does nobody wait for ever but in the circle of the recording's stop? | 2 clients, 2 sources, a sink, a subscriber, 3 calls, a lock that prefers writers; the mixer posts while fewer than 2 tasks are queued |
| `mixer_removal` | Does the mixer find the sources it removes? No. | the same |
| `playback` | Are frames written once and in order, behind the newest seek, by a ring that starts and never overwrites? | 3 packets of a frame, a packet queue of 2 slots that grows, 2 seeks to the first and the last packet, codecs that keep 0 or 1 frames, frames of 2 in a ring of 5 with the watermark at 3 |
| `video_sync` | Does the clock go with the sound, and what do pauses and being left alone cost? | frames of 2, a delay of 2, the watermark at 3, 11 ticks, 2 pauses or resumes, a seek of 4, a wait for packets, tasks up to a tick late, files with and without sound |
| `task_thread` | Is the loop of a thread the queue of tasks that the program counts on, and does a blocking call return? | one client and the thread's own tasks, 3 tasks, delays of 0 and 1 |
| `task_thread_quit` | Are ready posts delivered when the thread is told to quit? No. | the same |
| `audio_file` | Does a source play what is on disk, keep its place and answer in full? | frames of 2, a header of 3, 8 bytes written, 6 calls |

Why the bounds are enough. `MaxCalls` counts the calls between the first `Init` and `UnInit`, which
comes in addition. Two seeks are the least with which one overtakes another, before its check or
behind it, while a packet of an earlier position is in the reader's hands and `UnInit` tears
everything down; a `Play` and a `Pause` the least that switch the renders twice. With three calls
the safety properties hold too (1.6 million states, without the liveness properties). A
`QueueBound` of 2 is the smallest with which the reader is held back with something still to push.
The packet queue inside `Player` stays below the ten packets it is created with, so it does not
grow there; that it does is in `PacketQueue` and `Playback`, and no property of `Player` depends on
which packets are in a queue.

In `audio_ring` a capacity of 3 allows a partly filled ring whose room and content are both less
than a call asks for, and 6 samples fill it twice. A read of 2 and a write of 2 just fit a
buffer of 3; one sample more and both wait for ever, which is the bound `TransferFits` states.

In `audio_device` three calls are an add, a remove and an add, or the same of two clients at
once; a second task in the signal thread's queue is what a stop needs to be overtaken by a
start, and a bound of 3 finds no more. `TaskBound` only limits how often the mixer, which posts
one stop per callback for as long as nothing is mixed, repeats itself.

In `playback` three packets are the least of which one can end before a target and be dropped by
`GetAudioPacket`, and two seeks the least with which the leftovers of one position meet the next
seek. Two slots are the fewest that can be full with `read_index_` inside, and three packets
fill them and make them grow. A frame of 2 in a ring of 5 gets there by both even and odd
levels. The instance's watermark leaves room for one frame, so the premise of `StartsToPlay`
holds.

In `video_sync` the ring holds two frames, the sound starts with the second, and 11 ticks let it
go on, be paused, go on again and be sought while pictures are early, due and late. A refused
picture waits longer than a frame lasts, as the 100 ms of the code do. A seek of 4 is twice
what a picture may be early, in either direction.

In `task_thread` three tasks are one that runs, one that is due and one that comes in between;
with two clients, or with more time and delays up to 2, nothing else is found. In `audio_file`
the header is not whole frames long, so a position that is off by a header shows; a read of 6
goes around the shortest file three times.

Fairness. `FairSpec` of `Player` has weak fairness of each thread's next task and of its
delayed tasks: `rtc::Thread` runs what was posted, in order, and what is due. The decode
loop's fairness is that of a step that may also be a stutter inside the codec: the codec
gives finitely many frames for one packet, which ffmpeg does. The client is only assumed to
go on once it is inside `UnInit`; whether it makes a call is its own affair.
The run checks deadlock: a program that has finished, or has come to a fault, steps in place
(`Ended`), and every other state has a next one. `FairSpec` of
`AudioRingBuffer` has weak fairness of the two threads of a transfer and of their wakes behind a
notification, and none of spurious wakes: a transfer must not depend on those. Nothing is
assumed of the calls of other behaviours.

`FairSpec` of `TaskThread` has weak fairness of the steps of a call that has begun, of the loop, of
the end of a task, of the owner's steps once it began to stop the thread, and of time: these are
running threads. Whether anybody posts, and whether the owner stops the thread, is their own
affair. `FairSpec` of `TaskQueue` is the abstract promise that follows: weak fairness of
running what is there, and of the last look and the end of a queue that was told to quit.

`FairSpec` of `AudioDevice` has weak fairness of what each thread is in the middle of and of
the device's calls of `MixFrame` while it plays, which is what a device does. A stop of the
device may fail, and the code only tries again with the next task; that a stop which is
tried again and again succeeds is strong fairness of `StopPlayout`. `StopRecording` has strong
fairness because a device that joins its capture thread stops calling it. The runs have
`CHECK_DEADLOCK FALSE`: when the clients have made their calls and the device is stopped
nothing is left to do, and the circle of the recording's stop is not hidden by it, since the
liveness properties name it.

`FairSpec` of `Playback` has weak fairness of the reader, the decode loop and the device's
calls, and strong fairness of the seek's blocking call: the decode loop posts itself again
and again, and the call waits its turn in the same queue. Nothing is assumed of seeks and
of Play and Pause; below the watermark the device takes nothing, so `StartsToPlay` is up to
the reader and the decode loop alone.

## 4. The proofs

`PacketQueueProofs` proves for a ring of any size and any number of packets:

* `SpecIndexInv`: `IndexInv` is inductive as it stands; it says which slots hold packets
  (from `read` to `last` around the ring), where `write` may be, and that the branch behind
  `RTC_DCHECK(false)` of `GetPacket` is never taken.
* `SpecDuration`: the duration follows from it.
* `SpecDeliveredInOrder`: it adds that no packet is in two slots and that those of the window
  are in order (`InOrder`). Growth moves slots out of the window, so it may lose packets, but
  puts none before another.
* `AlignedImplementsFifo`: initial states map to initial states and each step of
  `AlignedSpec` to a step of `PacketFifo` or a stutter. The lemmas are on what `Items` is
  after one index moves.

`PlayerProofs` proves for one stream or both, any `MaxCalls` and any
`QueueBound` below the ten packets of a new queue, that `IInv` of
`PlayerInv` is invariant, and from it `TypeOK`, `ChecksHold`, `NoDanglingAccess` and
`NullOnlyAfterInvalidConfig`. None of these is inductive:

* `ChecksHold` is on the serial of the packet that a loop takes, but a packet is stamped by
  the reader, read from `reader_info_.serial`, which a task of the reader sets, which the
  player posted after it told the loops. So the invariant orders the serials along that
  path: a packet's at most the reader's; the reader's, and that of every seek in its queue,
  at most the newest that the loops were told of; and between the player's choice of a
  number and the end of its blocking call, the loops are one behind.
* `NoDanglingAccess` needs to know which thread waits for which: the invariant ties the value
  of `playerPc` to the task in the queue of the thread it waits for, and each stage of the
  teardown to what is already destroyed.
* `NullOnlyAfterInvalidConfig` needs which threads exist in which stage of a call.

There is one lemma per action, and the step theorem splits `Next` into them. The
assumptions are those of `Player` on its constants: the streams are audio or video or both,
`MaxCalls` is any natural number, `QueueBound` is from 2 to 9. Nothing is assumed of the
choices.

TLC checks `IInv` in the run `player`, of one stream; the proofs are of one or both.

The rest of `PlayerProofs` is on the other four safety properties of that run, under the same
assumptions. Each has an invariant of its own, which every step keeps while `IInv` holds:

* `SpecAcceptedPacketsAreCurrent`: wherever a packet is, it is from where its serial says or the
  seek of that serial was refused (`OriginInv`); and the clock and the loops count the same
  seeks (`ClockCounts`), because one task tells both.
* `SpecReaderFollowsTheNewestSeek`: the seeks in the reader's queue, the one that passed its check
  included, ascend, all above the one the reader followed (`SeeksAscend`), because the player posts
  each behind the end of its blocking call; and the reader thread takes tasks as long as there is
  a decoder thread to tell of a seek (`ReaderAlive`), so the newest is not dropped while it is
  under way. `InitReader` sets the serial too, at a time when no seek was made.
* `SpecRenderingFollowsState`: the last switch in the decoder's queue is to what the state says
  (`LastSwitch`), although a refused `Pause` is posted and `SetError` writes the state between the
  steps of `PlayInternal`; and a player that plays, or is about to say so, has a decoder thread that
  takes tasks (`SwitchInv`), or a switch would be dropped.
* `SpecReleasedIsQuiet`: `UnInit` is the last task of the client, and behind it come only the
  reports of errors, which the player thread delivers before it exits (`QuietInv`).

`AudioDeviceProofs` proves, for any clients, sources, sinks and calls and for a lock of either
kind, that `SourcesArePlayed` and `SinksAreServed` are invariant. Neither is inductive: a stop
takes two steps, and in between a source may come. The invariant adds what makes the code
right all the same: the task that runs is the head of the queue until it returns, so a start
that is posted after the question is still behind the stop (`HeadRuns`,
`StopsBeforeStart`); and a start that has come to its notifications has started or was refused.

`AudioRingBufferProofs` proves, for any capacity, sizes and number of planes, that
`EverySampleIsAccountedFor` and `NoLostWakeup` are invariant, and, of one plane, that every step
keeps `BlockingWriteKeeps`. `BufferInv` has three parts. `DataInv` adds to the accounting that
something is to be skipped only while the ring is empty, and that the useable capacity is
at most the ring's: the first makes the skip and the content one number, the second is why a
write that found room does not meet the end of the ring. `ReaderInv` and `WriterInv` say of either
side that who sleeps unnotified has to, and that a cancel is only of a call that waits. The
lemmas are on what `Dropped`, `Newest` and the writes do to a ring without gaps, and on free
space and size, which every other call only moves in the direction that makes a wait longer, or
tells the one who waits. The bound `MaxSeek` comes into none of it.

Its last section proves what `AudioRingBuffer` takes for granted: for any capacity, maximum and
growth threshold a ring that grows only when it is not `FullInside` implements `ByteFifo`
(`RingImplementsFifo`). It is on an instance of `RingBuffer` whose variables are the section's
own, under `Ring!Parameters`, which is word for word what `RingBuffer` assumes of its constants.
`RingInv` says that the positions are in the ring or at its end, that the wrap flag tells which of
them is ahead, and that the capacity is at least a write and at most the maximum; `RingInvCorrect`
has it of `Spec` as well, since the growth that reorders a full ring keeps all this and loses the
order alone. `Contents` is what is readable, by places; one lemma per operation says what it does
to it: reading and skipping drop from the front (`MovedReadContents`), a copy into at most two
pieces appends (`StoredContents`), a growth keeps it (`AdjustedContents`). The size that
`CalculatedExpansionCapacity` comes to is that of a loop, a recursive function here;
`ExpansionFits` gives it by the least size at which it could be wrong, which needs
no induction principle with an operator.

`PlaybackProofs` proves the four safety properties of `Playback`, for any file, codec and ring
of sound, any size of a new packet queue, any targets and number of seeks. `PlaybackInv` is
inductive and has six parts; each is there because a property alone is not:

* `TypeInv` says besides types which serial may be where: the reader's stamp is at most the
  loop's, the loop's is the player's or the one before it, the seek that passed its check is behind
  the stamp and not ahead of the loop, and a frame holds a place in its packet; and that the packet
  queue holds no more than its size.
* `RoomInv`, for `NothingIsOverwritten`: the room that the loop found is still there when it
  writes, since the device only makes room.
* `ClockInv`, for `ClockFollowsSeek`: what is in a codec that keeps nothing back is of the packet
  whose serial the loop took last.
* `EndInv`, for `CompletesWhenAllIsSent`: from the moment the reader is at the end, the last frame
  of the file is on its way (`LastIsOnItsWay`): in the reader's hands, the last of the queue, the
  last in the codec, the one that waits, or written; and a drain begins with an empty queue.
* `ChainInv`, for `FramesComeInOrder`: while player, loop and reader agree on the position
  (`Agreed`), the queue, the codec, the frame that waits and the last that was written are each
  in order and in front of what comes behind them (`QueueOrder`, `CodecOrder`, `FrameOrder`,
  `SentOrder`), and every frame from the last written to the next to be read is held by one of
  them or of a packet that the queue lost (`NoneMissing`). What is left of earlier positions is
  in front of the others in the codec and gone when the first of the newest is taken.
* `StaleInv`: between the seek of the loop and that of the reader the queue and the reader's hands
  have one packet at most, since the clear came between. It is why `ChainInv` begins with one
  stale packet at most.

`VideoSyncProofs` proves `ClockShowsTheSound` for any lengths, delays, watermark, lateness and
seeks. `ClockInv` adds to it that asking for the time changes nothing while the sound goes on
(`AskedIsHarmless`): the clock was set before, and a paused one in this very tick.
`LeftAloneCorrect` is `LeftAloneShowsAll` under `TasksAreInTime`: a task is late by less than a
picture may be, and by no more than a picture lasts; without it pictures are dropped, and ought to
be. `LoneInv` says that sound only sets the clock back (`ClockLeads`), so a picture that waits
for its time is behind the clock by no more than its task is late (`PictureInTime`).
`FirstPauseCorrect` is `PauseKeepsThePlace` under this and `SoundIsInTime`: a frame fits above each
level of whole frames below the watermark, without which the ring may fill up before sound
starts (section 2, Playback), and a task is late by no more than the device is behind. `SoundInv`
follows the audio loop: it set the clock a short while ago, or it waits for room and the device
will have made it when its task comes; during the pause what it writes goes on where the sound is.
The instance of the run satisfies both conditions.

`FirstPauseDropsFew` is `PauseDropsFew` under these two and two more. `RefusedOutlastsSound`: the
audio loop tries again before the wait of a refused picture is over and the picture too late.
The code waits `max(frame, 20)` ms for room (`audio_decode_to_render.cc:20`), `max(frame, 100)` ms
behind a refusal (`video_decode_to_render.cc:27`), and a picture may be 15 ms late
(`max_diff_ms_`), so it holds with room for `Lag` unless a frame of sound is longer than that. And
`VideoDur + Lag < 2 * MaxDiff`: pictures follow one another in less than twice what one may be
late, as with 60 a second. With fewer a second, one picture more may be lost: it was waiting for its
time by the clock, and sound set that forward; `FirstPauseDropsOneMore` proves, without the last
condition, that it is one at most. The proof compares three times: what the clock shows while it
runs (`RunningTime`), what the next sound would set it to (`SoundTime`), and the pictures. `Gap` is
how far the next sound would set the clock forward: in the pause and behind it, since asking takes
a paused clock back, while the ring keeps what it has. `Excess` is how late the picture will
be when its task comes, taken from the later of the two times, so time alone never makes it more.
Each picture given up takes its length off `Excess`, less what its task was late (`Net`), and
`MayBeLate` and `AreFew` hold the sum of what is still late and what was given up below the
wait of the refused picture. `BehindPause` is the time from the first pause to the second; a seek
or a wait for packets ends it. The instance of the run satisfies all four.

`TaskThreadProofs` proves `OwnTasksRun` and `RanUnlessQuit` for any posters, delays and number
of tasks. The first holds because the loop does not look at `stop_` while it finds something,
and between its look and the exit runs no task (`LooksAfterItsOwn`); the second because a task
that is done either ran or was destroyed behind `Quit` (`RanInv`).
`ThreadKeepsItsQueue` is the refinement of `TaskQueue` without its fairness, for finitely many
posters and delays: initial states map to initial states, every step to one of the queue or a
stutter. The invariant of the simulation says that what the loop has moved behind the tasks to run
at once may run in that order (`TurnInv`): of two tasks that run at once the first posted is in
front, and of two delayed ones none is in front of another that the queue would have to run
before; that the time the loop noted is one that was (`TimeInv`); that a number is left for
each call that is to come (`RoomInv`); and that only a stopped thread exits (`StopInv`).

`AudioFileProofs` proves `OpensAPrefix` for all sizes, wherever the writer dies or a source
begins to open the file. `FileInv` follows the sound from what was written over what is on disk
(`DiskFollows`) to what a source took for its length (`SourceFollows`), and `WholeFrames` is why
the division in the header loses nothing. `SpecKeepsItsPlace` rests on `Rounds`: the place of a
source is ahead of what was asked of it by whole rounds of the file; `SpecCyclicFillsTheBuffer`
on what one read answers, which is one function and not a loop, so that no induction is
needed; `SpecFramesStayWhole` on `FrameInv`: what reads, discards and zeros of whole frames
leave is a whole number of frames, also modulo a file of whole frames.

Only model-checked are:

* the liveness properties, which are out of the prover's reach: `UnInitReturns` and
  `SeekReachesReader` of `Player`, `TransferCompletes`, `SilentDeviceStops`, `EndedSourcesLeave` and
  `NobodyWaitsForEver`, `StartsToPlay`, `BlockingCallReturns`, and the fairness in
  `ImplementsTaskQueue`.

That the aligned ring implements `PacketFifo` is only proved; no run repeats it.

## 5. What was found

Each of these is a run that TLC refutes, and a finding of PROJECT.json with the line it
contradicts.

1. `PacketQueue`: a ring that grows while `read_index_` is inside it later overwrites
   packets nobody read (`WriteIndexIsWritable`).
2. `AudioDevice`: two sources that end in the same frame make the mixer remove one source
   twice, and one that ends may have another removed (`MixerFindsWhatItRemoves`).
3. `TaskThread`: a task that is ready when its thread is told to quit may be destroyed without
   having run, where `thread.h:251` says that it is delivered (`ReadyPostsAreDelivered`).

Met on the way, and part of the models without a run of their own:

* After `Init` refused its config, `Pause`, `Seek` and `UnInit` call through a null task queue
  (`player_impl.cc:116`); `NullOnlyAfterInvalidConfig` says that nothing else leads there.
* A full ring that wraps is reordered when its capacity changes (`ring_buffer_wrapper.cc:80`,
  `FullInside`); `ImplementsFifo` is about the rest.
* `SetError` writes the player's state on the reader and the decoder threads, under a lock,
  where `player_impl.h:49` says it belongs to the player thread.
* A write that is blocked when `WriteCompletion` comes is stored when its wait ends, over
  samples that were not read: the status is tested before the wait and not behind it.
* `ResetUseableCapacity` sets a capacity below what is buffered, as its header says, and
  `FreeSpaceBeforeOverwritingNoLock` asserts that this is not so (`RTC_DCHECK_GE`).
* `FillZeroFront` and `WriteCompletion` end waits by their conditions and notify nobody
  (the exceptions that `NoLostWakeup` names).
* With two planes `AudioRingBufferIo::Read` returns more than there was, and a blocking write
  waits for half the room it needs and overwrites: free space is a total over the planes,
  the size that waits one plane's. The run is of one plane.
* The stop of the recording counts the subscribers instead of the sinks, and joins the
  capture thread under the lock that its callback asks for: with a lock that prefers writers the
  signal thread, the capture thread and a client may wait for each other for ever (section 2,
  AudioDevice).
* The frames that are missing behind a growth of the packet queue, the codec that is not
  flushed, the end that is not taken back and the watermark that cannot be reached (section 2,
  Playback).
* The clock of a file without sound, and pictures that sleep through a seek (section 2,
  VideoSync).
* Reads that go around a file with zeros before them, and discards close to its end (section 2,
  AudioFile).
* Outside of the models: `av_find_best_stream` answers a negative error code other than the -1
  that `HasVideo` tests (`reader_ffmpeg.cc:81`), and a file without any stream is opened as if
  it had one (`reader_ffmpeg.cc:51`).

## 6. What is not modelled

* ffmpeg, the platform's audio and the windows: choices of what they answer.
* In `Player` and `Playback`, time: when a frame is due and how long a task is delayed are choices
  there. `VideoSync` has time, and no packets.
* The choice of streams by `ReaderFfmpeg`: straight-line code whose faults lie in what ffmpeg
  answers; no order of steps changes it.
* Audio formats, frames, conversion, resampling and mixing, pixel layouts: arithmetic on
  buffers without state that several steps share. The sources and sinks of `resample_io.cc`
  convert what they pass on; a discard they pass on as it is, in bytes of the other format.
* Audio files without a header, whose source is the modelled one with nothing before the sound,
  and files that cannot be opened.
* Windows and OpenGL: their calls are made on the thread that the render was created on, and
  keep nothing that a later step of another thread meets. The vendored code, logging,
  `ObjectRegisterTemplate`, `AudioSourceToMixSource` and `util/common_tool`, which nobody uses.
* Of `rtc::Thread`: socket servers other than `NullSocketServer`, `Restart`, the thread manager,
  the bookkeeping of debug builds.
* Playout sinks and playout subscribers of the audio device, lists under the same lock that
  decide nothing, and its choice of a device.
* Of the audio ring buffer: `CreateAutoExpandBuffer`, writes larger than the buffer, more
  than one blocked reader or writer.

## 7. What comes next

In this order:

1. The choice of streams by `ReaderFfmpeg`, and what a file without one of them does to the
   reader, the decoder and the queues.
2. The two loops of `VideoSync` over the packets of `Playback`, for files whose streams end at
   different times.
