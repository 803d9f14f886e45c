-------------------------------- MODULE VideoSync --------------------------------
(***************************************************************************)
(* Sound and pictures against the clock, in time: the clock of              *)
(* player_timer.cc, the two decode loops on the decoder thread              *)
(* (decode_to_render.cc) with OnFrame of video_decode_to_render.cc and      *)
(* audio_decode_to_render.cc, and the device that plays the render's ring.  *)
(*                                                                          *)
(* Time is counted in ticks, in each of which the device plays one tick of  *)
(* sound.  The decoder thread is faster than a tick: a task that is due     *)
(* runs at most Lag ticks late.  Playback has the way from the packets to   *)
(* the frames; here each loop is given the frames of its stream in order.   *)
(***************************************************************************)
EXTENDS Integers

CONSTANTS
  AudioDur, VideoDur, \* how long a frame lasts
  MaxDiff,            \* max_diff_ms_ of VideoDecodeToRender
  Refused,            \* how long a frame waits that a paused render refused
  Retry,              \* how long a loop waits for packets
  Watermark,          \* player_start_watermark_
  Delay,              \* GetPlayoutDelayMs()
  Lag,                \* bound: ticks by which a task runs late
  Sounds,             \* whether the file has sound: TRUE, FALSE or either
  Distances,          \* bound: how far a seek goes, forward or back
  End,                \* the length of the file
  MaxTime,            \* bound: ticks
  MaxToggles, MaxSeeks, MaxStalls \* bounds: pauses and resumes, seeks, waits for packets

ASSUME DurationsAssumption ==
  {AudioDur, VideoDur, MaxDiff, Refused, Retry, Watermark, Delay} \subseteq Nat \ {0}
ASSUME BoundsAssumption ==
  /\ {Lag, End, MaxTime, MaxToggles, MaxSeeks, MaxStalls} \subseteq Nat
  /\ Sounds \subseteq BOOLEAN /\ Distances \subseteq Nat

VARIABLES
  now,        \* util::TimeNow()
  paused,     \* is_paused_ of the clock, and the renders do not play
  lastUpdate, \* last_update_time_ms_, 0 when there was none
  lastPts,    \* last_render_pts_ms_
  seekId,     \* seek_id_ of the clock, serial_ of the loops
  start,      \* start_time_ of the loops
  next,       \* the pts of the frame that a loop is given next
  frame,      \* av_frame_ while last_av_frame_pending_, NoFrame otherwise
  due,        \* when the task of a loop runs, Never for one that completed
  level,      \* CurrentSizeMs of the render's ring
  reached,    \* player_start_watermark_had_reached_
  written,    \* where the sound that was written last ends
  exact,      \* nothing came between the clock's last update and now but sound
  place,      \* what the clock showed when the last pause came
  toggles, seeks, stalls, \* how many there were
  dropped     \* frames that were too late since the last pause

clockVars == <<paused, lastUpdate, lastPts, seekId>>
loopVars == <<start, next, frame, due>>
renderVars == <<level, reached, written>>
countVars == <<toggles, seeks, stalls>>
vars == <<now, clockVars, loopVars, renderVars, exact, place, countVars, dropped>>

Streams == {"audio", "video"}
Dur == [s \in Streams |-> IF s = "audio" THEN AudioDur ELSE VideoDur]
Never == -1
NoFrame == [pts |-> -1, serial |-> 0]

Greatest(m, n) == IF m < n THEN n ELSE m

\* The useable capacity that AudioRenderImpl::Init sets
Capacity == Greatest(Watermark + Delay, 2 * Delay)

Init ==
  /\ now = 1
  /\ paused = FALSE /\ lastUpdate = 0 /\ lastPts = 0 /\ seekId = 0
  /\ start = 0 /\ next = [s \in Streams |-> 0] /\ frame = [s \in Streams |-> NoFrame]
  /\ \E sound \in Sounds :
       due = [s \in Streams |-> IF s = "audio" /\ ~sound THEN Never ELSE now]
  /\ level = 0 /\ reached = FALSE /\ written = 0 /\ exact = FALSE /\ place = 0
  /\ toggles = 0 /\ seeks = 0 /\ stalls = 0 /\ dropped = 0

-----------------------------------------------------------------------------
(* The clock *)

\* Mutant: a pause does not stop the clock
StartsClock == lastUpdate = 0

\* While it is paused the clock is set to the last pts whenever somebody asks
RestartsClock == lastUpdate = 0 \/ paused

\* GetCurrentMainTime: what it answers, and what it leaves behind
Time == IF RestartsClock THEN lastPts ELSE now - lastUpdate + lastPts
AskedAt == IF RestartsClock THEN now ELSE lastUpdate

\* Mutant: a clock of pictures, which sound does not set
IgnoresSound(serial) == FALSE

\* SetAudioCurrentTime; SetVideoCurrentTime does nothing, the player's clock is one of sound
SetsClock(serial) == serial = seekId

-----------------------------------------------------------------------------
(* What a loop does with a frame *)

Waits(s, f, ticks) ==
  /\ frame' = [frame EXCEPT ![s] = f]
  /\ due' = [due EXCEPT ![s] = now + ticks]

\* The frame is done with, and the loop posts itself
Goes(s) ==
  /\ frame' = [frame EXCEPT ![s] = NoFrame]
  /\ due' = [due EXCEPT ![s] = now]

\* Mutant: the delay is taken from the sound in the ring before the frame
DelayBefore == level + Delay

\* GetDelayMs, behind the write
DelayOfSound == level + AudioDur + Delay

\* A frame needs room for itself and a millisecond
HasRoom == Capacity - level > AudioDur

\* AudioDecodeToRender::OnFrame, AudioRenderImpl::SendFrame
OnAudioFrame(f) ==
  /\ IF HasRoom
       THEN /\ level' = level + AudioDur
            /\ written' = f.pts + AudioDur
            /\ reached' = (reached \/ level' >= Watermark)
            /\ IF SetsClock(f.serial)
                 THEN lastUpdate' = now /\ lastPts' = f.pts - DelayOfSound /\ exact' = TRUE
                 ELSE exact' = FALSE /\ UNCHANGED <<lastUpdate, lastPts>>
            /\ Goes("audio")
       ELSE /\ Waits("audio", f, Greatest(AudioDur, Retry))
            /\ UNCHANGED <<renderVars, lastUpdate, lastPts, exact>>
  /\ UNCHANGED dropped

\* Mutant: a frame is taken for late as soon as its time has come
LateAtOnce(f) == f.pts < Time

IsLate(f) == f.pts - Time <= -MaxDiff
IsEarly(f) == f.pts - Time >= MaxDiff

TicksUntil(f) == f.pts - Time

\* VideoDecodeToRender::OnFrame, and SendFrame of a render that plays or not
OnVideoFrame(f) ==
  /\ lastUpdate' = AskedAt
  /\ \/ IsEarly(f) /\ Waits("video", f, TicksUntil(f)) /\ UNCHANGED dropped
     \/ IsLate(f) /\ Goes("video") /\ dropped' = dropped + 1
     \/ /\ ~IsEarly(f) /\ ~IsLate(f)
        /\ IF paused THEN Waits("video", f, Greatest(VideoDur, Refused)) ELSE Goes("video")
        /\ UNCHANGED dropped
  /\ UNCHANGED <<lastPts, renderVars, exact>>

\* A frame from before the start time is passed over
OnFrame(s, f) ==
  /\ IF f.pts < start
       THEN Goes(s) /\ UNCHANGED <<lastUpdate, lastPts, renderVars, exact, dropped>>
       ELSE IF s = "audio" THEN OnAudioFrame(f) ELSE OnVideoFrame(f)
  /\ UNCHANGED <<now, paused, seekId, start, place, countVars>>

-----------------------------------------------------------------------------
(* ProcessInternal *)

IsDue(s) == due[s] # Never /\ due[s] <= now

\* A frame that waited is tried again
TriesAgain(s) ==
  /\ IsDue(s) /\ frame[s] # NoFrame
  /\ OnFrame(s, frame[s])
  /\ UNCHANGED next

\* Receive gives the next frame
Receives(s) ==
  /\ IsDue(s) /\ frame[s] = NoFrame /\ next[s] < End
  /\ OnFrame(s, [pts |-> next[s], serial |-> seekId])
  /\ next' = [next EXCEPT ![s] = @ + Dur[s]]

\* kEAgain
FindsNothing(s) ==
  /\ IsDue(s) /\ frame[s] = NoFrame /\ next[s] < End
  /\ stalls < MaxStalls
  /\ stalls' = stalls + 1
  /\ due' = [due EXCEPT ![s] = now + Retry]
  /\ UNCHANGED <<now, clockVars, start, next, frame, renderVars, exact, place, toggles, seeks,
                 dropped>>

\* kEof: on_completed
Completes(s) ==
  /\ IsDue(s) /\ frame[s] = NoFrame /\ next[s] >= End
  /\ due' = [due EXCEPT ![s] = Never]
  /\ UNCHANGED <<now, clockVars, start, next, frame, renderVars, exact, place, countVars, dropped>>

ProcessInternal(s) == TriesAgain(s) \/ Receives(s) \/ FindsNothing(s) \/ Completes(s)

-----------------------------------------------------------------------------
(* The client, as tasks of the decoder thread *)

\* PlayInternal, PauseInternal
PlayOrPause ==
  /\ toggles < MaxToggles
  /\ toggles' = toggles + 1
  /\ paused' = ~paused
  /\ exact' = FALSE
  /\ IF paused THEN UNCHANGED <<place, dropped>>
               ELSE place' = Time /\ dropped' = 0
  /\ UNCHANGED <<now, lastUpdate, lastPts, seekId, loopVars, renderVars, seeks, stalls>>

\* Seek by a difference: the clock is asked, SeekInternal tells the loops and the clock, and
\* the reader goes to the frame that the target lies in.  SeekTo of the clock only counts.
\* The question is asked on the player thread, before the call that blocks it until the decoder
\* thread has done the rest; here both are one step, since less than a tick is in between.
Seek(diff) ==
  /\ seeks < MaxSeeks
  /\ seeks' = seeks + 1
  /\ seekId' = seekId + 1
  /\ start' = Greatest(0, Time + diff)
  /\ lastUpdate' = AskedAt
  /\ next' = [s \in Streams |-> (start' \div Dur[s]) * Dur[s]]
  /\ level' = 0 /\ reached' = FALSE /\ exact' = FALSE
  /\ UNCHANGED <<now, paused, lastPts, frame, due, written, place, toggles, stalls,
                 dropped>>

-----------------------------------------------------------------------------

IsHeard == ~paused /\ reached /\ level > 0

\* Time goes on, and the device plays what there is
Tick ==
  /\ now < MaxTime
  /\ \A s \in Streams : due[s] # Never => now < due[s] + Lag
  /\ now' = now + 1
  /\ level' = IF IsHeard THEN level - 1 ELSE level
  /\ exact' = (exact /\ IsHeard)
  /\ UNCHANGED <<clockVars, loopVars, reached, written, place, countVars, dropped>>

Next ==
  \/ \E s \in Streams : ProcessInternal(s)
  \/ PlayOrPause
  \/ \E d \in Distances : Seek(d) \/ Seek(-d)
  \/ Tick

Spec == Init /\ [][Next]_vars

-----------------------------------------------------------------------------

\* What is heard: the ring ends with what was written last, and the device is Delay behind.
\* It is the truth for a ring that holds one stretch of sound.
Heard == written - level - Delay

\* Sound sets the clock with its start, and the delay counts its length: from an update on, for
\* as long as the sound goes on, the clock is one frame of sound behind what is heard, whatever
\* the ring holds and wherever a seek went.
ClockShowsTheSound == exact => now - lastUpdate + lastPts = Heard - AudioDur

\* A player that is left alone and always finds packets drops no picture, from the first one on:
\* also while the ring fills and no sound goes on yet, or without sound.
LeftAloneShowsAll == dropped > 0 => toggles + seeks + stalls > 0

\* The first pause stops the clock where it is, or where the last sound was written: it goes back
\* by no more than the audio loop waits between two frames, or by the delay of the first one.
\* A later one begins with whatever the clock made of the first: if nobody asked for the time
\* while that lasted, it went on.
PauseKeepsThePlace ==
  toggles = 1 /\ seeks = 0 /\ stalls = 0 /\ due["audio"] # Never =>
    place - Time \in 0 .. Greatest(AudioDur, Retry) + Delay + Lag

\* The first pause, however long, costs no more pictures than fit in the time for which a refused
\* one waits, although the clock only stops when somebody asks for the time.  Each is given up Lag
\* ticks late at most.  The audio loop must try again before the refused picture does, and pictures
\* follow one another in less than twice MaxDiff, else it is one more: see VideoSyncProofs.
PauseDropsFew ==
  toggles <= 2 /\ seeks = 0 /\ stalls = 0 =>
    (dropped - 1) * (VideoDur - Lag) < Greatest(VideoDur, Refused) + Lag

=================================================================================
