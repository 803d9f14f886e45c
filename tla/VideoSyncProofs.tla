----------------------------- MODULE VideoSyncProofs -----------------------------
(***************************************************************************)
(* Proofs about VideoSync, for every length of frames, watermark, delay,    *)
(* bound of lateness and length of the file: the sound that is heard and    *)
(* the clock that the pictures are shown by go together, and a player that  *)
(* is left alone drops no picture if its tasks are late by less than a      *)
(* picture may be; the first pause keeps the place, and costs few pictures. *)
(***************************************************************************)
EXTENDS VideoSync, TLAPS

\* What the argument needs of the types
ClockTypes ==
  /\ now \in Nat \ {0} /\ lastUpdate \in Nat /\ lastPts \in Int
  /\ level \in Int /\ written \in Int
  /\ next \in [Streams -> Int]
  /\ frame \in [Streams -> [pts : Int, serial : Int]]
  /\ seekId \in Int
  /\ exact \in BOOLEAN

\* While the clock goes with the sound it was set, and not before a pause: so asking for the time
\* leaves it as it is
AskedIsHarmless == exact => lastUpdate # 0 /\ (paused => lastUpdate = now)

ClockInv == ClockTypes /\ AskedIsHarmless /\ ClockShowsTheSound

-----------------------------------------------------------------------------

\* Asking for the time does not disturb a clock that goes with the sound
LEMMA AskedKeeps == ClockInv /\ exact => AskedAt = lastUpdate
  BY DEF ClockInv, ClockTypes, AskedIsHarmless, AskedAt, RestartsClock

\* Every duration is a positive number
LEMMA DurationsAreNumbers ==
  /\ AudioDur \in Nat \ {0} /\ VideoDur \in Nat \ {0} /\ Delay \in Nat \ {0}
  /\ Refused \in Nat \ {0} /\ Retry \in Nat \ {0} /\ Watermark \in Nat \ {0}
  BY DurationsAssumption

LEMMA InitClock == Init => ClockInv
  <1>1. NoFrame \in [pts : Int, serial : Int]
    BY DEF NoFrame
  <1>2. Init => ClockTypes
    <2> SUFFICES ASSUME Init
                 PROVE  ClockTypes
      OBVIOUS
    <2>1. next = [s \in Streams |-> 0] /\ frame = [s \in Streams |-> NoFrame]
      BY DEF Init
    <2>2. next \in [Streams -> Int] /\ frame \in [Streams -> [pts : Int, serial : Int]]
      BY <1>1, <2>1
    <2>3. /\ now \in Nat \ {0} /\ lastUpdate \in Nat /\ lastPts \in Int
          /\ level \in Int /\ written \in Int /\ seekId \in Int
      BY DEF Init
    <2>4. exact \in BOOLEAN
      BY DEF Init
    <2> QED
      BY <2>2, <2>3, <2>4 DEF ClockTypes
  <1>3. Init => ~exact
    BY DEF Init
  <1> QED
    BY <1>2, <1>3 DEF ClockInv, AskedIsHarmless, ClockShowsTheSound

\* What OnFrame of either loop leaves of the invariant
LEMMA OnFrameClock ==
  ASSUME ClockInv, NEW s \in Streams, NEW f \in [pts : Int, serial : Int], OnFrame(s, f)
  PROVE  /\ now' \in Nat \ {0} /\ lastUpdate' \in Nat /\ lastPts' \in Int
         /\ level' \in Int /\ written' \in Int /\ seekId' \in Int /\ exact' \in BOOLEAN
         /\ frame' \in [Streams -> [pts : Int, serial : Int]]
         /\ AskedIsHarmless' /\ ClockShowsTheSound'
  <1> USE DurationsAreNumbers
  <1>0. UNCHANGED <<now, paused, seekId>>
    BY DEF OnFrame
  <1>1. frame' \in [Streams -> [pts : Int, serial : Int]]
    <2>1. NoFrame \in [pts : Int, serial : Int]
      BY DEF NoFrame
    <2>2. frame' = [frame EXCEPT !["audio"] = f] \/ frame' = [frame EXCEPT !["video"] = f]
            \/ frame' = [frame EXCEPT ![s] = NoFrame] \/ frame' = [frame EXCEPT !["audio"] = NoFrame]
            \/ frame' = [frame EXCEPT !["video"] = NoFrame]
      BY DEF OnFrame, OnAudioFrame, OnVideoFrame, Goes, Waits
    <2> QED
      BY <2>1, <2>2 DEF ClockInv, ClockTypes
  <1>2. CASE UNCHANGED <<lastUpdate, lastPts, renderVars, exact>>
    BY <1>0, <1>1, <1>2 DEF ClockInv, ClockTypes, AskedIsHarmless, ClockShowsTheSound, Heard, renderVars
  <1>3. CASE OnAudioFrame(f)
    <2>1. CASE HasRoom /\ SetsClock(f.serial)
      <3>1. /\ lastUpdate' = now /\ lastPts' = f.pts - DelayOfSound
            /\ level' = level + AudioDur /\ written' = f.pts + AudioDur
        BY <1>3, <2>1 DEF OnAudioFrame
      <3>2. exact' \in BOOLEAN
        BY <1>3, <2>1 DEF OnAudioFrame
      <3>3. now' - lastUpdate' + lastPts' = Heard' - AudioDur
        BY <1>0, <3>1 DEF ClockInv, ClockTypes, Heard, DelayOfSound
      <3>4. lastUpdate' = now' /\ lastUpdate' # 0
        BY <1>0, <3>1 DEF ClockInv, ClockTypes
      <3>5. /\ now' \in Nat \ {0} /\ lastUpdate' \in Nat /\ lastPts' \in Int
            /\ level' \in Int /\ written' \in Int /\ seekId' \in Int
        BY <1>0, <3>1 DEF ClockInv, ClockTypes, DelayOfSound
      <3> QED
        BY <1>1, <3>2, <3>3, <3>4, <3>5 DEF AskedIsHarmless, ClockShowsTheSound
    <2>2. CASE HasRoom /\ ~SetsClock(f.serial)
      <3>1. UNCHANGED <<lastUpdate, lastPts>>
              /\ level' = level + AudioDur /\ written' = f.pts + AudioDur
        BY <1>3, <2>2 DEF OnAudioFrame
      <3>2. exact' \in BOOLEAN /\ ~exact'
        BY <1>3, <2>2 DEF OnAudioFrame
      <3> QED
        BY <1>0, <1>1, <3>1, <3>2 DEF ClockInv, ClockTypes, AskedIsHarmless, ClockShowsTheSound
    <2>3. CASE ~HasRoom
      BY <1>2, <1>3, <2>3 DEF OnAudioFrame
    <2> QED
      BY <2>1, <2>2, <2>3
  <1>4. CASE OnVideoFrame(f)
    <2>1. lastUpdate' = AskedAt /\ UNCHANGED <<lastPts, renderVars, exact>>
      BY <1>4 DEF OnVideoFrame
    <2>2. AskedAt \in Nat
      BY DEF AskedAt, ClockInv, ClockTypes
    <2> QED
      BY <1>0, <1>1, <2>1, <2>2, AskedKeeps
      DEF ClockInv, ClockTypes, AskedIsHarmless, ClockShowsTheSound, Heard, renderVars
  <1> QED
    BY <1>2, <1>3, <1>4 DEF OnFrame

\* A step of a loop
LEMMA ProcessClock ==
  ASSUME ClockInv, NEW s \in Streams, ProcessInternal(s)
  PROVE  ClockInv'
  <1> USE DurationsAreNumbers
  <1>1. CASE TriesAgain(s)
    <2>1. frame[s] \in [pts : Int, serial : Int]
      BY DEF ClockInv, ClockTypes
    <2> QED
      BY <1>1, <2>1, OnFrameClock DEF TriesAgain, ClockInv, ClockTypes
  <1>2. CASE Receives(s)
    <2>1. [pts |-> next[s], serial |-> seekId] \in [pts : Int, serial : Int]
      BY DEF ClockInv, ClockTypes
    <2>2. Dur[s] \in Int
      BY DEF Dur, Streams
    <2>3. next' \in [Streams -> Int]
      BY <1>2, <2>2 DEF Receives, ClockInv, ClockTypes
    <2> QED
      BY <1>2, <2>1, <2>3, OnFrameClock DEF Receives, ClockInv, ClockTypes
  <1>3. CASE FindsNothing(s) \/ Completes(s)
    BY <1>3
    DEF FindsNothing, Completes, clockVars, renderVars, ClockInv, ClockTypes, AskedIsHarmless,
        ClockShowsTheSound, Heard
  <1> QED
    BY <1>1, <1>2, <1>3 DEF ProcessInternal

\* What the client does ends what was exact
LEMMA ClientClock ==
  ASSUME ClockInv, PlayOrPause \/ \E d \in Distances : Seek(d) \/ Seek(-d)
  PROVE  ClockInv'
  <1> USE DurationsAreNumbers
  <1>1. CASE PlayOrPause
    BY <1>1
    DEF PlayOrPause, loopVars, renderVars, ClockInv, ClockTypes, AskedIsHarmless,
        ClockShowsTheSound
  <1>2. ASSUME NEW diff \in Int, Seek(diff)
        PROVE  ClockInv'
    <2>1. Time \in Int /\ AskedAt \in Nat
      BY DEF Time, AskedAt, ClockInv, ClockTypes
    <2>2. start' \in Int
      BY <1>2, <2>1 DEF Seek, Greatest
    <2>3. Dur \in [Streams -> Nat \ {0}]
      BY DEF Dur, Streams
    <2>4. next' \in [Streams -> Int]
      <3>1. next' = [s \in Streams |-> (start' \div Dur[s]) * Dur[s]]
        BY <1>2 DEF Seek
      <3>2. ASSUME NEW s \in Streams
            PROVE  (start' \div Dur[s]) * Dur[s] \in Int
        <4>1. start' \div Dur[s] \in Int
          BY <2>2, <2>3
        <4> QED
          BY <2>3, <4>1
      <3> QED
        BY <3>1, <3>2
    <2>5. UNCHANGED <<now, lastPts, frame, written>> /\ lastUpdate' = AskedAt
            /\ seekId' = seekId + 1 /\ level' = 0
      BY <1>2 DEF Seek
    <2>6. exact' \in BOOLEAN /\ ~exact'
      BY <1>2 DEF Seek
    <2> QED
      BY <2>1, <2>4, <2>5, <2>6 DEF ClockInv, ClockTypes, AskedIsHarmless, ClockShowsTheSound
  <1>3. \A d \in Distances : d \in Int /\ -d \in Int
    BY BoundsAssumption
  <1> QED
    BY <1>1, <1>2, <1>3

\* A tick plays a tick of sound, or the clock and the sound part
LEMMA TickClock == ClockInv /\ Tick => ClockInv'
  <1> SUFFICES ASSUME ClockInv, Tick
               PROVE  ClockInv'
    OBVIOUS
  <1>1. /\ now' = now + 1 /\ exact' = (exact /\ IsHeard)
        /\ level' = IF IsHeard THEN level - 1 ELSE level
        /\ UNCHANGED <<paused, lastUpdate, lastPts, seekId, next, frame, written>>
    BY DEF Tick, clockVars, loopVars
  <1>2. exact' \in BOOLEAN /\ (exact' => exact /\ IsHeard)
    BY <1>1
  <1>3. ClockTypes'
    BY <1>1, <1>2 DEF ClockInv, ClockTypes
  <1>4. CASE exact'
    <2>1. exact /\ ~paused /\ level' = level - 1
      BY <1>1, <1>2, <1>4 DEF IsHeard
    <2>2. now' - lastUpdate' + lastPts' = Heard' - AudioDur
      BY <1>1, <2>1, DurationsAreNumbers DEF ClockInv, ClockTypes, ClockShowsTheSound, Heard
    <2> QED
      BY <1>1, <1>3, <2>1, <2>2 DEF ClockInv, AskedIsHarmless, ClockShowsTheSound
  <1> QED
    BY <1>3, <1>4 DEF ClockInv, AskedIsHarmless, ClockShowsTheSound

LEMMA NextClock == ClockInv /\ [Next]_vars => ClockInv'
  <1> SUFFICES ASSUME ClockInv, [Next]_vars
               PROVE  ClockInv'
    OBVIOUS
  <1>1. CASE UNCHANGED vars
    BY <1>1
    DEF vars, clockVars, loopVars, renderVars, ClockInv, ClockTypes, AskedIsHarmless,
        ClockShowsTheSound, Heard
  <1> QED
    BY <1>1, ProcessClock, ClientClock, TickClock DEF Next

\* From the write of a frame of sound on, for as long as sound goes on without a gap, a pause or a
\* seek, the clock is one frame behind what is heard: SetAudioCurrentTime takes the delay behind
\* the write, and asking for the time (GetCurrentMainTime) does not disturb it.
THEOREM ClockCorrect == Spec => []ClockShowsTheSound
  <1>1. ClockInv => ClockShowsTheSound
    BY DEF ClockInv
  <1> QED
    BY <1>1, InitClock, NextClock, PTL DEF Spec

-----------------------------------------------------------------------------
(* A player that is left alone *)

LeftAlone == toggles = 0 /\ seeks = 0 /\ stalls = 0

\* The frame that a loop has, or is given next
Upcoming(s) == IF frame[s] = NoFrame THEN next[s] ELSE frame[s].pts

\* The frames come one behind the other
FramesFollow ==
  /\ \A s \in Streams :
       /\ Upcoming(s) >= 0
       /\ frame[s] # NoFrame => frame[s].serial = 0 /\ next[s] = frame[s].pts + Dur[s]
  /\ Upcoming("audio") = written

\* Sound only ever sets the clock back: it is not behind where the next frame would set it
ClockLeads ==
  /\ written - level - Delay - AudioDur <= Time
  /\ lastUpdate = 0 => level = 0

\* A picture is behind the clock by no more than its task is late
PictureInTime == due["video"] # Never => Time <= Upcoming("video") + (now - due["video"])

LoneTypes ==
  /\ due \in [Streams -> Int]
  /\ \A s \in Streams : due[s] # Never => now <= due[s] + Lag
  /\ toggles \in Nat /\ seeks \in Nat /\ stalls \in Nat

LoneInv ==
  /\ LoneTypes
  /\ LeftAlone =>
       /\ ~paused /\ dropped = 0 /\ start = 0 /\ seekId = 0
       /\ FramesFollow /\ ClockLeads /\ PictureInTime

\* Tasks are late by less than a picture may be, and by no more than a picture lasts
TasksAreInTime == Lag < MaxDiff /\ Lag <= VideoDur

LEMMA InitLone == Init => LoneInv
  <1> SUFFICES ASSUME Init
               PROVE  LoneInv
    OBVIOUS
  <1>1. /\ now = 1 /\ paused = FALSE /\ lastUpdate = 0 /\ lastPts = 0 /\ seekId = 0
        /\ start = 0 /\ next = [s \in Streams |-> 0] /\ frame = [s \in Streams |-> NoFrame]
        /\ level = 0 /\ written = 0 /\ toggles = 0 /\ seeks = 0 /\ stalls = 0 /\ dropped = 0
    BY DEF Init
  <1>2. PICK sound \in Sounds :
          due = [s \in Streams |-> IF s = "audio" /\ ~sound THEN Never ELSE now]
    BY DEF Init
  <1>3. /\ due \in [Streams -> Int]
        /\ \A s \in Streams : due[s] # Never => due[s] = 1
    BY <1>1, <1>2 DEF Never
  <1>4. LoneTypes
    BY <1>1, <1>3, BoundsAssumption DEF LoneTypes
  <1>5. \A s \in Streams : next[s] = 0 /\ frame[s] = NoFrame /\ Upcoming(s) = 0
    BY <1>1 DEF Upcoming
  <1>6. "audio" \in Streams /\ "video" \in Streams
    BY DEF Streams
  <1>7. FramesFollow
    BY <1>1, <1>5, <1>6 DEF FramesFollow
  <1>8. Time = 0
    BY <1>1 DEF Time, RestartsClock
  <1>9. ClockLeads
    BY <1>1, <1>8, DurationsAreNumbers DEF ClockLeads
  <1>10. PictureInTime
    BY <1>1, <1>3, <1>5, <1>6, <1>8 DEF PictureInTime
  <1> QED
    BY <1>1, <1>4, <1>7, <1>9, <1>10 DEF LoneInv

\* What is known of a player that is left alone
LEMMA LoneFacts ==
  ASSUME ClockInv, LoneInv, LeftAlone
  PROVE  /\ ~paused /\ dropped = 0 /\ start = 0 /\ seekId = 0
         /\ FramesFollow /\ ClockLeads /\ PictureInTime
         /\ Time = (IF lastUpdate = 0 THEN lastPts ELSE now - lastUpdate + lastPts)
         /\ AskedAt = (IF lastUpdate = 0 THEN now ELSE lastUpdate)
         /\ Time \in Int /\ written \in Int /\ level \in Int /\ now \in Nat \ {0}
         /\ lastUpdate \in Nat /\ lastPts \in Int
         /\ \A s \in Streams : Upcoming(s) \in Int /\ next[s] \in Int /\ frame[s].pts \in Int
         /\ "audio" \in Streams /\ "video" \in Streams
         /\ Dur["audio"] = AudioDur /\ Dur["video"] = VideoDur
         /\ AudioDur \in Nat \ {0} /\ VideoDur \in Nat \ {0} /\ Delay \in Nat /\ Lag \in Nat
         /\ MaxDiff \in Nat \ {0}
         /\ due \in [Streams -> Int] /\ frame \in [Streams -> [pts : Int, serial : Int]]
         /\ next \in [Streams -> Int]
  <1>1. "audio" \in Streams /\ "video" \in Streams
    BY DEF Streams
  <1>2. Dur["audio"] = AudioDur /\ Dur["video"] = VideoDur
    BY <1>1 DEF Dur
  <1>3. /\ AudioDur \in Nat \ {0} /\ VideoDur \in Nat \ {0} /\ Delay \in Nat /\ Lag \in Nat
        /\ MaxDiff \in Nat \ {0}
    BY DurationsAssumption, BoundsAssumption
  <1>4. /\ written \in Int /\ level \in Int /\ now \in Nat \ {0} /\ lastUpdate \in Nat /\ lastPts \in Int
        /\ frame \in [Streams -> [pts : Int, serial : Int]] /\ next \in [Streams -> Int]
    BY DEF ClockInv, ClockTypes
  <1>5. \A s \in Streams : Upcoming(s) \in Int /\ next[s] \in Int /\ frame[s].pts \in Int
    BY <1>4 DEF Upcoming
  <1>6. /\ ~paused /\ dropped = 0 /\ start = 0 /\ seekId = 0
        /\ FramesFollow /\ ClockLeads /\ PictureInTime /\ due \in [Streams -> Int]
    BY DEF LoneInv, LoneTypes
  <1>7. /\ Time = (IF lastUpdate = 0 THEN lastPts ELSE now - lastUpdate + lastPts)
        /\ AskedAt = (IF lastUpdate = 0 THEN now ELSE lastUpdate)
    BY <1>6 DEF Time, AskedAt, RestartsClock
  <1>8. Time \in Int
    BY <1>4, <1>7
  <1> QED
    BY <1>1, <1>2, <1>3, <1>4, <1>5, <1>6, <1>7, <1>8

\* What a frame of s leaves when the loop is done with it, or keeps it
FrameOver(s, f) ==
  /\ frame' = [frame EXCEPT ![s] = NoFrame] \/ frame' = [frame EXCEPT ![s] = f]
  /\ \E ticks \in Nat : due' = [due EXCEPT ![s] = now + ticks]

\* What is known of the frames behind that
FrameFollowed(s, f) ==
  /\ \A q \in Streams : /\ Upcoming(q)' >= 0 /\ Upcoming(q)' \in Int
                        /\ frame'[q] # NoFrame => /\ frame'[q].serial = 0
                                                  /\ next'[q] = frame'[q].pts + Dur[q]
  /\ \A q \in Streams \ {s} : Upcoming(q)' = Upcoming(q) /\ due'[q] = due[q]
  /\ frame'[s] = NoFrame => Upcoming(s)' = f.pts + Dur[s]
  /\ frame'[s] = f => Upcoming(s)' = f.pts
  /\ due'[s] # Never

\* Frames still follow when the loop s was given f
LEMMA FollowStep ==
  ASSUME ClockInv, LoneInv, FramesFollow, NEW s \in Streams,
         NEW f \in [pts : Int, serial : Int], f.pts = Upcoming(s), f.serial = 0,
         FrameOver(s, f), next' = [next EXCEPT ![s] = f.pts + Dur[s]],
         UNCHANGED <<now, toggles, seeks, stalls>>
  PROVE  LoneTypes' /\ FrameFollowed(s, f)
  <1>1. /\ next \in [Streams -> Int] /\ frame \in [Streams -> [pts : Int, serial : Int]]
        /\ due \in [Streams -> Int] /\ now \in Nat \ {0} /\ Lag \in Nat
        /\ \A q \in Streams : Upcoming(q) \in Int /\ Upcoming(q) >= 0
        /\ \A q \in Streams : frame[q] # NoFrame => frame[q].serial = 0 /\ next[q] = frame[q].pts + Dur[q]
    BY BoundsAssumption DEF ClockInv, ClockTypes, LoneInv, LoneTypes, FramesFollow, Upcoming
  <1>2. \A q \in Streams : Dur[q] \in Nat
    BY DurationsAreNumbers DEF Dur, Streams
  <1>3. f # NoFrame /\ f.pts >= 0
    BY <1>1 DEF NoFrame
  <1>4. PICK ticks \in Nat : due' = [due EXCEPT ![s] = now + ticks]
    BY DEF FrameOver
  <1>5. due'[s] = now + ticks /\ due' \in [Streams -> Int] /\ due'[s] # Never
    BY <1>1, <1>4 DEF Never
  <1>6. LoneTypes'
    BY <1>1, <1>4, <1>5 DEF LoneInv, LoneTypes
  <1>7. /\ \A q \in Streams \ {s} : frame'[q] = frame[q] /\ next'[q] = next[q] /\ due'[q] = due[q]
        /\ next'[s] = f.pts + Dur[s]
        /\ frame'[s] = NoFrame \/ frame'[s] = f
    BY <1>1, <1>4 DEF FrameOver
  <1>8. \A q \in Streams \ {s} : Upcoming(q)' = Upcoming(q)
    BY <1>7 DEF Upcoming
  <1>9. /\ frame'[s] = NoFrame => Upcoming(s)' = f.pts + Dur[s]
        /\ frame'[s] = f => Upcoming(s)' = f.pts
    BY <1>3, <1>7 DEF Upcoming
  <1>10. Upcoming(s)' >= 0 /\ Upcoming(s)' \in Int
    BY <1>2, <1>3, <1>7, <1>9
  <1>11. ASSUME NEW q \in Streams
         PROVE  /\ Upcoming(q)' >= 0 /\ Upcoming(q)' \in Int
                /\ frame'[q] # NoFrame => frame'[q].serial = 0 /\ next'[q] = frame'[q].pts + Dur[q]
    BY <1>1, <1>7, <1>8, <1>10
  <1> QED
    BY <1>5, <1>6, <1>7, <1>8, <1>9, <1>11 DEF FrameFollowed

\* A frame of sound sets the clock back or leaves it
LEMMA AudioLone ==
  ASSUME ClockInv, LoneInv, LeftAlone, NEW f \in [pts : Int, serial : Int],
         f.pts = Upcoming("audio"), f.serial = 0,
         OnFrame("audio", f), next' = [next EXCEPT !["audio"] = f.pts + AudioDur]
  PROVE  LoneInv'
  <1>1. /\ ~paused /\ dropped = 0 /\ start = 0 /\ seekId = 0
        /\ FramesFollow /\ ClockLeads /\ PictureInTime
        /\ Time = (IF lastUpdate = 0 THEN lastPts ELSE now - lastUpdate + lastPts)
        /\ Time \in Int /\ written \in Int /\ level \in Int /\ now \in Nat \ {0}
        /\ lastUpdate \in Nat /\ lastPts \in Int
        /\ "audio" \in Streams /\ "video" \in Streams
        /\ Dur["audio"] = AudioDur /\ AudioDur \in Nat \ {0} /\ Delay \in Nat
        /\ due \in [Streams -> Int] /\ frame \in [Streams -> [pts : Int, serial : Int]]
        /\ Upcoming("video") \in Int
    BY LoneFacts
  <1>2. f.pts = written /\ f.pts >= 0
    BY <1>1 DEF FramesFollow
  <1>3. OnAudioFrame(f) /\ UNCHANGED <<now, paused, seekId, start, toggles, seeks, stalls>>
    BY <1>1, <1>2 DEF OnFrame, countVars
  <1>4. dropped' = dropped
    BY <1>3 DEF OnAudioFrame
  <1>5. FrameOver("audio", f)
    <2>1. now = now + 0 /\ 0 \in Nat /\ Greatest(AudioDur, Retry) \in Nat
      BY <1>1, DurationsAreNumbers DEF Greatest
    <2> QED
      BY <1>3, <2>1 DEF FrameOver, OnAudioFrame, Goes, Waits
  <1>6. /\ LoneTypes'
        /\ \A q \in Streams : /\ Upcoming(q)' >= 0 /\ Upcoming(q)' \in Int
                              /\ frame'[q] # NoFrame => /\ frame'[q].serial = 0
                                                        /\ next'[q] = frame'[q].pts + Dur[q]
        /\ Upcoming("video")' = Upcoming("video") /\ due'["video"] = due["video"]
        /\ frame'["audio"] = NoFrame => Upcoming("audio")' = f.pts + AudioDur
        /\ frame'["audio"] = f => Upcoming("audio")' = f.pts
    <2>1. LoneTypes' /\ FrameFollowed("audio", f)
      <3>1. /\ next' = [next EXCEPT !["audio"] = f.pts + Dur["audio"]]
            /\ UNCHANGED <<now, toggles, seeks, stalls>>
        BY <1>1, <1>3
      <3> QED
        BY <1>1, <1>5, <3>1, FollowStep
    <2>2. "audio" # "video"
      OBVIOUS
    <2> QED
      BY <1>1, <2>1, <2>2 DEF FrameFollowed
  <1>7. due["video"] \in Int
    BY <1>1
  <1>8. CASE HasRoom
    <2>1. /\ level' = level + AudioDur /\ written' = f.pts + AudioDur
          /\ lastUpdate' = now /\ lastPts' = f.pts - DelayOfSound
          /\ frame' = [frame EXCEPT !["audio"] = NoFrame]
      BY <1>1, <1>3, <1>8 DEF OnAudioFrame, SetsClock, Goes
    <2>2. frame'["audio"] = NoFrame
      BY <1>1, <2>1
    <2>3. FramesFollow'
      BY <1>6, <2>1, <2>2 DEF FramesFollow
    <2>4. Time' = lastPts' /\ lastPts' = written - level - AudioDur - Delay /\ lastPts' \in Int
      <3>1. ~paused' /\ lastUpdate' # 0 /\ now' - lastUpdate' = 0
        BY <1>1, <1>3, <2>1
      <3>2. lastPts' = written - level - AudioDur - Delay /\ lastPts' \in Int
        BY <1>1, <1>2, <2>1 DEF DelayOfSound
      <3>3. Time' = now' - lastUpdate' + lastPts'
        BY <3>1 DEF Time, RestartsClock
      <3> QED
        BY <3>1, <3>2, <3>3
    <2>5. Time' <= Time /\ Time' \in Int
      BY <1>1, <2>4 DEF ClockLeads
    <2>6. ClockLeads'
      <3>1. written' - level' - Delay - AudioDur <= Time'
        BY <1>1, <1>2, <2>1, <2>4
      <3>2. lastUpdate' # 0
        BY <1>1, <2>1
      <3> QED
        BY <3>1, <3>2 DEF ClockLeads
    <2>7. PictureInTime'
      BY <1>1, <1>3, <1>6, <1>7, <2>5 DEF PictureInTime
    <2> QED
      BY <1>1, <1>3, <1>4, <1>6, <2>3, <2>6, <2>7 DEF LoneInv
  <1>9. CASE ~HasRoom
    <2>1. UNCHANGED <<level, written, lastUpdate, lastPts>> /\ frame' = [frame EXCEPT !["audio"] = f]
      BY <1>3, <1>9 DEF OnAudioFrame, renderVars, Waits
    <2>2. frame'["audio"] = f
      BY <1>1, <2>1
    <2>3. FramesFollow'
      BY <1>2, <1>6, <2>1, <2>2 DEF FramesFollow
    <2>4. Time' = Time
      BY <1>3, <2>1 DEF Time, RestartsClock
    <2>5. ClockLeads' /\ PictureInTime'
      BY <1>1, <1>3, <1>6, <2>1, <2>4 DEF ClockLeads, PictureInTime
    <2> QED
      BY <1>1, <1>3, <1>4, <1>6, <2>3, <2>5 DEF LoneInv
  <1> QED
    BY <1>8, <1>9

\* A picture is shown, or waits for its time: it is never late
LEMMA VideoLone ==
  ASSUME ClockInv, LoneInv, LeftAlone, TasksAreInTime, NEW f \in [pts : Int, serial : Int],
         f.pts = Upcoming("video"), f.serial = 0, IsDue("video"),
         OnFrame("video", f), next' = [next EXCEPT !["video"] = f.pts + VideoDur]
  PROVE  LoneInv'
  <1>1. /\ ~paused /\ dropped = 0 /\ start = 0 /\ seekId = 0
        /\ FramesFollow /\ ClockLeads /\ PictureInTime
        /\ Time = (IF lastUpdate = 0 THEN lastPts ELSE now - lastUpdate + lastPts)
        /\ AskedAt = (IF lastUpdate = 0 THEN now ELSE lastUpdate)
        /\ Time \in Int /\ written \in Int /\ level \in Int /\ now \in Nat \ {0}
        /\ lastUpdate \in Nat /\ lastPts \in Int
        /\ "audio" \in Streams /\ "video" \in Streams
        /\ Dur["video"] = VideoDur /\ VideoDur \in Nat \ {0} /\ Lag \in Nat /\ MaxDiff \in Nat \ {0}
        /\ due \in [Streams -> Int] /\ frame \in [Streams -> [pts : Int, serial : Int]]
    BY LoneFacts
  <1>2. f.pts >= 0
    BY <1>1 DEF FramesFollow
  <1>3. OnVideoFrame(f) /\ UNCHANGED <<now, paused, seekId, start, toggles, seeks, stalls>>
    BY <1>1, <1>2 DEF OnFrame, countVars
  <1>4. due["video"] \in Int /\ due["video"] # Never /\ now <= due["video"] + Lag
    BY <1>1 DEF IsDue, LoneInv, LoneTypes
  <1>5. Time <= f.pts + Lag
    BY <1>1, <1>4 DEF PictureInTime
  <1>6. ~IsLate(f)
    BY <1>1, <1>5 DEF IsLate, TasksAreInTime
  <1>7. /\ lastUpdate' = AskedAt /\ UNCHANGED <<lastPts, level, written>>
        /\ dropped' = dropped
        /\ \/ /\ Time <= f.pts /\ frame' = [frame EXCEPT !["video"] = f]
              /\ due' = [due EXCEPT !["video"] = now + (f.pts - Time)]
           \/ /\ frame' = [frame EXCEPT !["video"] = NoFrame]
              /\ due' = [due EXCEPT !["video"] = now]
    <2>1. IsEarly(f) => Time <= f.pts
      BY <1>1 DEF IsEarly
    <2> QED
      BY <1>1, <1>3, <1>6, <2>1 DEF OnVideoFrame, renderVars, Waits, Goes, TicksUntil
  <1>8. FrameOver("video", f)
    <2>1. now = now + 0 /\ 0 \in Nat /\ (Time <= f.pts => f.pts - Time \in Nat)
      BY <1>1
    <2> QED
      BY <1>7, <2>1 DEF FrameOver
  <1>9. /\ LoneTypes'
        /\ \A q \in Streams : /\ Upcoming(q)' >= 0 /\ Upcoming(q)' \in Int
                              /\ frame'[q] # NoFrame => /\ frame'[q].serial = 0
                                                        /\ next'[q] = frame'[q].pts + Dur[q]
        /\ Upcoming("audio")' = Upcoming("audio")
        /\ frame'["video"] = NoFrame => Upcoming("video")' = f.pts + VideoDur
        /\ frame'["video"] = f => Upcoming("video")' = f.pts
    <2>1. LoneTypes' /\ FrameFollowed("video", f)
      <3>1. /\ next' = [next EXCEPT !["video"] = f.pts + Dur["video"]]
            /\ UNCHANGED <<now, toggles, seeks, stalls>>
        BY <1>1, <1>3
      <3> QED
        BY <1>1, <1>8, <3>1, FollowStep
    <2>2. "audio" # "video"
      OBVIOUS
    <2> QED
      BY <1>1, <2>1, <2>2 DEF FrameFollowed
  <1>10. FramesFollow'
    BY <1>1, <1>7, <1>9 DEF FramesFollow
  <1>11. Time' = Time /\ lastUpdate' # 0
    <2>1. ~paused' /\ lastUpdate' # 0
      BY <1>1, <1>3, <1>7
    <2>2. Time' = now' - lastUpdate' + lastPts'
      BY <2>1 DEF Time, RestartsClock
    <2>3. now - now + lastPts = lastPts
      BY <1>1
    <2> QED
      BY <1>1, <1>3, <1>7, <2>1, <2>2, <2>3
  <1>12. ClockLeads'
    BY <1>1, <1>7, <1>11 DEF ClockLeads
  <1>13. PictureInTime'
    <2>1. CASE /\ frame' = [frame EXCEPT !["video"] = f]
               /\ due' = [due EXCEPT !["video"] = now + (f.pts - Time)]
      <3>1. due'["video"] = now + (f.pts - Time) /\ Upcoming("video")' = f.pts
        BY <1>1, <1>9, <2>1
      <3> QED
        BY <1>1, <1>3, <1>11, <3>1 DEF PictureInTime
    <2>2. CASE /\ frame' = [frame EXCEPT !["video"] = NoFrame]
               /\ due' = [due EXCEPT !["video"] = now]
      <3>1. due'["video"] = now /\ Upcoming("video")' = f.pts + VideoDur
        BY <1>1, <1>9, <2>2
      <3>2. Time <= f.pts + VideoDur
        BY <1>1, <1>5 DEF TasksAreInTime
      <3> QED
        BY <1>1, <1>3, <1>11, <3>1, <3>2 DEF PictureInTime
    <2> QED
      BY <1>7, <2>1, <2>2
  <1> QED
    BY <1>1, <1>3, <1>7, <1>9, <1>10, <1>12, <1>13 DEF LoneInv

\* A loop that is left alone waits from now on, or completed
LEMMA DueTypes ==
  ASSUME LoneInv, ClockInv, NEW s \in Streams,
         (\E ticks \in Nat : due' = [due EXCEPT ![s] = now + ticks]) \/ due' = [due EXCEPT ![s] = Never],
         now' = now, toggles' \in Nat, seeks' \in Nat, stalls' \in Nat
  PROVE  LoneTypes'
  <1>1. due \in [Streams -> Int] /\ now \in Nat \ {0} /\ Lag \in Nat
    BY BoundsAssumption DEF LoneInv, LoneTypes, ClockInv, ClockTypes
  <1>2. CASE due' = [due EXCEPT ![s] = Never]
    BY <1>1, <1>2 DEF LoneInv, LoneTypes, Never
  <1>3. ASSUME NEW ticks \in Nat, due' = [due EXCEPT ![s] = now + ticks]
        PROVE  LoneTypes'
    BY <1>1, <1>3 DEF LoneInv, LoneTypes
  <1> QED
    BY <1>2, <1>3

LEMMA OnFrameDue ==
  ASSUME ClockInv, LoneInv, NEW s \in Streams, NEW f \in [pts : Int, serial : Int], OnFrame(s, f)
  PROVE  LoneTypes'
  <1>1. now \in Nat \ {0} /\ Time \in Int /\ toggles \in Nat /\ seeks \in Nat /\ stalls \in Nat
    BY DEF ClockInv, ClockTypes, LoneInv, LoneTypes, Time
  <1>2. MaxDiff \in Nat /\ Greatest(AudioDur, Retry) \in Nat /\ Greatest(VideoDur, Refused) \in Nat
    BY DurationsAssumption DEF Greatest
  <1>3. now = now + 0 /\ 0 \in Nat
    BY <1>1
  <1>4. IsEarly(f) => TicksUntil(f) \in Nat
    BY <1>1, <1>2 DEF IsEarly, TicksUntil
  <1>5. now' = now /\ toggles' \in Nat /\ seeks' \in Nat /\ stalls' \in Nat
    BY <1>1 DEF OnFrame, countVars
  <1>6. \E q \in Streams, ticks \in Nat : due' = [due EXCEPT ![q] = now + ticks]
    <2>1. "audio" \in Streams /\ "video" \in Streams
      BY DEF Streams
    <2>2. CASE OnAudioFrame(f)
      BY <1>2, <1>3, <2>1, <2>2 DEF OnAudioFrame, Goes, Waits
    <2>3. CASE OnVideoFrame(f)
      BY <1>2, <1>3, <1>4, <2>1, <2>3 DEF OnVideoFrame, Goes, Waits
    <2>4. CASE Goes(s)
      BY <1>3, <2>4 DEF Goes
    <2> QED
      BY <2>2, <2>3, <2>4 DEF OnFrame
  <1> QED
    BY <1>5, <1>6, DueTypes

\* A step of a loop
LEMMA ProcessLone ==
  ASSUME TasksAreInTime, ClockInv, LoneInv, NEW s \in Streams, ProcessInternal(s)
  PROVE  LoneInv'
  <1>1. frame[s] \in [pts : Int, serial : Int] /\ next \in [Streams -> Int] /\ seekId \in Int
    BY DEF ClockInv, ClockTypes
  <1>2. toggles \in Nat /\ seeks \in Nat /\ stalls \in Nat
    BY DEF LoneInv, LoneTypes
  <1>3. (s = "audio" /\ Dur[s] = AudioDur) \/ (s = "video" /\ Dur[s] = VideoDur)
    BY DEF Streams, Dur
  <1>4. ASSUME NEW f \in [pts : Int, serial : Int], OnFrame(s, f), IsDue(s),
               LeftAlone => /\ f.pts = Upcoming(s) /\ f.serial = 0
                            /\ next' = [next EXCEPT ![s] = f.pts + Dur[s]]
        PROVE  LoneInv'
    <2>1. CASE LeftAlone
      BY <1>3, <1>4, <2>1, AudioLone, VideoLone
    <2>2. CASE ~LeftAlone
      <3>1. ~LeftAlone'
        BY <1>4, <2>2 DEF OnFrame, countVars, LeftAlone
      <3>2. LoneTypes'
        BY <1>4, OnFrameDue
      <3> QED
        BY <3>1, <3>2 DEF LoneInv
    <2> QED
      BY <2>1, <2>2
  <1>5. CASE TriesAgain(s)
    <2>1. LeftAlone => /\ frame[s].pts = Upcoming(s) /\ frame[s].serial = 0
                       /\ next[s] = frame[s].pts + Dur[s]
      BY <1>5 DEF TriesAgain, LoneInv, FramesFollow, Upcoming
    <2>2. next' = next /\ next = [next EXCEPT ![s] = next[s]]
      BY <1>1, <1>5 DEF TriesAgain
    <2> QED
      BY <1>1, <1>4, <1>5, <2>1, <2>2 DEF TriesAgain
  <1>6. CASE Receives(s)
    <2> DEFINE f == [pts |-> next[s], serial |-> seekId]
    <2>1. f \in [pts : Int, serial : Int] /\ f.pts = next[s] /\ f.serial = seekId
      BY <1>1
    <2>2. OnFrame(s, f) /\ IsDue(s) /\ frame[s] = NoFrame
      BY <1>6 DEF Receives
    <2>3. next' = [next EXCEPT ![s] = next[s] + Dur[s]]
      BY <1>6 DEF Receives
    <2>4. LeftAlone => f.pts = Upcoming(s) /\ f.serial = 0
      BY <2>1, <2>2 DEF LoneInv, Upcoming
    <2> HIDE DEF f
    <2> QED
      BY <1>4, <2>1, <2>2, <2>3, <2>4
  <1>7. CASE FindsNothing(s)
    <2>1. /\ now' = now /\ toggles' = toggles /\ seeks' = seeks /\ stalls' = stalls + 1
          /\ due' = [due EXCEPT ![s] = now + Retry]
      BY <1>7 DEF FindsNothing
    <2>2. ~LeftAlone'
      BY <1>2, <2>1 DEF LeftAlone
    <2>3. Retry \in Nat
      BY DurationsAssumption
    <2>4. /\ now' = now /\ toggles' \in Nat /\ seeks' \in Nat /\ stalls' \in Nat
          /\ \E ticks \in Nat : due' = [due EXCEPT ![s] = now + ticks]
      <3>1. \E ticks \in Nat : due' = [due EXCEPT ![s] = now + ticks]
        <4> WITNESS Retry \in Nat
        <4> QED
          BY <2>1
      <3>2. now' = now /\ toggles' \in Nat /\ seeks' \in Nat /\ stalls' \in Nat
        BY <1>2, <2>1
      <3> QED
        BY <3>1, <3>2, Zenon
    <2>5. LoneTypes'
      BY <2>4, DueTypes
    <2> QED
      BY <2>2, <2>5 DEF LoneInv
  <1>8. CASE Completes(s)
    <2>1. /\ due' = [due EXCEPT ![s] = Never]
          /\ UNCHANGED <<now, paused, lastUpdate, lastPts, seekId, start, next, frame, level, written,
                         toggles, seeks, stalls, dropped>>
      BY <1>8 DEF Completes, clockVars, renderVars, countVars
    <2>2. LoneTypes'
      BY <1>2, <2>1, DueTypes
    <2>3. Time' = Time /\ \A q \in Streams : Upcoming(q)' = Upcoming(q)
      BY <2>1 DEF Time, RestartsClock, Upcoming
    <2>4. due'["video"] # Never => due'["video"] = due["video"]
      BY <1>3, <2>1 DEF Streams, LoneInv, LoneTypes
    <2>5. ASSUME LeftAlone
          PROVE  FramesFollow' /\ ClockLeads' /\ PictureInTime'
      <3>1. "audio" \in Streams /\ "video" \in Streams
        BY DEF Streams
      <3>2. FramesFollow'
        BY <2>1, <2>3, <2>5, <3>1 DEF LoneInv, FramesFollow
      <3>3. ClockLeads'
        BY <2>1, <2>3, <2>5 DEF LoneInv, ClockLeads
      <3>4. PictureInTime'
        BY <2>1, <2>3, <2>4, <2>5, <3>1 DEF LoneInv, PictureInTime
      <3> QED
        BY <3>2, <3>3, <3>4
    <2> QED
      BY <2>1, <2>2, <2>5 DEF LoneInv, LeftAlone
  <1> QED
    BY <1>5, <1>6, <1>7, <1>8 DEF ProcessInternal

\* A tick: the clock goes on by one, and the sound by no more
LEMMA TickLone ==
  ASSUME ClockInv, LoneInv, Tick
  PROVE  LoneInv'
  <1>1. /\ now' = now + 1
        /\ \A s \in Streams : due[s] # Never => now < due[s] + Lag
        /\ level' = IF IsHeard THEN level - 1 ELSE level
        /\ UNCHANGED <<paused, lastUpdate, lastPts, seekId, start, next, frame, due, written,
                       toggles, seeks, stalls, dropped>>
    BY DEF Tick, clockVars, loopVars, countVars
  <1>2. now \in Nat /\ Lag \in Nat /\ due \in [Streams -> Int]
    BY BoundsAssumption DEF ClockInv, ClockTypes, LoneInv, LoneTypes
  <1>3. LoneTypes'
    BY <1>1, <1>2 DEF LoneInv, LoneTypes
  <1>4. ASSUME LeftAlone
        PROVE  FramesFollow' /\ ClockLeads' /\ PictureInTime'
    <2>1. /\ ~paused /\ FramesFollow /\ ClockLeads /\ PictureInTime
          /\ Time = (IF lastUpdate = 0 THEN lastPts ELSE now - lastUpdate + lastPts)
          /\ Time \in Int /\ written \in Int /\ level \in Int /\ lastUpdate \in Nat /\ lastPts \in Int
          /\ Upcoming("video") \in Int /\ "video" \in Streams /\ "audio" \in Streams
          /\ AudioDur \in Nat /\ Delay \in Nat
      BY <1>4, LoneFacts
    <2>2. Time' = IF lastUpdate = 0 THEN lastPts ELSE now + 1 - lastUpdate + lastPts
      <3>1. now' = now + 1 /\ ~paused' /\ lastUpdate' = lastUpdate /\ lastPts' = lastPts
        BY <1>1, <2>1
      <3>2. CASE lastUpdate = 0
        BY <3>1, <3>2 DEF Time, RestartsClock
      <3>3. CASE lastUpdate # 0
        <4>1. Time' = now' - lastUpdate' + lastPts'
          BY <3>1, <3>3 DEF Time, RestartsClock
        <4>2. now' - lastUpdate' + lastPts' = now + 1 - lastUpdate + lastPts
          <5>1. now' = now + 1 /\ lastUpdate' = lastUpdate /\ lastPts' = lastPts
            BY <3>1
          <5>2. now \in Int /\ lastUpdate \in Int /\ lastPts \in Int
            BY <1>2, <2>1
          <5> QED
            BY <5>1, <5>2
        <4> QED
          BY <3>3, <4>1, <4>2
      <3> QED
        BY <3>2, <3>3
    <2>3. Time' = IF lastUpdate = 0 THEN Time ELSE Time + 1
      BY <1>2, <2>1, <2>2
    <2>4. \A q \in Streams : Upcoming(q)' = Upcoming(q)
      BY <1>1 DEF Upcoming
    <2>5. FramesFollow'
      BY <1>1, <2>1, <2>4 DEF FramesFollow
    <2>6. lastUpdate = 0 => level' = level /\ level = 0
      BY <1>1, <2>1 DEF ClockLeads, IsHeard
    <2>7. ClockLeads'
      BY <1>1, <2>1, <2>3, <2>6 DEF ClockLeads
    <2>8. due["video"] \in Int
      BY <1>2, <2>1
    <2>9. PictureInTime'
      BY <1>1, <1>2, <2>1, <2>3, <2>4, <2>8 DEF PictureInTime
    <2> QED
      BY <2>5, <2>7, <2>9
  <1> QED
    BY <1>1, <1>3, <1>4 DEF LoneInv, LeftAlone

LEMMA NextLone == TasksAreInTime /\ ClockInv /\ LoneInv /\ [Next]_vars => LoneInv'
  <1> SUFFICES ASSUME TasksAreInTime, ClockInv, LoneInv, [Next]_vars
               PROVE  LoneInv'
    OBVIOUS
  <1>1. toggles \in Nat /\ seeks \in Nat /\ stalls \in Nat
    BY DEF LoneInv, LoneTypes
  <1>2. ASSUME UNCHANGED <<now, due>>, toggles' \in Nat, seeks' \in Nat, stalls' = stalls, ~LeftAlone'
        PROVE  LoneInv'
    BY <1>1, <1>2 DEF LoneInv, LoneTypes
  <1>3. CASE PlayOrPause
    <2>1. UNCHANGED <<now, due, seeks, stalls>> /\ toggles' = toggles + 1
      BY <1>3 DEF PlayOrPause, loopVars
    <2> QED
      BY <1>1, <1>2, <2>1 DEF LeftAlone
  <1>4. ASSUME NEW d \in Distances, Seek(d) \/ Seek(-d)
        PROVE  LoneInv'
    <2>1. UNCHANGED <<now, due, toggles, stalls>> /\ seeks' = seeks + 1
      BY <1>4 DEF Seek
    <2> QED
      BY <1>1, <1>2, <2>1 DEF LeftAlone
  <1>5. CASE UNCHANGED vars
    <2>1. UNCHANGED <<now, paused, lastUpdate, lastPts, seekId, start, next, frame, due, level, written,
                      toggles, seeks, stalls, dropped>>
      BY <1>5 DEF vars, clockVars, loopVars, renderVars, countVars
    <2>2. Time' = Time /\ \A q \in Streams : Upcoming(q)' = Upcoming(q)
      BY <2>1 DEF Time, RestartsClock, Upcoming
    <2>3. "audio" \in Streams /\ "video" \in Streams
      BY DEF Streams
    <2> QED
      BY <2>1, <2>2, <2>3
      DEF LoneInv, LoneTypes, LeftAlone, FramesFollow, ClockLeads, PictureInTime
  <1> QED
    BY <1>3, <1>4, <1>5, ProcessLone, TickLone DEF Next

\* A player that is left alone and always finds packets drops no picture, with sound, without, and
\* before the sound is heard: sound sets the clock back only, and a picture that waits is late by
\* no more than its task.  Tasks that are late by as much as a picture may be would drop some.
THEOREM LeftAloneCorrect == TasksAreInTime => (Spec => []LeftAloneShowsAll)
  <1> SUFFICES ASSUME TasksAreInTime
               PROVE  Spec => []LeftAloneShowsAll
    OBVIOUS
  <1>1. LoneInv => LeftAloneShowsAll
    BY DEF LoneInv, LoneTypes, LeftAlone, LeftAloneShowsAll
  <1>2. ClockInv /\ LoneInv /\ [Next]_vars => ClockInv' /\ LoneInv'
    BY NextClock, NextLone
  <1> QED
    BY <1>1, <1>2, InitClock, InitLone, PTL DEF Spec


-----------------------------------------------------------------------------
(* The first pause *)

\* How long the audio loop waits for room
WaitForRoom == Greatest(AudioDur, Retry)

\* A frame fits above every level of whole frames below the watermark, so the ring gets there, and
\* tasks are late by no more than the device is behind
SoundIsInTime ==
  /\ \A n \in Nat : n * AudioDur < Watermark => (n + 1) * AudioDur < Capacity
  /\ Lag <= Delay

\* While sound goes on, the audio loop set the clock a short while ago or waits for room that
\* there will be when its task comes; and the clock was set to no more than what is heard.
SoundInTime ==
  /\ level >= 0 /\ level < Capacity
  /\ level >= Watermark => reached
  /\ ~reached => \E n \in Nat : level = n * AudioDur
  /\ lastUpdate <= now
  /\ written = 0 =>
       level = 0 /\ lastPts = 0 /\ frame["audio"] = NoFrame /\ due["audio"] = 1
  /\ written # 0 =>
       /\ lastUpdate # 0 /\ lastPts <= written - level - Delay - AudioDur
       /\ frame["audio"] = NoFrame => due["audio"] <= lastUpdate
       /\ frame["audio"] # NoFrame =>
            /\ reached /\ due["audio"] <= lastUpdate + Lag + WaitForRoom
            /\ \/ level < Capacity - AudioDur
               \/ level - (due["audio"] - now) < Capacity - AudioDur

\* Behind the first pause, nothing is played and the sound that is written goes on where it was
SoundWhilePaused ==
  /\ paused /\ start = 0 /\ seekId = 0 /\ level >= 0
  /\ Upcoming("audio") = written /\ written >= 0
  /\ frame["audio"] # NoFrame =>
       frame["audio"].serial = 0 /\ next["audio"] = frame["audio"].pts + AudioDur
  /\ written = 0 => level = 0 /\ lastPts = 0 /\ place \in 0 .. Lag
  /\ written # 0 =>
       /\ place - lastPts \in 0 .. WaitForRoom + Delay + Lag
       /\ place - (written - level - Delay - AudioDur) \in 0 .. WaitForRoom + Delay + Lag

SoundInv ==
  /\ place \in Int
  /\ seeks = 0 /\ stalls = 0 /\ due["audio"] # Never =>
       /\ toggles = 0 => SoundInTime
       /\ toggles = 1 => SoundWhilePaused

\* The numbers that the sound goes by
LEMMA SoundNumbers ==
  /\ AudioDur \in Nat \ {0} /\ Delay \in Nat \ {0} /\ Watermark \in Nat \ {0}
  /\ WaitForRoom \in Nat /\ WaitForRoom >= AudioDur
  /\ Capacity \in Nat \ {0} /\ Lag \in Nat
  BY DurationsAreNumbers, BoundsAssumption DEF WaitForRoom, Greatest, Capacity

\* A frame more is the next of the levels
LEMMA NextLevel == \A n \in Nat : (n + 1) * AudioDur = n * AudioDur + AudioDur
  BY SoundNumbers

\* A ring that has no room is not empty, and was played before
LEMMA FullIsReached ==
  ASSUME SoundIsInTime, SoundInTime, level \in Int, ~HasRoom
  PROVE  level > 0 /\ reached
  <1>1. 0 * AudioDur = 0 /\ (0 + 1) * AudioDur = AudioDur
    BY SoundNumbers
  <1>2. AudioDur < Capacity
    BY <1>1, SoundNumbers DEF SoundIsInTime
  <1>3. ASSUME ~reached
        PROVE  FALSE
    <2>1. PICK n \in Nat : level = n * AudioDur
      BY <1>3 DEF SoundInTime
    <2>2. level < Watermark
      BY <1>3, SoundNumbers DEF SoundInTime
    <2>3. (n + 1) * AudioDur < Capacity
      BY <2>1, <2>2 DEF SoundIsInTime
    <2>4. level + AudioDur < Capacity
      BY <2>1, <2>3, NextLevel
    <2> QED
      BY <2>4, SoundNumbers DEF HasRoom
  <1> QED
    BY <1>2, <1>3, SoundNumbers DEF HasRoom

\* What is known of the state whatever came
LEMMA SoundTypes ==
  ASSUME ClockInv, LoneInv, SoundInv
  PROVE  /\ now \in Nat \ {0} /\ lastUpdate \in Nat /\ lastPts \in Int
         /\ level \in Int /\ written \in Int /\ place \in Int
         /\ due["audio"] \in Int /\ due \in [Streams -> Int]
         /\ frame \in [Streams -> [pts : Int, serial : Int]] /\ next \in [Streams -> Int]
         /\ toggles \in Nat /\ seeks \in Nat /\ stalls \in Nat
         /\ "audio" \in Streams /\ Dur["audio"] = AudioDur
         /\ due["audio"] # Never => now <= due["audio"] + Lag
  BY DEF ClockInv, ClockTypes, LoneInv, LoneTypes, SoundInv, Streams, Dur

LEMMA InitSound == Init => SoundInv
  <1> SUFFICES ASSUME Init
               PROVE  SoundInv
    OBVIOUS
  <1>1. /\ now = 1 /\ lastUpdate = 0 /\ lastPts = 0 /\ level = 0 /\ written = 0 /\ place = 0
        /\ frame = [s \in Streams |-> NoFrame] /\ toggles = 0
    BY DEF Init
  <1>2. "audio" \in Streams
    BY DEF Streams
  <1>3. PICK sound \in Sounds :
          due = [s \in Streams |-> IF s = "audio" /\ ~sound THEN Never ELSE now]
    BY DEF Init
  <1>4. due["audio"] # Never => due["audio"] = 1
    BY <1>1, <1>2, <1>3
  <1>5. frame["audio"] = NoFrame
    BY <1>1, <1>2
  <1>6. \E n \in Nat : level = n * AudioDur
    BY <1>1, SoundNumbers
  <1>7. due["audio"] # Never => SoundInTime
    BY <1>1, <1>4, <1>5, <1>6, SoundNumbers DEF SoundInTime
  <1> QED
    BY <1>1, <1>7 DEF SoundInv

\* What does not touch the sound, but may ask for the time
LEMMA AskingKeeps ==
  ASSUME ClockInv, LoneInv, SoundInv,
         UNCHANGED <<now, paused, lastPts, seekId, start, level, reached, written, place,
                     toggles, seeks, stalls>>,
         lastUpdate' = lastUpdate \/ lastUpdate' = AskedAt,
         frame'["audio"] = frame["audio"], next'["audio"] = next["audio"],
         due'["audio"] = due["audio"]
  PROVE  SoundInv'
  <1>1. /\ now \in Nat \ {0} /\ lastUpdate \in Nat
    BY SoundTypes
  <1>2. Upcoming("audio")' = Upcoming("audio")
    BY DEF Upcoming
  <1>3. ASSUME seeks = 0, stalls = 0, due["audio"] # Never, toggles = 0
        PROVE  SoundInTime'
    <2>1. ~paused /\ SoundInTime
      BY <1>3 DEF LoneInv, LeftAlone, SoundInv
    <2>2. lastUpdate' = lastUpdate \/ (lastUpdate = 0 /\ lastUpdate' = now)
      BY <2>1 DEF AskedAt, RestartsClock
    <2>3. lastUpdate' <= now
      BY <1>1, <2>1, <2>2 DEF SoundInTime
    <2>4. written # 0 => lastUpdate' = lastUpdate
      BY <2>1, <2>2 DEF SoundInTime
    <2> QED
      BY <2>1, <2>3, <2>4 DEF SoundInTime
  <1>4. ASSUME seeks = 0, stalls = 0, due["audio"] # Never, toggles = 1
        PROVE  SoundWhilePaused'
    BY <1>2, <1>4 DEF SoundInv, SoundWhilePaused
  <1> QED
    BY <1>3, <1>4 DEF SoundInv

\* What OnFrame of the audio loop does to a frame that comes behind what was written
LEMMA AudioWrites ==
  ASSUME ClockInv, LoneInv, SoundInv, start = 0, seekId = 0,
         NEW f \in [pts : Int, serial : Int], f.pts = written, f.serial = 0, written >= 0,
         OnFrame("audio", f)
  PROVE  /\ UNCHANGED <<now, paused, seekId, start, place, toggles, seeks, stalls>>
         /\ \/ /\ HasRoom /\ level' = level + AudioDur /\ written' = written + AudioDur
               /\ reached' = (reached \/ level' >= Watermark)
               /\ lastUpdate' = now /\ lastPts' = written - level - AudioDur - Delay
               /\ frame'["audio"] = NoFrame /\ due'["audio"] = now
            \/ /\ ~HasRoom /\ UNCHANGED <<level, reached, written, lastUpdate, lastPts>>
               /\ frame'["audio"] = f /\ due'["audio"] = now + WaitForRoom
  <1>1. /\ now \in Nat \ {0} /\ level \in Int /\ written \in Int
        /\ due \in [Streams -> Int] /\ frame \in [Streams -> [pts : Int, serial : Int]]
        /\ "audio" \in Streams
    BY SoundTypes
  <1>2. OnAudioFrame(f) /\ UNCHANGED <<now, paused, seekId, start, place, toggles, seeks, stalls>>
    <2>1. ~(f.pts < start)
      BY <1>1
    <2> QED
      BY <2>1 DEF OnFrame, countVars
  <1>3. CASE HasRoom
    <2>1. /\ level' = level + AudioDur /\ written' = f.pts + AudioDur
          /\ reached' = (reached \/ level' >= Watermark)
          /\ lastUpdate' = now /\ lastPts' = f.pts - DelayOfSound
          /\ frame' = [frame EXCEPT !["audio"] = NoFrame] /\ due' = [due EXCEPT !["audio"] = now]
      BY <1>2, <1>3 DEF OnAudioFrame, SetsClock, Goes
    <2>2. frame'["audio"] = NoFrame /\ due'["audio"] = now
      BY <1>1, <2>1
    <2>3. f.pts - DelayOfSound = written - level - AudioDur - Delay
      BY <1>1, SoundNumbers DEF DelayOfSound
    <2> QED
      BY <1>2, <1>3, <2>1, <2>2, <2>3
  <1>4. CASE ~HasRoom
    <2>1. /\ UNCHANGED <<level, reached, written, lastUpdate, lastPts>>
          /\ frame' = [frame EXCEPT !["audio"] = f]
          /\ due' = [due EXCEPT !["audio"] = now + WaitForRoom]
      BY <1>2, <1>4 DEF OnAudioFrame, renderVars, Waits, WaitForRoom
    <2>2. frame'["audio"] = f /\ due'["audio"] = now + WaitForRoom
      BY <1>1, <2>1
    <2> QED
      BY <1>2, <1>4, <2>1, <2>2
  <1> QED
    BY <1>3, <1>4

\* A step of the audio loop while it plays
LEMMA AudioInTime ==
  ASSUME ClockInv, LoneInv, SoundInv, SoundIsInTime, LeftAlone, due["audio"] # Never,
         IsDue("audio"), NEW f \in [pts : Int, serial : Int], f.pts = Upcoming("audio"), f.serial = 0,
         OnFrame("audio", f)
  PROVE  SoundInv'
  <1>1. /\ start = 0 /\ seekId = 0 /\ Upcoming("audio") = written /\ written >= 0 /\ SoundInTime
        /\ toggles = 0 /\ seeks = 0 /\ stalls = 0
    BY LoneFacts DEF FramesFollow, SoundInv, LeftAlone
  <1>2. /\ now \in Nat \ {0} /\ lastUpdate \in Nat /\ lastPts \in Int /\ level \in Int /\ written \in Int
        /\ place \in Int /\ due["audio"] \in Int /\ due["audio"] <= now /\ now <= due["audio"] + Lag
    BY SoundTypes DEF IsDue
  <1>3. f # NoFrame
    BY <1>1 DEF NoFrame
  <1>4. UNCHANGED <<now, place, toggles, seeks, stalls>>
    BY <1>1, AudioWrites
  <1>5. CASE HasRoom
    <2>1. /\ level' = level + AudioDur /\ written' = written + AudioDur
          /\ reached' = (reached \/ level' >= Watermark)
          /\ lastUpdate' = now /\ lastPts' = written - level - AudioDur - Delay
          /\ frame'["audio"] = NoFrame /\ due'["audio"] = now
      BY <1>1, <1>5, AudioWrites
    <2>2. level' >= 0 /\ level' < Capacity /\ written' # 0
      BY <1>1, <1>2, <1>5, <2>1, SoundNumbers DEF HasRoom, SoundInTime
    <2>3. /\ level' >= Watermark => reached'
          /\ ~reached' => \E n \in Nat : level' = n * AudioDur
      <3>1. level' >= Watermark => reached'
        BY <2>1
      <3>2. ASSUME ~reached'
            PROVE  \E n \in Nat : level' = n * AudioDur
        <4>1. PICK n \in Nat : level = n * AudioDur
          BY <1>1, <2>1, <3>2 DEF SoundInTime
        <4>2. n + 1 \in Nat /\ level' = (n + 1) * AudioDur
          BY <2>1, <4>1, NextLevel
        <4> QED
          BY <4>2
      <3> QED
        BY <3>1, <3>2
    <2>4. lastUpdate' <= now' /\ lastUpdate' # 0 /\ due'["audio"] <= lastUpdate'
      BY <1>2, <1>4, <2>1
    <2>5. lastPts' <= written' - level' - Delay - AudioDur
      BY <1>2, <2>1, SoundNumbers
    <2>6. SoundInTime'
      BY <2>1, <2>2, <2>3, <2>4, <2>5 DEF SoundInTime
    <2> QED
      BY <1>1, <1>2, <1>4, <2>6 DEF SoundInv
  <1>6. CASE ~HasRoom
    <2>1. /\ UNCHANGED <<level, reached, written, lastUpdate, lastPts>>
          /\ frame'["audio"] = f /\ due'["audio"] = now + WaitForRoom
      BY <1>1, <1>6, AudioWrites
    <2>2. level >= Capacity - AudioDur
      BY <1>2, <1>6, SoundNumbers DEF HasRoom
    <2>3. written # 0 /\ reached /\ frame["audio"] = NoFrame
      <3>1. level > 0 /\ reached
        BY <1>1, <1>2, <1>6, FullIsReached
      <3>2. written # 0
        BY <1>1, <3>1 DEF SoundInTime
      <3>3. frame["audio"] = NoFrame
        BY <1>1, <1>2, <2>2, <3>2, SoundNumbers DEF SoundInTime
      <3> QED
        BY <1>1, <3>1, <3>2, <3>3 DEF SoundInTime
    <2>4. due["audio"] <= lastUpdate
      BY <1>1, <2>3 DEF SoundInTime
    <2>5. due'["audio"] <= lastUpdate' + Lag + WaitForRoom
      BY <1>2, <2>1, <2>4, SoundNumbers
    <2>6. level' - (due'["audio"] - now') < Capacity - AudioDur
      BY <1>1, <1>2, <1>4, <2>1, SoundNumbers DEF SoundInTime
    <2>7. frame'["audio"] # NoFrame
      BY <1>3, <2>1
    <2>8. SoundInTime'
      BY <1>1, <1>4, <2>1, <2>3, <2>5, <2>6, <2>7 DEF SoundInTime
    <2> QED
      BY <1>1, <1>2, <1>4, <2>8 DEF SoundInv
  <1> QED
    BY <1>5, <1>6

\* A step of the audio loop during the pause
LEMMA AudioWhilePaused ==
  ASSUME ClockInv, LoneInv, SoundInv, SoundIsInTime,
         toggles = 1, seeks = 0, stalls = 0, due["audio"] # Never,
         NEW f \in [pts : Int, serial : Int], f.pts = Upcoming("audio"), f.serial = 0,
         OnFrame("audio", f), next' = [next EXCEPT !["audio"] = f.pts + AudioDur]
  PROVE  SoundInv'
  <1>1. SoundWhilePaused
    BY DEF SoundInv
  <1>2. /\ lastPts \in Int /\ level \in Int /\ written \in Int /\ place \in Int
        /\ next \in [Streams -> Int] /\ "audio" \in Streams
    BY SoundTypes
  <1>3. /\ start = 0 /\ seekId = 0 /\ f.pts = written /\ written >= 0
    BY <1>1 DEF SoundWhilePaused
  <1>4. UNCHANGED <<paused, start, seekId, place, toggles, seeks, stalls>>
    BY <1>3, AudioWrites
  <1>5. next'["audio"] = f.pts + AudioDur /\ f # NoFrame
    BY <1>2, <1>3 DEF NoFrame
  <1>6. CASE HasRoom
    <2>1. /\ level' = level + AudioDur /\ written' = written + AudioDur
          /\ lastPts' = written - level - AudioDur - Delay /\ frame'["audio"] = NoFrame
      BY <1>3, <1>6, AudioWrites
    <2>2. Upcoming("audio")' = written' /\ written' >= 0 /\ written' # 0 /\ level' >= 0
      <3>1. Upcoming("audio")' = next'["audio"]
        BY <2>1 DEF Upcoming
      <3> QED
        BY <1>1, <1>2, <1>3, <1>5, <2>1, <3>1, SoundNumbers DEF SoundWhilePaused
    <2>3. written' - level' - Delay - AudioDur = lastPts'
      BY <1>2, <2>1, SoundNumbers
    <2>4. place - (written - level - Delay - AudioDur) \in 0 .. WaitForRoom + Delay + Lag
      <3>1. CASE written # 0
        BY <1>1, <3>1 DEF SoundWhilePaused
      <3>2. CASE written = 0
        BY <1>1, <1>2, <3>2, SoundNumbers DEF SoundWhilePaused
      <3> QED
        BY <3>1, <3>2
    <2>5. place' - lastPts' \in 0 .. WaitForRoom + Delay + Lag
      <3>1. lastPts' = written - level - Delay - AudioDur
        BY <1>2, <2>1, SoundNumbers
      <3> QED
        BY <1>4, <2>4, <3>1
    <2>6. SoundWhilePaused'
      BY <1>1, <1>4, <2>1, <2>2, <2>3, <2>5 DEF SoundWhilePaused
    <2> QED
      BY <1>2, <1>4, <2>6 DEF SoundInv
  <1>7. CASE ~HasRoom
    <2>1. UNCHANGED <<level, written, lastPts>> /\ frame'["audio"] = f
      BY <1>3, <1>7, AudioWrites
    <2>2. Upcoming("audio")' = written'
      BY <1>3, <1>5, <2>1 DEF Upcoming
    <2>3. SoundWhilePaused'
      BY <1>1, <1>4, <1>5, <2>1, <2>2 DEF SoundWhilePaused
    <2> QED
      BY <1>2, <1>4, <2>3 DEF SoundInv
  <1> QED
    BY <1>6, <1>7

\* A step of a loop
LEMMA ProcessSound ==
  ASSUME ClockInv, LoneInv, SoundInv, SoundIsInTime, NEW s \in Streams, ProcessInternal(s)
  PROVE  SoundInv'
  <1> DEFINE Undisturbed == seeks = 0 /\ stalls = 0 /\ due["audio"] # Never
  <1>1. /\ frame \in [Streams -> [pts : Int, serial : Int]] /\ next \in [Streams -> Int]
        /\ due \in [Streams -> Int] /\ "audio" \in Streams /\ Dur["audio"] = AudioDur
        /\ place \in Int /\ stalls \in Nat /\ seekId \in Int
    BY SoundTypes DEF ClockInv, ClockTypes
  <1>2. ASSUME NEW f \in [pts : Int, serial : Int], OnFrame(s, f), s = "video",
               next'["audio"] = next["audio"]
        PROVE  SoundInv'
    <2>1. /\ UNCHANGED <<now, paused, seekId, start, place, toggles, seeks, stalls>>
          /\ \/ /\ Goes("video") /\ UNCHANGED <<lastUpdate, lastPts, renderVars>>
             \/ OnVideoFrame(f)
      BY <1>2 DEF OnFrame, countVars
    <2>2. /\ lastUpdate' = lastUpdate \/ lastUpdate' = AskedAt
          /\ UNCHANGED <<lastPts, renderVars>>
      BY <2>1 DEF OnVideoFrame
    <2>3. frame'["audio"] = frame["audio"] /\ due'["audio"] = due["audio"]
      <3>1. "audio" # "video"
        OBVIOUS
      <3>2. /\ \E g : frame' = [frame EXCEPT !["video"] = g]
            /\ \E t : due' = [due EXCEPT !["video"] = t]
        BY <2>1 DEF OnVideoFrame, Goes, Waits
      <3> QED
        BY <1>1, <3>1, <3>2
    <2> QED
      BY <1>2, <2>1, <2>2, <2>3, AskingKeeps DEF renderVars
  <1>3. ASSUME NEW f \in [pts : Int, serial : Int], OnFrame(s, f), IsDue(s), s = "audio",
               Undisturbed /\ toggles = 0 => f.pts = Upcoming("audio") /\ f.serial = 0,
               Undisturbed /\ toggles = 1 => f.pts = Upcoming("audio") /\ f.serial = 0,
               Undisturbed /\ toggles = 1 => next' = [next EXCEPT !["audio"] = f.pts + AudioDur]
        PROVE  SoundInv'
    <2>1. CASE Undisturbed /\ toggles = 0
      BY <1>3, <2>1, AudioInTime DEF LeftAlone
    <2>2. CASE Undisturbed /\ toggles = 1
      BY <1>3, <2>2, AudioWhilePaused
    <2>3. CASE (toggles # 0 /\ toggles # 1) \/ seeks # 0 \/ stalls # 0
      BY <1>1, <1>3, <2>3 DEF OnFrame, countVars, SoundInv
    <2>4. due["audio"] # Never
      BY <1>3 DEF IsDue
    <2> QED
      BY <2>1, <2>2, <2>3, <2>4
  <1>4. Undisturbed /\ toggles = 0 => /\ frame["audio"] # NoFrame =>
                                           /\ frame["audio"].pts = Upcoming("audio") /\ frame["audio"].serial = 0
                                           /\ next["audio"] = frame["audio"].pts + AudioDur
                                      /\ seekId = 0
    BY <1>1 DEF LoneInv, LeftAlone, FramesFollow, Upcoming
  <1>5. Undisturbed /\ toggles = 1 => /\ frame["audio"] # NoFrame =>
                                           /\ frame["audio"].pts = Upcoming("audio") /\ frame["audio"].serial = 0
                                           /\ next["audio"] = frame["audio"].pts + AudioDur
                                      /\ seekId = 0
    BY DEF SoundInv, SoundWhilePaused, Upcoming
  <1>6. CASE TriesAgain(s)
    <2>1. frame[s] \in [pts : Int, serial : Int] /\ frame[s] # NoFrame /\ OnFrame(s, frame[s]) /\ IsDue(s)
          /\ next' = next
      BY <1>1, <1>6 DEF TriesAgain
    <2>2. CASE s = "video"
      BY <1>2, <2>1, <2>2
    <2>3. CASE s = "audio"
      <3>1. next = [next EXCEPT !["audio"] = next["audio"]]
        BY <1>1
      <3> QED
        BY <1>3, <1>4, <1>5, <2>1, <2>3, <3>1
    <2> QED
      BY <2>2, <2>3 DEF Streams
  <1>7. CASE Receives(s)
    <2> DEFINE f == [pts |-> next[s], serial |-> seekId]
    <2>1. f \in [pts : Int, serial : Int] /\ f.pts = next[s] /\ f.serial = seekId
      BY <1>1
    <2>2. OnFrame(s, f) /\ IsDue(s) /\ frame[s] = NoFrame
      BY <1>7 DEF Receives
    <2>3. next' = [next EXCEPT ![s] = next[s] + Dur[s]]
      BY <1>7 DEF Receives
    <2> HIDE DEF f
    <2>4. CASE s = "video"
      <3>1. next'["audio"] = next["audio"]
        BY <1>1, <2>3, <2>4
      <3> QED
        BY <1>2, <2>1, <2>2, <2>4, <3>1
    <2>5. CASE s = "audio"
      <3>1. f.pts = Upcoming("audio")
        BY <2>1, <2>2, <2>5 DEF Upcoming
      <3>2. next' = [next EXCEPT !["audio"] = f.pts + AudioDur]
        BY <1>1, <2>1, <2>3, <2>5
      <3> QED
        BY <1>3, <1>4, <1>5, <2>1, <2>2, <2>5, <3>1, <3>2
    <2> QED
      BY <2>4, <2>5 DEF Streams
  <1>8. CASE FindsNothing(s)
    <2>1. stalls' # 0 /\ place' = place
      BY <1>1, <1>8 DEF FindsNothing
    <2> QED
      BY <1>1, <2>1 DEF SoundInv
  <1>9. CASE Completes(s)
    <2>1. /\ due' = [due EXCEPT ![s] = Never]
          /\ UNCHANGED <<now, paused, lastUpdate, lastPts, seekId, start, next, frame, level, reached,
                         written, place, toggles, seeks, stalls>>
      BY <1>9 DEF Completes, clockVars, renderVars, countVars
    <2>2. CASE s = "video"
      BY <1>1, <2>1, <2>2, AskingKeeps
    <2>3. CASE s = "audio"
      <3>1. due'["audio"] = Never
        BY <1>1, <2>1, <2>3
      <3> QED
        BY <1>1, <2>1, <3>1 DEF SoundInv, Never
    <2> QED
      BY <2>2, <2>3 DEF Streams
  <1> QED
    BY <1>6, <1>7, <1>8, <1>9 DEF ProcessInternal

\* A tick plays a tick of sound, or none in a pause
LEMMA TickSound ==
  ASSUME ClockInv, LoneInv, SoundInv, SoundIsInTime, Tick
  PROVE  SoundInv'
  <1>1. /\ now' = now + 1
        /\ level' = IF IsHeard THEN level - 1 ELSE level
        /\ UNCHANGED <<paused, lastUpdate, lastPts, seekId, start, next, frame, due, reached, written,
                       place, toggles, seeks, stalls>>
    BY DEF Tick, clockVars, loopVars, countVars
  <1>2. /\ now \in Nat \ {0} /\ lastUpdate \in Nat /\ lastPts \in Int /\ level \in Int /\ written \in Int
        /\ place \in Int /\ due["audio"] \in Int
    BY SoundTypes
  <1>3. ASSUME seeks = 0, stalls = 0, due["audio"] # Never, toggles = 0
        PROVE  SoundInTime'
    <2>1. ~paused /\ SoundInTime
      BY <1>3 DEF LoneInv, LeftAlone, SoundInv
    <2>2. level' >= 0 /\ level' <= level /\ level' \in Int
      BY <1>1, <1>2, <2>1 DEF IsHeard, SoundInTime
    <2>3. level' < Capacity /\ (level' >= Watermark => reached') /\ lastUpdate' <= now'
      BY <1>1, <1>2, <2>1, <2>2, SoundNumbers DEF SoundInTime
    <2>4. level = 0 => level' = 0
      BY <1>1 DEF IsHeard
    <2>5. written # 0 => lastPts' <= written' - level' - Delay - AudioDur
      BY <1>1, <1>2, <2>1, <2>2, SoundNumbers DEF SoundInTime
    <2>6. ASSUME written # 0, frame["audio"] # NoFrame
          PROVE  \/ level' < Capacity - AudioDur
                 \/ level' - (due'["audio"] - now') < Capacity - AudioDur
      <3>1. /\ reached
            /\ \/ level < Capacity - AudioDur
               \/ level - (due["audio"] - now) < Capacity - AudioDur
        BY <2>1, <2>6 DEF SoundInTime
      <3>2. CASE level < Capacity - AudioDur
        BY <1>2, <2>2, <3>2, SoundNumbers
      <3>3. CASE level - (due["audio"] - now) < Capacity - AudioDur /\ level > 0
        <4>1. level' = level - 1
          BY <1>1, <2>1, <3>1, <3>3 DEF IsHeard
        <4>2. due'["audio"] = due["audio"]
          BY <1>1
        <4>3. level' - (due'["audio"] - now') = level - (due["audio"] - now)
          BY <1>1, <1>2, <4>1, <4>2
        <4> QED
          BY <3>3, <4>3
      <3>4. CASE level <= 0
        <4>1. Capacity - AudioDur > 0
          <5>1. 0 * AudioDur = 0 /\ (0 + 1) * AudioDur = AudioDur
            BY SoundNumbers
          <5> QED
            BY <5>1, SoundNumbers DEF SoundIsInTime
        <4> QED
          BY <1>2, <2>2, <3>4, <4>1, SoundNumbers
      <3> QED
        BY <1>2, <3>1, <3>2, <3>3, <3>4
    <2>7. ~reached' => \E n \in Nat : level' = n * AudioDur
      BY <1>1, <2>1 DEF IsHeard, SoundInTime
    <2> QED
      BY <1>1, <2>1, <2>2, <2>3, <2>4, <2>5, <2>6, <2>7 DEF SoundInTime
  <1>4. ASSUME seeks = 0, stalls = 0, due["audio"] # Never, toggles = 1
        PROVE  SoundWhilePaused'
    <2>1. SoundWhilePaused
      BY <1>4 DEF SoundInv
    <2>2. level' = level
      BY <1>1, <2>1 DEF IsHeard, SoundWhilePaused
    <2>3. Upcoming("audio")' = Upcoming("audio")
      BY <1>1 DEF Upcoming
    <2> QED
      BY <1>1, <2>1, <2>2, <2>3 DEF SoundWhilePaused
  <1> QED
    BY <1>1, <1>2, <1>3, <1>4 DEF SoundInv

\* The first pause finds a clock that was set a short while ago
LEMMA PauseSound ==
  ASSUME ClockInv, LoneInv, SoundInv, SoundIsInTime, PlayOrPause
  PROVE  SoundInv'
  <1>1. /\ toggles' = toggles + 1 /\ paused' = ~paused
        /\ IF paused THEN place' = place ELSE place' = Time
        /\ UNCHANGED <<now, lastUpdate, lastPts, seekId, start, next, frame, due, level, written,
                       seeks, stalls>>
    BY DEF PlayOrPause, loopVars, renderVars
  <1>2. /\ now \in Nat \ {0} /\ lastUpdate \in Nat /\ lastPts \in Int /\ level \in Int /\ written \in Int
        /\ place \in Int /\ due["audio"] \in Int /\ toggles \in Nat
        /\ due["audio"] # Never => now <= due["audio"] + Lag
    BY SoundTypes
  <1>3. Time \in Int
    BY <1>2 DEF Time
  <1>4. place' \in Int
    BY <1>1, <1>2, <1>3
  <1>5. ASSUME seeks = 0, stalls = 0, due["audio"] # Never, toggles = 0
        PROVE  SoundWhilePaused'
    <2>1. /\ ~paused /\ start = 0 /\ seekId = 0 /\ SoundInTime /\ FramesFollow /\ ClockLeads
          /\ Time = (IF lastUpdate = 0 THEN lastPts ELSE now - lastUpdate + lastPts)
          /\ "audio" \in Streams /\ Dur["audio"] = AudioDur
      BY <1>5, LoneFacts DEF SoundInv, LeftAlone
    <2>2. place' = Time /\ paused'
      BY <1>1, <2>1
    <2>3. Upcoming("audio")' = Upcoming("audio")
      BY <1>1 DEF Upcoming
    <2>4. /\ Upcoming("audio") = written /\ written >= 0
          /\ frame["audio"] # NoFrame =>
               frame["audio"].serial = 0 /\ next["audio"] = frame["audio"].pts + AudioDur
      BY <2>1 DEF FramesFollow
    <2>5. ASSUME written = 0
          PROVE  level = 0 /\ lastPts = 0 /\ Time \in 0 .. Lag
      <3>1. level = 0 /\ lastPts = 0 /\ due["audio"] = 1 /\ lastUpdate <= now
        BY <2>1, <2>5 DEF SoundInTime
      <3>2. now <= 1 + Lag
        BY <1>2, <1>5, <3>1
      <3> QED
        BY <1>2, <2>1, <3>1, <3>2, SoundNumbers
    <2>6. ASSUME written # 0
          PROVE  /\ Time - lastPts \in 0 .. WaitForRoom + Delay + Lag
                 /\ Time - (written - level - Delay - AudioDur) \in 0 .. WaitForRoom + Delay + Lag
      <3>1. /\ lastUpdate # 0 /\ lastPts <= written - level - Delay - AudioDur /\ lastUpdate <= now
            /\ due["audio"] <= lastUpdate + Lag + WaitForRoom
        BY <1>2, <2>1, <2>6, SoundNumbers DEF SoundInTime
      <3>2. now <= lastUpdate + Lag + WaitForRoom + Lag
        BY <1>2, <1>5, <3>1, SoundNumbers
      <3>3. Time - lastPts = now - lastUpdate
        BY <1>2, <2>1, <3>1
      <3>4. Time - lastPts \in 0 .. WaitForRoom + Delay + Lag
        BY <1>2, <3>1, <3>2, <3>3, SoundNumbers DEF SoundIsInTime
      <3>5. written - level - Delay - AudioDur <= Time
        BY <2>1 DEF ClockLeads
      <3>6. Time - (written - level - Delay - AudioDur) \in 0 .. WaitForRoom + Delay + Lag
        BY <1>2, <1>3, <3>1, <3>4, <3>5, SoundNumbers
      <3> QED
        BY <3>4, <3>6
    <2>7. level >= 0
      BY <2>1 DEF SoundInTime
    <2> QED
      BY <1>1, <2>1, <2>2, <2>3, <2>4, <2>5, <2>6, <2>7 DEF SoundWhilePaused
  <1>6. toggles' # 0 /\ (toggles' = 1 => toggles = 0)
    BY <1>1, <1>2
  <1> QED
    BY <1>1, <1>4, <1>5, <1>6 DEF SoundInv

LEMMA NextSound == SoundIsInTime /\ ClockInv /\ LoneInv /\ SoundInv /\ [Next]_vars => SoundInv'
  <1> SUFFICES ASSUME SoundIsInTime, ClockInv, LoneInv, SoundInv, [Next]_vars
               PROVE  SoundInv'
    OBVIOUS
  <1>1. ASSUME NEW d \in Distances, Seek(d) \/ Seek(-d)
        PROVE  SoundInv'
    <2>1. seeks' = seeks + 1 /\ place' = place
      BY <1>1 DEF Seek
    <2>2. seeks' # 0 /\ place' \in Int
      BY <2>1, SoundTypes
    <2> QED
      BY <2>2 DEF SoundInv
  <1>2. CASE UNCHANGED vars
    BY <1>2, AskingKeeps DEF vars, clockVars, loopVars, renderVars, countVars
  <1> QED
    BY <1>1, <1>2, ProcessSound, TickSound, PauseSound DEF Next

\* The first pause keeps the place, whenever it comes and however long it is: the audio loop set the
\* clock a short while ago, or waits for room that there will be when its task comes, and what it
\* writes during the pause goes on where the sound is.  A ring in which no frame fits above what is
\* below the watermark would let the clock go on without sound.
THEOREM FirstPauseCorrect == TasksAreInTime /\ SoundIsInTime => (Spec => []PauseKeepsThePlace)
  <1> SUFFICES ASSUME TasksAreInTime, SoundIsInTime
               PROVE  Spec => []PauseKeepsThePlace
    OBVIOUS
  <1>1. ClockInv /\ LoneInv /\ SoundInv => PauseKeepsThePlace
    <2> SUFFICES ASSUME ClockInv, LoneInv, SoundInv, toggles = 1, seeks = 0, stalls = 0,
                        due["audio"] # Never
                 PROVE  place - Time \in 0 .. Greatest(AudioDur, Retry) + Delay + Lag
      BY DEF PauseKeepsThePlace
    <2>1. SoundWhilePaused
      BY DEF SoundInv
    <2>2. Time = lastPts
      BY <2>1 DEF SoundWhilePaused, Time, RestartsClock
    <2>3. place \in Int /\ lastPts \in Int
      BY SoundTypes
    <2>4. place - lastPts \in 0 .. WaitForRoom + Delay + Lag
      <3>1. CASE written = 0
        BY <2>1, <2>3, <3>1, SoundNumbers DEF SoundWhilePaused
      <3>2. CASE written # 0
        BY <2>1, <3>2 DEF SoundWhilePaused
      <3> QED
        BY <3>1, <3>2
    <2> QED
      BY <2>2, <2>4 DEF WaitForRoom
  <1>2. ClockInv /\ LoneInv /\ SoundInv /\ [Next]_vars => ClockInv' /\ LoneInv' /\ SoundInv'
    BY NextClock, NextLone, NextSound
  <1> QED
    BY <1>1, <1>2, InitClock, InitLone, InitSound, PTL DEF Spec

-----------------------------------------------------------------------------
(* What the first pause costs *)

\* How long a picture waits that the paused render refused, and how long the audio loop leaves the
\* clock alone
RefusedWait == Greatest(VideoDur, Refused)
LongestSilence == WaitForRoom + 2 * Lag

\* The wait for room, with both tasks late, is shorter than that of a refused picture and what a
\* picture may be late: 20 ms or a frame of sound against 100 ms or a picture and 15 ms
RefusedOutlastsSound == LongestSilence < RefusedWait + MaxDiff

\* What a picture that is given up gains on the clock, and what those since the pause did
Net == VideoDur - Lag
Lost == dropped * Net

\* What the clock shows while it runs, and what the next sound would set it to
RunningAt(t, update, pts) == IF update = 0 THEN pts ELSE t - update + pts
RunningTime == RunningAt(now, lastUpdate, lastPts)

SoundAt(end, l) == end - l - Delay - AudioDur
SoundTime == SoundAt(written, level)

\* The time that the clock may come to without running, and by how much that is ahead of it
AheadOf(silent, r, s) == IF silent THEN r ELSE Greatest(r, s)
Ahead == AheadOf(due["audio"] = Never, RunningTime, SoundTime)
Gap == Ahead - RunningTime

\* By how much a picture will be late when its task comes
ExcessOf(a, pts, t, d) == a - pts - (t - d)
Excess == ExcessOf(Ahead, Upcoming("video"), now, due["video"])

\* A picture was refused and waits; or it waits for its time by a clock that sound may still set
\* forward; or sound did
Peak == Greatest(RefusedWait + MaxDiff, RefusedWait + VideoDur + Lag - MaxDiff + 1)

MayBeLate(x, g, lost) ==
  \/ x + lost <= RefusedWait + Lag
  \/ x <= g
  \/ g = 0 /\ x + lost < Peak

\* So few were given up that sound may set the clock forward by g
AreFew(g, lost, n) ==
  /\ n > 0 /\ g > 0 => g + lost - Net <= RefusedWait + 2 * Lag - MaxDiff
  /\ n > 0 => lost - Net < Peak - MaxDiff + Lag

BehindPause == toggles \in {1, 2} /\ seeks = 0 /\ stalls = 0

FirstPause ==
  /\ start = 0 /\ seekId = 0 /\ FramesFollow
  /\ lastUpdate = 0 => level = 0
  /\ paused <=> toggles = 1
  /\ dropped \in Nat /\ (toggles = 1 => dropped = 0)
  /\ due["audio"] # Never => SoundTime - Time <= LongestSilence
  /\ AreFew(Gap, Lost, dropped)
  /\ due["video"] # Never =>
       /\ MayBeLate(Excess, Gap, Lost)
       /\ toggles = 1 =>
            /\ lastPts <= Upcoming("video") + Lag
            /\ due["audio"] # Never => SoundTime <= Upcoming("video") + Lag

PauseInv == lastUpdate <= now /\ (BehindPause => FirstPause)

\* The numbers that the pictures go by
LEMMA PictureNumbers ==
  ASSUME TasksAreInTime
  PROVE  /\ AudioDur \in Nat \ {0} /\ VideoDur \in Nat \ {0} /\ Delay \in Nat \ {0}
         /\ MaxDiff \in Nat \ {0} /\ Lag \in Nat /\ Lag < MaxDiff
         /\ RefusedWait \in Nat /\ RefusedWait >= VideoDur /\ LongestSilence \in Nat
         /\ Net \in Nat /\ Peak \in Int /\ Net = VideoDur - Lag
         /\ Peak >= RefusedWait + MaxDiff
         /\ Peak >= RefusedWait + VideoDur + Lag - MaxDiff + 1
         /\ Peak = RefusedWait + MaxDiff \/ Peak = RefusedWait + VideoDur + Lag - MaxDiff + 1
  <1>1. /\ VideoDur \in Nat \ {0} /\ Refused \in Nat \ {0} /\ MaxDiff \in Nat \ {0} /\ Lag \in Nat
    BY DurationsAssumption, BoundsAssumption
  <1>2. RefusedWait \in Nat /\ RefusedWait >= VideoDur
    BY <1>1 DEF RefusedWait, Greatest
  <1>3. LongestSilence \in Nat
    BY <1>1, SoundNumbers DEF LongestSilence
  <1>4. Lag < MaxDiff /\ Net \in Nat
    BY <1>1 DEF TasksAreInTime, Net
  <1>5. /\ Peak \in Int /\ Peak >= RefusedWait + MaxDiff
        /\ Peak >= RefusedWait + VideoDur + Lag - MaxDiff + 1
        /\ Peak = RefusedWait + MaxDiff \/ Peak = RefusedWait + VideoDur + Lag - MaxDiff + 1
    BY <1>1, <1>2 DEF Peak, Greatest
  <1> QED
    BY <1>1, <1>2, <1>3, <1>4, <1>5, DurationsAreNumbers DEF Net

\* Time only makes a picture less late
LEMMA LessLate ==
  ASSUME TasksAreInTime, NEW x \in Int, NEW g \in Nat, NEW lost \in Int, NEW n \in Nat,
         NEW y \in Int, NEW h \in Nat, y <= x, h <= g, y - h <= x - g
  PROVE  /\ MayBeLate(x, g, lost) => MayBeLate(y, h, lost)
         /\ AreFew(g, lost, n) => AreFew(h, lost, n)
  BY PictureNumbers DEF MayBeLate, AreFew

\* Sound sets the clock
LEMMA LateBySound ==
  ASSUME TasksAreInTime, RefusedOutlastsSound,
         NEW x \in Int, NEW g \in Nat, NEW lost \in Int, NEW n \in Nat, NEW y \in Int,
         y <= x, g <= LongestSilence, n = 0 => lost = 0, AreFew(g, lost, n), MayBeLate(x, g, lost)
  PROVE  MayBeLate(y, 0, lost)
  BY PictureNumbers DEF MayBeLate, AreFew, RefusedOutlastsSound

\* A picture is given up
LEMMA OneGivenUp ==
  ASSUME TasksAreInTime,
         NEW x \in Int, NEW g \in Nat, NEW lost \in Int, NEW n \in Nat, NEW y \in Int,
         y <= x - Net, MaxDiff + g - Lag <= x, AreFew(g, lost, n), MayBeLate(x, g, lost)
  PROVE  MayBeLate(y, g, lost + Net) /\ AreFew(g, lost + Net, n + 1)
  BY PictureNumbers DEF MayBeLate, AreFew

\* A tick of the clock and of the sound
LEMMA TickNumbers ==
  ASSUME NEW t \in Nat, NEW update \in Nat, NEW pts \in Int, NEW end \in Int, NEW l \in Int, NEW m \in Int,
         m = l \/ m = l - 1, update = 0 => m = l
  PROVE  /\ RunningAt(t + 1, update, pts) \in Int /\ RunningAt(t, update, pts) \in Int
         /\ SoundAt(end, l) \in Int /\ SoundAt(end, m) \in Int
         /\ RunningAt(t + 1, update, pts) <= RunningAt(t, update, pts) + 1
         /\ SoundAt(end, m) <= SoundAt(end, l) + 1
         /\ SoundAt(end, m) - RunningAt(t + 1, update, pts)
              <= SoundAt(end, l) - RunningAt(t, update, pts)
  BY DurationsAreNumbers DEF RunningAt, SoundAt

\* What is known behind the first pause
LEMMA PauseFacts ==
  ASSUME ClockInv, LoneInv, PauseInv, BehindPause
  PROVE  /\ FirstPause /\ FramesFollow
         /\ now \in Nat \ {0} /\ lastUpdate \in Nat /\ lastPts \in Int
         /\ level \in Int /\ written \in Int /\ toggles \in {1, 2}
         /\ due \in [Streams -> Int] /\ frame \in [Streams -> [pts : Int, serial : Int]]
         /\ next \in [Streams -> Int]
         /\ due["audio"] \in Int /\ due["video"] \in Int
         /\ "audio" \in Streams /\ "video" \in Streams
         /\ Dur["audio"] = AudioDur /\ Dur["video"] = VideoDur
         /\ \A s \in Streams : Upcoming(s) \in Int
         /\ \A s \in Streams : due[s] # Never => now <= due[s] + Lag
         /\ RunningTime \in Int /\ SoundTime \in Int /\ Ahead \in Int /\ Gap \in Nat
         /\ Excess \in Int /\ lastPts <= RunningTime
         /\ Time = (IF toggles = 1 THEN lastPts ELSE RunningTime) /\ Time \in Int
  <1>1. /\ now \in Nat \ {0} /\ lastUpdate \in Nat /\ lastPts \in Int
        /\ level \in Int /\ written \in Int /\ toggles \in {1, 2}
        /\ due \in [Streams -> Int] /\ frame \in [Streams -> [pts : Int, serial : Int]]
        /\ next \in [Streams -> Int]
        /\ \A s \in Streams : due[s] # Never => now <= due[s] + Lag
    BY DEF ClockInv, ClockTypes, LoneInv, LoneTypes, BehindPause
  <1>2. "audio" \in Streams /\ "video" \in Streams
    BY DEF Streams
  <1>3. due["audio"] \in Int /\ due["video"] \in Int
    BY <1>1, <1>2
  <1>4. Dur["audio"] = AudioDur /\ Dur["video"] = VideoDur
    BY <1>2 DEF Dur
  <1>5. \A s \in Streams : Upcoming(s) \in Int
    BY <1>1 DEF Upcoming
  <1>6. FirstPause /\ FramesFollow /\ lastUpdate <= now
    BY DEF PauseInv, FirstPause
  <1>7. RunningTime \in Int /\ lastPts <= RunningTime
    BY <1>1, <1>6 DEF RunningTime, RunningAt
  <1>8. SoundTime \in Int
    BY <1>1, DurationsAreNumbers DEF SoundTime, SoundAt
  <1>9. Ahead \in Int /\ Gap \in Nat
    BY <1>7, <1>8 DEF Ahead, AheadOf, Greatest, Gap
  <1>10. Excess \in Int
    BY <1>1, <1>2, <1>3, <1>5, <1>9 DEF Excess, ExcessOf
  <1>11. Time = (IF toggles = 1 THEN lastPts ELSE RunningTime)
    BY <1>6 DEF FirstPause, Time, RestartsClock, RunningTime, RunningAt
  <1>12. Time \in Int
    BY <1>1, <1>7, <1>11
  <1> QED
    BY <1>1, <1>2, <1>3, <1>4, <1>5, <1>6, <1>7, <1>8, <1>9, <1>10, <1>11, <1>12

LEMMA InitPause == Init => PauseInv
  BY DEF Init, PauseInv, BehindPause

\* No clock was set in the future
LEMMA UpdatesAreOver ==
  ASSUME ClockInv, PauseInv, [Next]_vars
  PROVE  lastUpdate' <= now'
  <1>1. lastUpdate <= now /\ now \in Nat /\ lastUpdate \in Nat
    BY DEF PauseInv, ClockInv, ClockTypes
  <1>2. AskedAt <= now
    BY <1>1 DEF AskedAt
  <1>3. ASSUME NEW s \in Streams, NEW f, OnFrame(s, f)
        PROVE  lastUpdate' <= now'
    <2>1. now' = now /\ (lastUpdate' = lastUpdate \/ lastUpdate' = now \/ lastUpdate' = AskedAt)
      BY <1>3 DEF OnFrame, OnAudioFrame, OnVideoFrame
    <2> QED
      BY <1>1, <1>2, <2>1
  <1>4. ASSUME NEW s \in Streams, ProcessInternal(s)
        PROVE  lastUpdate' <= now'
    BY <1>1, <1>3, <1>4 DEF ProcessInternal, TriesAgain, Receives, FindsNothing, Completes, clockVars
  <1>5. CASE PlayOrPause
    BY <1>1, <1>5 DEF PlayOrPause
  <1>6. ASSUME NEW d, Seek(d)
        PROVE  lastUpdate' <= now'
    BY <1>1, <1>2, <1>6 DEF Seek
  <1>7. CASE Tick
    BY <1>1, <1>7 DEF Tick, clockVars
  <1>8. CASE UNCHANGED vars
    BY <1>1, <1>8 DEF vars, clockVars
  <1> QED
    BY <1>4, <1>5, <1>6, <1>7, <1>8 DEF Next

\* The pause comes: the picture is in time and sound would not set the clock forward, but asking for
\* the time sets it back to where sound set it last
LEMMA PauseBegins ==
  ASSUME TasksAreInTime, SoundIsInTime, ClockInv, LoneInv, SoundInv, PauseInv,
         PlayOrPause, toggles = 0, seeks = 0, stalls = 0
  PROVE  FirstPause'
  <1>1. /\ ~paused /\ dropped = 0 /\ start = 0 /\ seekId = 0
        /\ FramesFollow /\ ClockLeads /\ PictureInTime
        /\ Time = (IF lastUpdate = 0 THEN lastPts ELSE now - lastUpdate + lastPts)
        /\ Time \in Int /\ written \in Int /\ level \in Int /\ now \in Nat \ {0}
        /\ lastUpdate \in Nat /\ lastPts \in Int
        /\ \A s \in Streams : Upcoming(s) \in Int
        /\ "audio" \in Streams /\ "video" \in Streams
        /\ due \in [Streams -> Int]
    BY LoneFacts DEF LeftAlone
  <1>2. /\ toggles' = 1 /\ paused' = TRUE /\ dropped' = 0
        /\ UNCHANGED <<now, lastUpdate, lastPts, seekId, start, next, frame, due, level, reached, written>>
    <2>1. toggles' = 1
      BY DEF PlayOrPause
    <2>2. /\ paused' = TRUE /\ dropped' = 0
          /\ UNCHANGED <<now, lastUpdate, lastPts, seekId, start, next, frame, due, level, reached,
                         written>>
      BY <1>1 DEF PlayOrPause, loopVars, renderVars
    <2> QED
      BY <2>1, <2>2
  <1>3. /\ lastUpdate <= now /\ Time = RunningTime /\ SoundTime \in Int
        /\ SoundTime <= Time /\ (lastUpdate = 0 => level = 0)
    BY <1>1, DurationsAreNumbers DEF PauseInv, RunningTime, RunningAt, SoundTime, SoundAt, ClockLeads
  <1>4. Ahead = Time /\ Gap = 0
    BY <1>1, <1>3 DEF Ahead, AheadOf, Gap, Greatest
  <1>5. /\ RunningTime' = RunningTime /\ SoundTime' = SoundTime
        /\ \A s \in Streams : Upcoming(s)' = Upcoming(s)
    BY <1>2 DEF RunningTime, SoundTime, Upcoming
  <1>6. Ahead' = Ahead /\ Gap' = Gap /\ Excess' = Excess
    BY <1>1, <1>2, <1>5 DEF Ahead, Gap, Excess
  <1>7. Time' = lastPts
    BY <1>2 DEF Time, RestartsClock
  <1>8. due["video"] # Never => Time <= Upcoming("video") + (now - due["video"])
    BY <1>1 DEF PictureInTime
  <1>9. \A s \in Streams : due[s] # Never => now <= due[s] + Lag
    BY DEF LoneInv, LoneTypes
  <1>10. /\ due["video"] \in Int /\ due["audio"] \in Int /\ Upcoming("video") \in Int
         /\ due["video"] # Never => now <= due["video"] + Lag
         /\ due["audio"] # Never => now <= due["audio"] + Lag
    BY <1>1, <1>9
  <1>11. lastPts <= Time
    BY <1>1, <1>3
  <1>12. ASSUME due["video"] # Never
         PROVE  /\ Excess <= 0
                /\ lastPts <= Upcoming("video") + Lag /\ SoundTime <= Upcoming("video") + Lag
    <2>1. Time <= Upcoming("video") + (now - due["video"]) /\ now - due["video"] <= Lag
      BY <1>1, <1>8, <1>10, <1>12, PictureNumbers
    <2>2. Excess = Time - Upcoming("video") - (now - due["video"])
      BY <1>4 DEF Excess, ExcessOf
    <2> QED
      BY <1>1, <1>3, <1>10, <1>11, <2>1, <2>2, PictureNumbers
  <1>13. ASSUME due["audio"] # Never
         PROVE  SoundTime - lastPts <= LongestSilence
    <2>1. SoundInTime
      BY <1>13 DEF SoundInv
    <2>2. CASE written = 0
      <3>1. level = 0 /\ lastPts = 0
        BY <2>1, <2>2 DEF SoundInTime
      <3> QED
        BY <2>2, <3>1, PictureNumbers DEF SoundTime, SoundAt
    <2>3. CASE written # 0
      <3>1. /\ lastUpdate # 0
            /\ due["audio"] <= lastUpdate + Lag + WaitForRoom
        BY <1>1, <1>10, <2>1, <2>3, SoundNumbers DEF SoundInTime
      <3>2. now - lastUpdate <= LongestSilence
        BY <1>1, <1>10, <1>13, <3>1, SoundNumbers DEF LongestSilence
      <3>3. Time - lastPts = now - lastUpdate
        BY <1>1, <3>1
      <3> QED
        BY <1>1, <1>3, <3>2, <3>3, PictureNumbers
    <2> QED
      BY <2>2, <2>3
  <1>14. Lost' = 0 * Net /\ 0 * Net = 0
    BY <1>2, PictureNumbers DEF Lost
  <1>15. AreFew(Gap, Lost, dropped)'
    BY <1>2 DEF AreFew
  <1>16. due["video"] # Never => MayBeLate(Excess, Gap, Lost)'
    BY <1>4, <1>6, <1>12 DEF MayBeLate
  <1>17. FramesFollow'
    BY <1>1, <1>2, <1>5 DEF FramesFollow
  <1> QED
    BY <1>1, <1>2, <1>3, <1>5, <1>7, <1>10, <1>12, <1>13, <1>15, <1>16, <1>17 DEF FirstPause

\* The pause ends: the clock shows what went by since somebody asked for the time
LEMMA PauseEnds ==
  ASSUME ClockInv, LoneInv, PauseInv, BehindPause, PlayOrPause, BehindPause'
  PROVE  FirstPause'
  <1>1. toggles = 1 /\ toggles' = 2
    BY DEF BehindPause, PlayOrPause
  <1>2. /\ FirstPause /\ FramesFollow /\ "audio" \in Streams /\ "video" \in Streams
        /\ RunningTime \in Int /\ SoundTime \in Int /\ lastPts \in Int /\ lastPts <= RunningTime
        /\ Time = lastPts
    BY <1>1, PauseFacts
  <1>3. /\ paused' = FALSE
        /\ UNCHANGED <<now, lastUpdate, lastPts, seekId, start, next, frame, due, level, reached, written,
                       dropped>>
    BY <1>1, <1>2 DEF FirstPause, PlayOrPause, loopVars, renderVars
  <1>4. /\ RunningTime' = RunningTime /\ SoundTime' = SoundTime
        /\ \A s \in Streams : Upcoming(s)' = Upcoming(s)
    BY <1>3 DEF RunningTime, SoundTime, Upcoming
  <1>5. Ahead' = Ahead /\ Gap' = Gap /\ Excess' = Excess /\ Lost' = Lost
    BY <1>2, <1>3, <1>4 DEF Ahead, Gap, Excess, Lost
  <1>6. Time' = RunningTime
    BY <1>3, <1>4 DEF Time, RestartsClock, RunningTime, RunningAt
  <1>7. LongestSilence \in Int
    BY BoundsAssumption, SoundNumbers DEF LongestSilence
  <1>8. due["audio"] # Never => SoundTime - RunningTime <= LongestSilence
    BY <1>2, <1>7 DEF FirstPause
  <1>9. FramesFollow'
    BY <1>2, <1>3, <1>4 DEF FramesFollow
  <1>10. AreFew(Gap, Lost, dropped)' /\ (due["video"] # Never => MayBeLate(Excess, Gap, Lost)')
    BY <1>2, <1>3, <1>5 DEF FirstPause
  <1> QED
    BY <1>1, <1>2, <1>3, <1>4, <1>6, <1>8, <1>9, <1>10 DEF FirstPause

\* A tick
LEMMA TickPause ==
  ASSUME TasksAreInTime, ClockInv, LoneInv, PauseInv, BehindPause, Tick
  PROVE  FirstPause'
  <1>1. /\ now' = now + 1
        /\ level' = IF IsHeard THEN level - 1 ELSE level
        /\ UNCHANGED <<paused, lastUpdate, lastPts, seekId, start, next, frame, due, written,
                       toggles, seeks, stalls, dropped>>
    BY DEF Tick, clockVars, loopVars, countVars
  <1>2. FirstPause /\ FramesFollow /\ "audio" \in Streams /\ "video" \in Streams
    BY PauseFacts
  <1>3. PICK d \in Int, u \in Int : d = due["video"] /\ u = Upcoming("video")
    BY PauseFacts
  <1>4. /\ now \in Nat /\ lastUpdate \in Nat /\ lastPts \in Int /\ level \in Int /\ written \in Int
        /\ toggles \in {1, 2} /\ d \in Int /\ u \in Int /\ 1 \in Nat
    BY <1>3, PauseFacts
  <1>5. \A s \in Streams : Upcoming(s)' = Upcoming(s)
    BY <1>1 DEF Upcoming
  <1>6. PICK m \in Int : level' = m
    BY <1>1, <1>4
  <1>7. /\ m = level \/ m = level - 1
        /\ lastUpdate = 0 => m = level
        /\ toggles = 1 => m = level
    BY <1>1, <1>2, <1>4, <1>6 DEF IsHeard, FirstPause
  <1> DEFINE r == RunningAt(now, lastUpdate, lastPts)
             q == RunningAt(now + 1, lastUpdate, lastPts)
             s == SoundAt(written, level)
             p == SoundAt(written, m)
             silent == due["audio"] = Never
  <1>8. RunningTime = r /\ RunningTime' = q /\ SoundTime = s /\ SoundTime' = p
    BY <1>1, <1>6 DEF RunningTime, SoundTime
  <1>9. /\ r \in Int /\ q \in Int /\ s \in Int /\ p \in Int
        /\ q <= r + 1 /\ p <= s + 1 /\ p - q <= s - r
    BY <1>4, <1>7, TickNumbers
  <1>10. toggles = 1 => p = s
    BY <1>7
  <1>11. /\ Ahead = AheadOf(silent, r, s) /\ Ahead' = AheadOf(silent, q, p)
         /\ Gap = AheadOf(silent, r, s) - r /\ Gap' = AheadOf(silent, q, p) - q
    BY <1>1, <1>8 DEF Ahead, Gap
  <1>12. /\ Excess = ExcessOf(AheadOf(silent, r, s), u, now, d)
         /\ Excess' = ExcessOf(AheadOf(silent, q, p), u, now + 1, d)
    BY <1>1, <1>2, <1>3, <1>5, <1>11 DEF Excess
  <1>13. Lost' = Lost /\ Lost \in Int /\ dropped \in Nat
    BY <1>1, <1>2, PictureNumbers DEF Lost, FirstPause
  <1>14. silent \in BOOLEAN
    OBVIOUS
  <1>15. LongestSilence \in Nat /\ (due["audio"] # Never => s - Time <= LongestSilence)
    BY <1>2, <1>8, PictureNumbers DEF FirstPause
  <1>16. Time = (IF toggles = 1 THEN lastPts ELSE r)
    BY <1>8, PauseFacts
  <1>17. Time' = (IF toggles = 1 THEN lastPts ELSE q)
    BY <1>1, <1>2, <1>8 DEF Time, RestartsClock, RunningTime, RunningAt, FirstPause
  <1> HIDE DEF r, q, s, p, silent
  <1> DEFINE a == AheadOf(silent, r, s)
             b == AheadOf(silent, q, p)
             x == ExcessOf(a, u, now, d)
             y == ExcessOf(b, u, now + 1, d)
  <1>18. /\ MayBeLate(x, a - r, Lost) => MayBeLate(y, b - q, Lost)
         /\ AreFew(a - r, Lost, dropped) => AreFew(b - q, Lost, dropped)
    <2>1. /\ a \in Int /\ b \in Int /\ a - r \in Nat /\ b - q \in Nat
          /\ b <= a + 1 /\ b - q <= a - r
      BY <1>9, <1>14 DEF AheadOf, Greatest
    <2> HIDE DEF a, b
    <2>2. x \in Int /\ y \in Int /\ y <= x /\ y - (b - q) <= x - (a - r)
      BY <1>4, <1>9, <2>1 DEF ExcessOf
    <2> HIDE DEF x, y
    <2> QED
      BY <1>13, <2>1, <2>2, LessLate
  <1>19. AreFew(Gap, Lost, dropped)' /\ (due["video"] # Never => MayBeLate(Excess, Gap, Lost)')
    BY <1>1, <1>2, <1>11, <1>12, <1>13, <1>18 DEF FirstPause
  <1>20. due["audio"] # Never => p - Time' <= LongestSilence
    <2>1. CASE toggles = 1
      <3>1. Time' = Time /\ p = s
        BY <1>10, <1>16, <1>17, <2>1
      <3> QED
        BY <1>15, <3>1
    <2>2. CASE toggles # 1
      <3>1. Time' = q /\ Time = r
        BY <1>16, <1>17, <2>2
      <3>2. s - r <= LongestSilence => p - q <= LongestSilence
        BY <1>9, <1>15
      <3> QED
        BY <1>15, <3>1, <3>2
    <2> QED
      BY <2>1, <2>2
  <1>21. FramesFollow'
    BY <1>1, <1>2, <1>5 DEF FramesFollow
  <1>22. lastUpdate = 0 => level' = 0
    BY <1>2, <1>6, <1>7 DEF FirstPause
  <1>23. toggles = 1 => SoundTime' = SoundTime
    BY <1>8, <1>10
  <1> QED
    BY <1>1, <1>2, <1>5, <1>8, <1>19, <1>20, <1>21, <1>22, <1>23 DEF FirstPause

\* A frame of sound sets the clock to where it was ahead, or leaves it
LEMMA AudioPause ==
  ASSUME TasksAreInTime, RefusedOutlastsSound, ClockInv, LoneInv, PauseInv, BehindPause,
         NEW f \in [pts : Int, serial : Int], f.pts = Upcoming("audio"), f.serial = 0,
         IsDue("audio"), OnFrame("audio", f), next' = [next EXCEPT !["audio"] = f.pts + AudioDur]
  PROVE  FirstPause'
  <1>1. /\ FirstPause /\ FramesFollow /\ "audio" \in Streams /\ "video" \in Streams
        /\ Dur["audio"] = AudioDur /\ due["audio"] # Never
        /\ now \in Nat \ {0} /\ lastUpdate \in Nat /\ lastPts \in Int
        /\ level \in Int /\ written \in Int /\ toggles \in {1, 2}
        /\ frame \in [Streams -> [pts : Int, serial : Int]]
        /\ RunningTime \in Int /\ SoundTime \in Int /\ Gap \in Nat /\ lastPts <= RunningTime
        /\ Time = (IF toggles = 1 THEN lastPts ELSE RunningTime)
    BY PauseFacts DEF IsDue
  <1>2. f.pts = written /\ f.pts >= 0
    BY <1>1 DEF FramesFollow
  <1>3. OnAudioFrame(f) /\ UNCHANGED <<now, paused, seekId, start, toggles, seeks, stalls>>
    BY <1>1, <1>2 DEF OnFrame, countVars, FirstPause
  <1>4. dropped' = dropped
    BY <1>3 DEF OnAudioFrame
  <1>5. FrameOver("audio", f)
    <2>1. now = now + 0 /\ 0 \in Nat /\ Greatest(AudioDur, Retry) \in Nat
      BY <1>1, DurationsAreNumbers DEF Greatest
    <2> QED
      BY <1>3, <2>1 DEF FrameOver, OnAudioFrame, Goes, Waits
  <1>6. /\ \A q \in Streams : /\ Upcoming(q)' >= 0
                              /\ frame'[q] # NoFrame => /\ frame'[q].serial = 0
                                                        /\ next'[q] = frame'[q].pts + Dur[q]
        /\ Upcoming("video")' = Upcoming("video") /\ due'["video"] = due["video"]
        /\ due'["audio"] # Never
        /\ frame'["audio"] = NoFrame => Upcoming("audio")' = f.pts + AudioDur
        /\ frame'["audio"] = f => Upcoming("audio")' = f.pts
    <2>1. LoneTypes' /\ FrameFollowed("audio", f)
      <3>1. /\ next' = [next EXCEPT !["audio"] = f.pts + Dur["audio"]]
            /\ UNCHANGED <<now, toggles, seeks, stalls>>
        BY <1>1, <1>3
      <3> QED
        BY <1>1, <1>5, <3>1, FollowStep
    <2>2. "audio" # "video"
      OBVIOUS
    <2> QED
      BY <1>1, <2>1, <2>2 DEF FrameFollowed
  <1>7. Lost' = Lost
    BY <1>4 DEF Lost
  <1>8. CASE HasRoom
    <2>1. /\ level' = level + AudioDur /\ written' = f.pts + AudioDur
          /\ lastUpdate' = now /\ lastPts' = f.pts - DelayOfSound
          /\ frame' = [frame EXCEPT !["audio"] = NoFrame]
      BY <1>1, <1>3, <1>8 DEF OnAudioFrame, SetsClock, Goes, FirstPause
    <2>2. frame'["audio"] = NoFrame
      BY <1>1, <2>1
    <2>3. FramesFollow'
      BY <1>1, <1>6, <2>1, <2>2 DEF FramesFollow
    <2>4. lastPts' = SoundTime /\ SoundTime' = SoundTime
      BY <1>1, <1>2, <2>1, DurationsAreNumbers DEF SoundTime, SoundAt, DelayOfSound
    <2>5. RunningTime' = SoundTime /\ Time' = SoundTime
      BY <1>1, <1>3, <2>1, <2>4 DEF RunningTime, RunningAt, Time, RestartsClock
    <2>6. Ahead' = SoundTime /\ Gap' = 0
      BY <1>1, <1>6, <2>4, <2>5 DEF Ahead, AheadOf, Greatest, Gap
    <2>7. Ahead \in Int /\ SoundTime <= Ahead /\ Gap <= LongestSilence
      <3>1. Ahead = Greatest(RunningTime, SoundTime)
        BY <1>1 DEF Ahead, AheadOf
      <3>2. SoundTime - Time <= LongestSilence /\ LongestSilence \in Nat
        BY <1>1, PictureNumbers DEF FirstPause
      <3> QED
        BY <1>1, <3>1, <3>2 DEF Greatest, Gap
    <2>8. Lost \in Int /\ dropped \in Nat /\ (dropped = 0 => Lost = 0)
      <3>1. dropped \in Nat
        BY <1>1 DEF FirstPause
      <3> QED
        BY <3>1, PictureNumbers DEF Lost
    <2>9. AreFew(0, Lost, dropped)
      BY <1>1 DEF FirstPause, AreFew
    <2>10. ASSUME due["video"] # Never
           PROVE  MayBeLate(Excess', 0, Lost)
      <3>1. PICK u \in Int, d \in Int : u = Upcoming("video") /\ d = due["video"]
        BY PauseFacts
      <3>2. Excess = Ahead - u - (now - d) /\ Excess' = SoundTime - u - (now - d)
        BY <1>3, <1>6, <2>6, <3>1 DEF Excess, ExcessOf
      <3>3. Excess \in Int /\ Excess' \in Int /\ Excess' <= Excess
        BY <1>1, <2>7, <3>1, <3>2
      <3>4. MayBeLate(Excess, Gap, Lost) /\ AreFew(Gap, Lost, dropped)
        BY <1>1, <2>10 DEF FirstPause
      <3> QED
        BY <1>1, <2>7, <2>8, <3>3, <3>4, LateBySound
    <2>11. AreFew(Gap, Lost, dropped)' /\ (due["video"] # Never => MayBeLate(Excess, Gap, Lost)')
      BY <1>4, <1>7, <2>6, <2>9, <2>10
    <2>12. toggles = 1 /\ due["video"] # Never => SoundTime <= Upcoming("video") + Lag
      BY <1>1 DEF FirstPause
    <2>13. SoundTime' - Time' <= LongestSilence /\ lastUpdate' # 0
      BY <1>1, <2>1, <2>4, <2>5, PictureNumbers
    <2> QED
      BY <1>1, <1>3, <1>4, <1>6, <2>3, <2>4, <2>11, <2>12, <2>13 DEF FirstPause
  <1>9. CASE ~HasRoom
    <2>1. /\ UNCHANGED <<level, written, lastUpdate, lastPts>>
          /\ frame' = [frame EXCEPT !["audio"] = f]
      BY <1>3, <1>9 DEF OnAudioFrame, Waits, renderVars
    <2>2. frame'["audio"] = f
      BY <1>1, <2>1
    <2>3. FramesFollow'
      BY <1>1, <1>2, <1>6, <2>1, <2>2 DEF FramesFollow
    <2>4. RunningTime' = RunningTime /\ SoundTime' = SoundTime /\ Time' = Time
      BY <1>3, <2>1 DEF RunningTime, SoundTime, Time, RestartsClock
    <2>5. Ahead' = Ahead /\ Gap' = Gap /\ Excess' = Excess
      BY <1>1, <1>3, <1>6, <2>4 DEF Ahead, Gap, Excess
    <2> QED
      BY <1>1, <1>3, <1>4, <1>6, <1>7, <2>1, <2>3, <2>4, <2>5 DEF FirstPause
  <1> QED
    BY <1>8, <1>9

\* One more picture that is given up
LEMMA OneMoreLost == TasksAreInTime => \A n \in Nat : (n + 1) * Net = n * Net + Net
  BY PictureNumbers

\* A picture is shown, given up or waits: it was late by what its task was late, and asking for the
\* time takes a paused clock back
LEMMA VideoPause ==
  ASSUME TasksAreInTime, ClockInv, LoneInv, PauseInv, BehindPause,
         NEW f \in [pts : Int, serial : Int], f.pts = Upcoming("video"), f.serial = 0,
         IsDue("video"), OnFrame("video", f), next' = [next EXCEPT !["video"] = f.pts + VideoDur]
  PROVE  FirstPause'
  <1>1. /\ FirstPause /\ FramesFollow /\ "audio" \in Streams /\ "video" \in Streams
        /\ Dur["video"] = VideoDur /\ due["video"] # Never
        /\ now \in Nat \ {0} /\ lastUpdate \in Nat /\ lastPts \in Int
        /\ level \in Int /\ written \in Int /\ toggles \in {1, 2}
        /\ frame \in [Streams -> [pts : Int, serial : Int]] /\ due \in [Streams -> Int]
        /\ RunningTime \in Int /\ SoundTime \in Int /\ Ahead \in Int /\ Gap \in Nat
        /\ lastPts <= RunningTime
        /\ Time = (IF toggles = 1 THEN lastPts ELSE RunningTime) /\ Time \in Int
    BY PauseFacts DEF IsDue
  <1>2. PICK u \in Int, d \in Int : u = Upcoming("video") /\ d = due["video"]
    BY PauseFacts
  <1>3. u \in Int /\ d \in Int /\ f.pts = u /\ d <= now /\ now <= d + Lag
    BY <1>2, PauseFacts DEF IsDue
  <1>4. u >= 0
    BY <1>1, <1>2 DEF FramesFollow
  <1>5. OnVideoFrame(f) /\ UNCHANGED <<now, paused, seekId, start, toggles, seeks, stalls>>
    BY <1>1, <1>3, <1>4 DEF OnFrame, countVars, FirstPause
  <1>6. lastUpdate' = AskedAt /\ UNCHANGED <<lastPts, level, written>>
    BY <1>5 DEF OnVideoFrame, renderVars
  <1>7. (toggles = 1) <=> paused
    BY <1>1 DEF FirstPause
  <1>8. AskedAt \in Nat /\ AskedAt # 0 /\ AskedAt = (IF lastUpdate = 0 \/ paused THEN now ELSE lastUpdate)
    BY <1>1 DEF AskedAt, RestartsClock
  <1>9. lastUpdate' # 0 /\ lastUpdate' \in Nat
    BY <1>6, <1>8
  <1>10. RunningTime' = RunningAt(now, AskedAt, lastPts)
    BY <1>5, <1>6 DEF RunningTime
  <1>11. RunningAt(now, AskedAt, lastPts) = Time
    BY <1>1, <1>7, <1>8 DEF RunningAt, RunningTime
  <1>12. Time' = (IF paused THEN lastPts ELSE RunningTime')
    BY <1>5, <1>6, <1>9 DEF Time, RestartsClock, RunningTime, RunningAt
  <1>13. Time' = Time /\ RunningTime' = Time /\ SoundTime' = SoundTime
    BY <1>1, <1>6, <1>7, <1>10, <1>11, <1>12 DEF SoundTime
  <1>14. MaxDiff \in Nat /\ Lag \in Nat /\ Lag < MaxDiff /\ RefusedWait \in Nat
         /\ RefusedWait = Greatest(VideoDur, Refused)
         /\ VideoDur \in Nat /\ Net \in Nat /\ Net = VideoDur - Lag
    BY PictureNumbers DEF RefusedWait
  <1>15. /\ IsEarly(f) <=> u - Time >= MaxDiff
         /\ IsLate(f) <=> u - Time <= -MaxDiff
         /\ TicksUntil(f) = u - Time
    BY <1>1, <1>3, <1>14 DEF IsEarly, IsLate, TicksUntil
  <1>16. FrameOver("video", f)
    <2>1. now = now + 0 /\ 0 \in Nat
      BY <1>1
    <2>2. IsEarly(f) => TicksUntil(f) \in Nat
      BY <1>1, <1>3, <1>14, <1>15
    <2> QED
      BY <1>5, <1>14, <2>1, <2>2 DEF FrameOver, OnVideoFrame, Goes, Waits
  <1>17. /\ \A q \in Streams : /\ Upcoming(q)' >= 0
                               /\ frame'[q] # NoFrame => /\ frame'[q].serial = 0
                                                         /\ next'[q] = frame'[q].pts + Dur[q]
         /\ Upcoming("audio")' = Upcoming("audio") /\ due'["audio"] = due["audio"]
         /\ frame'["video"] = NoFrame => Upcoming("video")' = u + VideoDur
         /\ frame'["video"] = f => Upcoming("video")' = u
    <2>1. LoneTypes' /\ FrameFollowed("video", f)
      <3>1. /\ next' = [next EXCEPT !["video"] = f.pts + Dur["video"]]
            /\ UNCHANGED <<now, toggles, seeks, stalls>>
        BY <1>1, <1>5
      <3> QED
        BY <1>1, <1>16, <3>1, FollowStep
    <2>2. "audio" # "video"
      OBVIOUS
    <2> QED
      BY <1>1, <1>3, <2>1, <2>2 DEF FrameFollowed
  <1>18. FramesFollow'
    BY <1>1, <1>6, <1>17 DEF FramesFollow
  <1>19. due["audio"] # Never => SoundTime' - Time' <= LongestSilence
    BY <1>1, <1>13 DEF FirstPause
  <1> DEFINE silent == due["audio"] = Never
             a == AheadOf(silent, Time, SoundTime)
  <1>20. Ahead' = a /\ Gap' = a - Time
    BY <1>13, <1>17 DEF Ahead, Gap
  <1>21. a \in Int /\ a - Time \in Nat
    BY <1>1 DEF AheadOf, Greatest
  <1>22. Waits("video", f, u - Time) =>
           frame'["video"] = f /\ due'["video"] = now + (u - Time)
    BY <1>1 DEF Waits
  <1>23. Waits("video", f, RefusedWait) =>
           frame'["video"] = f /\ due'["video"] = now + RefusedWait
    BY <1>1 DEF Waits
  <1>24. Goes("video") => frame'["video"] = NoFrame /\ due'["video"] = now
    BY <1>1 DEF Goes
  <1>25. ~(IsEarly(f) /\ IsLate(f))
    BY <1>1, <1>3, <1>14, <1>15
  <1>26. \/ IsEarly(f) /\ Waits("video", f, TicksUntil(f)) /\ dropped' = dropped
         \/ IsLate(f) /\ Goes("video") /\ dropped' = dropped + 1
         \/ ~IsEarly(f) /\ ~IsLate(f) /\ paused /\ Waits("video", f, RefusedWait) /\ dropped' = dropped
         \/ ~IsEarly(f) /\ ~IsLate(f) /\ ~paused /\ Goes("video") /\ dropped' = dropped
    BY <1>5, <1>14 DEF OnVideoFrame
  <1>27. PICK e \in Int : due'["video"] = e
    BY <1>1, <1>3, <1>14, <1>15, <1>22, <1>23, <1>24, <1>26
  <1>28. PICK v \in Int : Upcoming("video")' = v
    BY <1>3, <1>14, <1>15, <1>17, <1>22, <1>23, <1>24, <1>26
  <1>29. \/ /\ u - Time >= MaxDiff /\ e = now + (u - Time) /\ v = u /\ dropped' = dropped
         \/ /\ u - Time <= -MaxDiff /\ e = now /\ v = u + VideoDur /\ dropped' = dropped + 1
         \/ /\ toggles = 1 /\ e = now + RefusedWait /\ v = u /\ dropped' = dropped
         \/ /\ toggles # 1 /\ e = now /\ v = u + VideoDur /\ dropped' = dropped
    BY <1>7, <1>15, <1>17, <1>22, <1>23, <1>24, <1>26, <1>27, <1>28
  <1> HIDE DEF a, silent
  <1>30. Excess' = a - v - (now - e)
    BY <1>5, <1>20, <1>27, <1>28 DEF Excess, ExcessOf
  <1>31. dropped \in Nat /\ AreFew(Gap, Lost, dropped) /\ MayBeLate(Excess, Gap, Lost)
    BY <1>1 DEF FirstPause
  <1>32. CASE toggles = 1
    <2>1. dropped = 0 /\ Time = lastPts
      BY <1>1, <1>32 DEF FirstPause
    <2>2. lastPts <= u + Lag /\ a <= u + Lag
      <3>1. lastPts <= u + Lag /\ (~silent => SoundTime <= u + Lag)
        BY <1>1, <1>2, <1>32 DEF FirstPause, silent
      <3>2. a = (IF silent THEN lastPts ELSE IF lastPts < SoundTime THEN SoundTime ELSE lastPts)
        BY <2>1 DEF a, AheadOf, Greatest
      <3> QED
        BY <3>1, <3>2
    <2>3. v = u /\ dropped' = dropped /\ Excess' \in Int
          /\ (Excess' = a - Time \/ Excess' <= RefusedWait + Lag)
      BY <1>1, <1>3, <1>14, <1>21, <1>27, <1>28, <1>29, <1>30, <1>32, <2>1, <2>2
    <2>4. Lost' = 0 * Net /\ 0 * Net = 0 /\ dropped' = 0
      BY <1>14, <2>1, <2>3 DEF Lost
    <2>5. MayBeLate(Excess, Gap, Lost)' /\ AreFew(Gap, Lost, dropped)'
      <3>1. MayBeLate(Excess', a - Time, 0)
        BY <1>14, <2>3 DEF MayBeLate
      <3>2. AreFew(a - Time, 0, 0)
        BY DEF AreFew
      <3> QED
        BY <1>20, <2>4, <3>1, <3>2
    <2>6. lastPts' <= Upcoming("video")' + Lag
      BY <1>6, <1>28, <2>2, <2>3
    <2>7. due'["audio"] # Never => SoundTime' <= Upcoming("video")' + Lag
      BY <1>1, <1>2, <1>13, <1>17, <1>28, <1>32, <2>3 DEF FirstPause
    <2> QED
      BY <1>1, <1>5, <1>9, <1>17, <1>18, <1>19, <1>32, <2>1, <2>4, <2>5, <2>6, <2>7 DEF FirstPause
  <1>33. CASE toggles # 1
    <2>1. a = Ahead /\ Gap = a - Time /\ Time = RunningTime
      BY <1>1, <1>33 DEF Ahead, Gap, a, silent
    <2>2. Excess \in Int /\ Excess = a - u - (now - d)
      BY <1>1, <1>2, <1>3, <1>21, <2>1 DEF Excess, ExcessOf
    <2>3. Lost \in Int /\ Lost' = dropped' * Net
      BY <1>14, <1>31 DEF Lost
    <2>4. MayBeLate(Excess, a - Time, Lost) /\ AreFew(a - Time, Lost, dropped)
      BY <1>31, <2>1
    <2>5. MayBeLate(Excess', a - Time, Lost') /\ AreFew(a - Time, Lost', dropped')
      <3>1. Excess' \in Int
        BY <1>3, <1>14, <1>21, <1>27, <1>28, <1>30
      <3>2. CASE Excess' = a - Time /\ dropped' = dropped
        <4>1. MayBeLate(Excess', a - Time, Lost)
          BY <1>21, <3>2 DEF MayBeLate
        <4>2. Lost' = Lost
          BY <2>3, <3>2 DEF Lost
        <4> QED
          BY <2>4, <3>2, <4>1, <4>2
      <3>3. CASE Excess' = a - u - VideoDur
        <4>1. Excess' <= Excess - Net
          BY <1>1, <1>3, <1>14, <1>21, <2>2, <3>3
        <4>2. CASE dropped' = dropped
          <5>1. Excess' <= Excess
            BY <1>14, <1>21, <2>2, <3>1, <4>1
          <5>2. Lost' = Lost
            BY <2>3, <4>2 DEF Lost
          <5> QED
            <6>1. MayBeLate(Excess', a - Time, Lost)
              BY <1>14, <1>21, <2>2, <2>3, <2>4, <3>1, <5>1, PictureNumbers DEF MayBeLate
            <6> QED
              BY <2>4, <4>2, <5>2, <6>1
        <4>3. CASE dropped' = dropped + 1 /\ u - Time <= -MaxDiff
          <5>1. MaxDiff + (a - Time) - Lag <= Excess
            BY <1>1, <1>3, <1>14, <1>21, <2>2, <4>3
          <5>2. Lost' = Lost + Net
            BY <1>31, <2>3, <4>3, OneMoreLost DEF Lost
          <5> QED
            <6>1. PICK x \in Int, y \in Int, g \in Nat, lost \in Int, n \in Nat :
                    /\ x = Excess /\ y = Excess' /\ g = a - Time /\ lost = Lost /\ n = dropped
              BY <1>21, <1>31, <2>2, <2>3, <3>1
            <6>2. /\ y <= x - Net /\ MaxDiff + g - Lag <= x
                  /\ AreFew(g, lost, n) /\ MayBeLate(x, g, lost)
              BY <2>4, <4>1, <5>1, <6>1
            <6>3. MayBeLate(y, g, lost + Net) /\ AreFew(g, lost + Net, n + 1)
              BY <6>2, OneGivenUp
            <6> QED
              BY <4>3, <5>2, <6>1, <6>3
        <4> QED
          BY <1>3, <1>14, <1>21, <1>29, <1>30, <1>33, <3>2, <3>3, <4>2, <4>3
      <3>4. (Excess' = a - Time /\ dropped' = dropped) \/ Excess' = a - u - VideoDur
        BY <1>1, <1>3, <1>14, <1>21, <1>29, <1>30, <1>33
      <3> QED
        BY <3>2, <3>3, <3>4
    <2>6. dropped' \in Nat
      BY <1>29, <1>31
    <2>7. MayBeLate(Excess, Gap, Lost)' /\ AreFew(Gap, Lost, dropped)'
      BY <1>20, <2>5
    <2>8. toggles' # 1 /\ ~paused' /\ start' = 0 /\ seekId' = 0
      BY <1>1, <1>5, <1>7, <1>33 DEF FirstPause
    <2> QED
      BY <1>9, <1>17, <1>18, <1>19, <2>6, <2>7, <2>8 DEF FirstPause
  <1> QED
    BY <1>32, <1>33

\* A step of a loop
LEMMA ProcessPause ==
  ASSUME TasksAreInTime, RefusedOutlastsSound, ClockInv, LoneInv, PauseInv,
         NEW s \in Streams, ProcessInternal(s), BehindPause'
  PROVE  FirstPause'
  <1>1. frame[s] \in [pts : Int, serial : Int] /\ next \in [Streams -> Int] /\ seekId \in Int
    BY DEF ClockInv, ClockTypes
  <1>2. toggles \in Nat /\ seeks \in Nat /\ stalls \in Nat
    BY DEF LoneInv, LoneTypes
  <1>3. (s = "audio" /\ Dur[s] = AudioDur) \/ (s = "video" /\ Dur[s] = VideoDur)
    BY DEF Streams, Dur
  <1>4. BehindPause
    <2>1. toggles' = toggles /\ seeks' = seeks /\ (stalls' = stalls \/ stalls' = stalls + 1)
      BY DEF ProcessInternal, TriesAgain, Receives, FindsNothing, Completes, OnFrame, countVars
    <2> QED
      BY <1>2, <2>1 DEF BehindPause
  <1>5. FirstPause /\ FramesFollow
    BY <1>4, PauseFacts
  <1>6. ASSUME NEW f \in [pts : Int, serial : Int], OnFrame(s, f), IsDue(s),
               f.pts = Upcoming(s), f.serial = 0, next' = [next EXCEPT ![s] = f.pts + Dur[s]]
        PROVE  FirstPause'
    BY <1>3, <1>4, <1>6, AudioPause, VideoPause
  <1>7. CASE TriesAgain(s)
    <2>1. /\ frame[s].pts = Upcoming(s) /\ frame[s].serial = 0 /\ next[s] = frame[s].pts + Dur[s]
          /\ OnFrame(s, frame[s]) /\ IsDue(s)
      BY <1>5, <1>7 DEF TriesAgain, FramesFollow, Upcoming
    <2>2. next' = next /\ next = [next EXCEPT ![s] = next[s]]
      BY <1>1, <1>7 DEF TriesAgain
    <2> QED
      BY <1>1, <1>6, <2>1, <2>2
  <1>8. CASE Receives(s)
    <2> DEFINE f == [pts |-> next[s], serial |-> seekId]
    <2>1. f \in [pts : Int, serial : Int] /\ f.pts = next[s] /\ f.serial = seekId
      BY <1>1
    <2>2. OnFrame(s, f) /\ IsDue(s) /\ frame[s] = NoFrame
      BY <1>8 DEF Receives
    <2>3. next' = [next EXCEPT ![s] = next[s] + Dur[s]]
      BY <1>8 DEF Receives
    <2>4. f.pts = Upcoming(s) /\ f.serial = 0
      BY <1>5, <2>1, <2>2 DEF FirstPause, Upcoming
    <2> HIDE DEF f
    <2> QED
      BY <1>6, <2>1, <2>2, <2>3, <2>4
  <1>9. CASE FindsNothing(s)
    BY <1>2, <1>9 DEF FindsNothing, BehindPause
  <1>10. CASE Completes(s)
    <2>1. /\ due' = [due EXCEPT ![s] = Never]
          /\ UNCHANGED <<now, paused, lastUpdate, lastPts, seekId, start, next, frame, level, written,
                         toggles, seeks, stalls, dropped>>
      BY <1>10 DEF Completes, clockVars, renderVars, countVars
    <2>2. /\ due \in [Streams -> Int] /\ "audio" \in Streams /\ "video" \in Streams /\ now \in Nat
          /\ RunningTime \in Int /\ SoundTime \in Int /\ Ahead \in Int /\ Gap \in Nat
      BY <1>4, PauseFacts
    <2>3. /\ Time' = Time /\ RunningTime' = RunningTime /\ SoundTime' = SoundTime /\ Lost' = Lost
          /\ \A q \in Streams : Upcoming(q)' = Upcoming(q)
      BY <2>1 DEF Time, RestartsClock, RunningTime, SoundTime, Lost, Upcoming
    <2>4. FramesFollow'
      BY <1>5, <2>1, <2>2, <2>3 DEF FramesFollow
    <2>5. CASE s = "video"
      <3>1. due'["video"] = Never /\ due'["audio"] = due["audio"]
        BY <2>1, <2>2, <2>5
      <3>2. Ahead' = Ahead /\ Gap' = Gap
        BY <2>3, <3>1 DEF Ahead, Gap
      <3> QED
        BY <1>5, <2>1, <2>3, <2>4, <3>1, <3>2 DEF FirstPause
    <2>6. CASE s = "audio"
      <3>1. due'["audio"] = Never /\ due'["video"] = due["video"]
        BY <2>1, <2>2, <2>6
      <3>2. Ahead' = RunningTime /\ Gap' = 0
        BY <2>2, <2>3, <3>1 DEF Ahead, AheadOf, Gap
      <3>3. RunningTime <= Ahead /\ Gap = Ahead - RunningTime
        BY <2>2 DEF Ahead, AheadOf, Greatest, Gap
      <3>4. AreFew(0, Lost, dropped)
        BY <1>5 DEF FirstPause, AreFew
      <3>5. ASSUME due["video"] # Never
            PROVE  MayBeLate(Excess', 0, Lost)
        <4>1. PICK u \in Int, d \in Int : u = Upcoming("video") /\ d = due["video"]
          BY <1>4, PauseFacts
        <4>2. Excess = Ahead - u - (now - d) /\ Excess' = RunningTime - u - (now - d)
          BY <2>1, <2>2, <2>3, <3>1, <3>2, <4>1 DEF Excess, ExcessOf
        <4>3. Excess \in Int /\ Excess' \in Int /\ Excess' <= Excess /\ Excess' - 0 <= Excess - Gap
          BY <2>2, <3>3, <4>1, <4>2
        <4>4. Lost \in Int /\ dropped \in Nat
          BY <1>5, PictureNumbers DEF FirstPause, Lost
        <4>5. MayBeLate(Excess, Gap, Lost)
          BY <1>5, <3>5 DEF FirstPause
        <4> QED
          <5>1. PICK x \in Int, y \in Int, lost \in Int, g \in Nat :
                  x = Excess /\ y = Excess' /\ lost = Lost /\ g = Gap
            BY <2>2, <4>3, <4>4
          <5>2. y <= x /\ y - 0 <= x - g /\ MayBeLate(x, g, lost)
            BY <4>3, <4>5, <5>1
          <5>3. MayBeLate(y, 0, lost)
            BY <5>2, PictureNumbers DEF MayBeLate
          <5> QED
            BY <5>1, <5>3
      <3> QED
        BY <1>5, <2>1, <2>2, <2>3, <2>4, <3>1, <3>2, <3>4, <3>5 DEF FirstPause
    <2> QED
      BY <1>3, <2>5, <2>6
  <1> QED
    BY <1>7, <1>8, <1>9, <1>10 DEF ProcessInternal

LEMMA NextPause ==
  ASSUME TasksAreInTime, SoundIsInTime, RefusedOutlastsSound,
         ClockInv, LoneInv, SoundInv, PauseInv, [Next]_vars
  PROVE  PauseInv'
  <1>1. toggles \in Nat /\ seeks \in Nat /\ stalls \in Nat
    BY DEF LoneInv, LoneTypes
  <1>2. ASSUME NEW s \in Streams, ProcessInternal(s), BehindPause'
        PROVE  FirstPause'
    BY <1>2, ProcessPause
  <1>3. ASSUME PlayOrPause, BehindPause'
        PROVE  FirstPause'
    <2>1. toggles' = toggles + 1 /\ seeks' = seeks /\ stalls' = stalls
      BY <1>3 DEF PlayOrPause
    <2>2. seeks = 0 /\ stalls = 0 /\ (toggles = 0 \/ toggles = 1)
      BY <1>1, <1>3, <2>1 DEF BehindPause
    <2>3. CASE toggles = 0
      BY <1>3, <2>2, <2>3, PauseBegins
    <2>4. CASE toggles = 1
      <3>1. BehindPause
        BY <2>2, <2>4 DEF BehindPause
      <3> QED
        BY <1>3, <3>1, PauseEnds
    <2> QED
      BY <2>2, <2>3, <2>4
  <1>4. ASSUME NEW d, Seek(d)
        PROVE  ~BehindPause'
    BY <1>1, <1>4 DEF Seek, BehindPause
  <1>5. ASSUME Tick, BehindPause'
        PROVE  FirstPause'
    <2>1. BehindPause
      BY <1>5 DEF Tick, countVars, BehindPause
    <2> QED
      BY <1>5, <2>1, TickPause
  <1>6. ASSUME UNCHANGED vars, BehindPause'
        PROVE  FirstPause'
    <2>1. UNCHANGED <<now, paused, lastUpdate, lastPts, seekId, start, next, frame, due, level, written,
                      toggles, seeks, stalls, dropped>>
      BY <1>6 DEF vars, clockVars, loopVars, renderVars, countVars
    <2>2. FirstPause
      BY <1>6, <2>1 DEF BehindPause, PauseInv
    <2>3. /\ Time' = Time /\ RunningTime' = RunningTime /\ SoundTime' = SoundTime /\ Lost' = Lost
          /\ \A q \in Streams : Upcoming(q)' = Upcoming(q)
      BY <2>1 DEF Time, RestartsClock, RunningTime, SoundTime, Lost, Upcoming
    <2>4. "audio" \in Streams /\ "video" \in Streams
      BY DEF Streams
    <2>5. Ahead' = Ahead /\ Gap' = Gap
      BY <2>1, <2>3 DEF Ahead, Gap
    <2>6. Excess' = Excess
      BY <2>1, <2>3, <2>4, <2>5 DEF Excess
    <2>7. FramesFollow'
      BY <2>1, <2>2, <2>3, <2>4 DEF FirstPause, FramesFollow
    <2> QED
      BY <2>1, <2>2, <2>3, <2>4, <2>5, <2>6, <2>7 DEF FirstPause
  <1>7. BehindPause' => FirstPause'
    BY <1>2, <1>3, <1>4, <1>5, <1>6 DEF Next
  <1>8. lastUpdate' <= now'
    BY UpdatesAreOver
  <1> QED
    BY <1>7, <1>8 DEF PauseInv

\* Of the pictures that are given up behind the first pause, all but the last gained their length on
\* the clock, and there was no more than this to gain
LEMMA FewAreGivenUp ==
  ASSUME TasksAreInTime, LoneInv, PauseInv, toggles <= 2, seeks = 0, stalls = 0
  PROVE  /\ dropped \in Nat
         /\ dropped > 0 => (dropped - 1) * Net < Peak - MaxDiff + Lag
  <1>1. CASE toggles = 0
    BY <1>1 DEF LoneInv, LeftAlone
  <1>2. CASE toggles \in {1, 2}
    <2>1. dropped \in Nat /\ AreFew(Gap, Lost, dropped)
      BY <1>2 DEF PauseInv, BehindPause, FirstPause
    <2>2. (dropped - 1) * Net = Lost - Net
      BY <2>1, PictureNumbers DEF Lost
    <2> QED
      BY <2>1, <2>2 DEF AreFew
  <1> QED
    BY <1>1, <1>2 DEF LoneInv, LoneTypes

\* The first pause costs no more pictures than fit in the time for which a refused one waits, when the
\* audio loop tries again before that is over, and pictures follow one another in less than twice
\* what one may be late.  What the clock goes on by until somebody asks is behind the pictures again
\* as soon as the ring has room; the wait of the refused one is what is left.
THEOREM FirstPauseDropsFew ==
  TasksAreInTime /\ SoundIsInTime /\ RefusedOutlastsSound /\ VideoDur + Lag < 2 * MaxDiff =>
    (Spec => []PauseDropsFew)
  <1> SUFFICES ASSUME TasksAreInTime, SoundIsInTime, RefusedOutlastsSound, VideoDur + Lag < 2 * MaxDiff
               PROVE  Spec => []PauseDropsFew
    OBVIOUS
  <1>1. LoneInv /\ PauseInv => PauseDropsFew
    <2> SUFFICES ASSUME LoneInv, PauseInv, toggles <= 2, seeks = 0, stalls = 0
                 PROVE  (dropped - 1) * (VideoDur - Lag) < Greatest(VideoDur, Refused) + Lag
      BY DEF PauseDropsFew
    <2>1. /\ dropped \in Nat
          /\ dropped > 0 => (dropped - 1) * Net < Peak - MaxDiff + Lag
      BY FewAreGivenUp
    <2>2. Peak - MaxDiff + Lag = RefusedWait + Lag
      BY PictureNumbers
    <2>3. CASE dropped = 0
      <3>1. (dropped - 1) * Net = -Net
        BY <2>3, PictureNumbers
      <3> QED
        BY <3>1, PictureNumbers DEF Net, RefusedWait
    <2> QED
      BY <2>1, <2>2, <2>3 DEF Net, RefusedWait
  <1>2. ClockInv /\ LoneInv /\ SoundInv /\ PauseInv /\ [Next]_vars
          => ClockInv' /\ LoneInv' /\ SoundInv' /\ PauseInv'
    BY NextClock, NextLone, NextSound, NextPause
  <1> QED
    BY <1>1, <1>2, InitClock, InitLone, InitSound, InitPause, PTL DEF Spec

\* A slower file loses one picture more at most
PauseDropsOneMore ==
  toggles <= 2 /\ seeks = 0 /\ stalls = 0 =>
    (dropped - 2) * (VideoDur - Lag) < Greatest(VideoDur, Refused) + Lag

\* Whatever the length of a picture, the first pause costs one picture more at most: the one that was
\* waiting for its time by the clock when sound set that forward.
THEOREM FirstPauseDropsOneMore ==
  TasksAreInTime /\ SoundIsInTime /\ RefusedOutlastsSound => (Spec => []PauseDropsOneMore)
  <1> SUFFICES ASSUME TasksAreInTime, SoundIsInTime, RefusedOutlastsSound
               PROVE  Spec => []PauseDropsOneMore
    OBVIOUS
  <1>1. LoneInv /\ PauseInv => PauseDropsOneMore
    <2> SUFFICES ASSUME LoneInv, PauseInv, toggles <= 2, seeks = 0, stalls = 0
                 PROVE  (dropped - 2) * (VideoDur - Lag) < Greatest(VideoDur, Refused) + Lag
      BY DEF PauseDropsOneMore
    <2>1. /\ dropped \in Nat
          /\ dropped > 0 => (dropped - 1) * Net < Peak - MaxDiff + Lag
      BY FewAreGivenUp
    <2>2. (dropped - 2) * Net = (dropped - 1) * Net - Net
      BY <2>1, PictureNumbers
    <2>3. Peak - MaxDiff + Lag - Net <= RefusedWait + Lag
      BY PictureNumbers
    <2>4. CASE dropped = 0
      <3>1. (dropped - 2) * Net = -Net - Net
        BY <2>4, PictureNumbers
      <3>2. (dropped - 2) * Net < RefusedWait + Lag
        <4>1. Net \in Nat /\ RefusedWait \in Nat /\ RefusedWait >= VideoDur /\ VideoDur \in Nat \ {0}
              /\ Lag \in Nat
          BY PictureNumbers
        <4> QED
          BY <3>1, <4>1
      <3> QED
        BY <3>2 DEF Net, RefusedWait
    <2>5. CASE dropped > 0
      <3>1. (dropped - 1) * Net \in Int
        BY <2>1, PictureNumbers
      <3>2. (dropped - 2) * Net < RefusedWait + Lag
        BY <2>1, <2>2, <2>3, <2>5, <3>1, PictureNumbers
      <3> QED
        BY <3>2 DEF Net, RefusedWait
    <2> QED
      BY <2>1, <2>4, <2>5
  <1>2. ClockInv /\ LoneInv /\ SoundInv /\ PauseInv /\ [Next]_vars
          => ClockInv' /\ LoneInv' /\ SoundInv' /\ PauseInv'
    BY NextClock, NextLone, NextSound, NextPause
  <1> QED
    BY <1>1, <1>2, InitClock, InitLone, InitSound, InitPause, PTL DEF Spec

=================================================================================
