------------------------------- MODULE AudioDevice -------------------------------
(***************************************************************************)
(* core/audio/audio_device_wrapper_impl.cc with the mixer it owns           *)
(* (audio_mixer_impl.cc) and the lists of callbacks it derives from         *)
(* (callback_register_template.h): clients add and remove sources, sinks    *)
(* and subscribers; the signal thread starts and stops the device; the      *)
(* device's playout and capture threads call back.                          *)
(*                                                                          *)
(* A section under mutex_ of the mixer or under shared_mutex_ is one step.  *)
(* The one that lasts longer is CheckIfStopRecording, which shares          *)
(* shared_mutex_ while the device joins its capture thread.  What is mixed  *)
(* and written is left out.                                                 *)
(***************************************************************************)
EXTENDS Naturals, Sequences, FiniteSets

CONSTANTS
  Clients,      \* threads that call the API
  Sources,      \* AudioRawSources
  RecordSinks,  \* AudioRawSinks of the capture
  Subscribers,  \* RecordingEventCallBacks
  None,         \* nullptr
  ReadersFirst, \* whether shared_mutex_ lets a reader pass a writer that waits: glibc's
                \* does, that of libc++, on mac and Android, does not
  MaxCalls,     \* bound: calls of the clients in one behaviour
  TaskBound     \* bound: tasks of the signal thread up to which the mixer posts its own

ASSUME ReadersFirstAssumption == ReadersFirst \in BOOLEAN
ASSUME BoundsAssumption == MaxCalls \in Nat /\ TaskBound \in Nat \ {0}
ASSUME NoneAssumption == None \notin RecordSinks \union Subscribers

VARIABLES
  sinks,     \* RecordSinkType::callback_list_
  events,    \* RecordCBType::callback_list_
  mixing,    \* the keys of the mixer's source_map_
  ended,     \* sources that are kStatic and have nothing more to read
  tasks,     \* the queue of signal_thread_; its head is the task that runs
  signalPc,  \* where the task of signal_thread_ is
  playing,   \* adm_->Playing()
  recording, \* adm_->Recording()
  playoutPc, \* where the device's playout thread is
  capturePc, \* where the device's capture thread is
  clientPc,  \* per client: what the call it makes has still to do
  calls,     \* calls of the clients so far
  silent,    \* why the playout, or the capture, does not run though it was asked to
  fault      \* "check" once an RTC_DCHECK failed

deviceVars == <<playing, recording, playoutPc, capturePc>>
signalVars == <<tasks, signalPc, silent>>
clientVars == <<clientPc, calls>>
listVars == <<sinks, events>>
mixerVars == <<mixing, ended, fault>>
vars == <<listVars, mixerVars, signalVars, deviceVars, clientVars>>

Idle == [call |-> "idle", arg |-> None]

-----------------------------------------------------------------------------
(* callback_register_template.h: a list whose places are reused and never removed *)

RegisterCallback(list, c) ==
  LET free == {i \in DOMAIN list : list[i] = None}
  IN  CASE \E i \in DOMAIN list : list[i] = c -> list
        [] free = {} -> Append(list, c)
        [] OTHER -> [list EXCEPT ![CHOOSE i \in free : \A j \in free : i <= j] = c]

UnRegisterCallback(list, c) == [i \in DOMAIN list |-> IF list[i] = c THEN None ELSE list[i]]

Registered(list) == {list[i] : i \in DOMAIN list} \ {None}

-----------------------------------------------------------------------------
(* shared_mutex_ *)

WaitsForLock(c) ==
  clientPc[c].call \in {"AddRecordSink", "RemoveRecordSink", "Subscribe", "Unsubscribe"}

\* A shared lock can be had
MayShare == ReadersFirst \/ ~\E c \in Clients : WaitsForLock(c)

\* An exclusive lock can be had: only a task that stops the recording keeps its share
MayExclude == signalPc # "stopRecording"

-----------------------------------------------------------------------------
(* The calls of the clients.  A call that changes a list waits for the lock; the task it *)
(* posts is a step of its own.                                                           *)

Init ==
  /\ sinks = <<>> /\ events = <<>>
  /\ mixing = {} /\ ended = {} /\ fault = "none"
  /\ tasks = <<>> /\ signalPc = "idle"
  /\ silent = [playout |-> "no", capture |-> "no"]
  /\ playing = FALSE /\ recording = FALSE /\ playoutPc = "idle" /\ capturePc = "idle"
  /\ clientPc = [c \in Clients |-> Idle] /\ calls = 0

Call(c, what, x) ==
  /\ clientPc[c] = Idle
  /\ calls < MaxCalls
  /\ calls' = calls + 1
  /\ clientPc' = [clientPc EXCEPT ![c] = [call |-> what, arg |-> x]]
  /\ UNCHANGED <<listVars, mixerVars, signalVars, deviceVars>>

CallsDevice(c) ==
  \/ \E x \in RecordSinks : Call(c, "AddRecordSink", x) \/ Call(c, "RemoveRecordSink", x)
  \/ \E x \in Subscribers : Call(c, "Subscribe", x) \/ Call(c, "Unsubscribe", x)
  \/ \E x \in Sources : Call(c, "AddPlayoutSource", x) \/ Call(c, "RemovePlayoutSource", x)

Then(c, call) == clientPc' = [clientPc EXCEPT ![c] = [call |-> call, arg |-> None]]

\* The exclusive section of AddRecordSink and RemoveRecordSink
ChangesSinks(c) ==
  /\ MayExclude
  /\ \/ /\ clientPc[c].call = "AddRecordSink"
        /\ sinks' = RegisterCallback(sinks, clientPc[c].arg)
        /\ Then(c, "startRecording")
     \/ /\ clientPc[c].call = "RemoveRecordSink"
        /\ sinks' = UnRegisterCallback(sinks, clientPc[c].arg)
        /\ Then(c, "stopRecording")
  /\ UNCHANGED <<events, mixerVars, signalVars, deviceVars, calls>>

\* AddRecordingEventSubscriber and RemoveRecordingEventSubscriber
ChangesSubscribers(c) ==
  /\ MayExclude
  /\ \/ /\ clientPc[c].call = "Subscribe"
        /\ events' = RegisterCallback(events, clientPc[c].arg)
     \/ /\ clientPc[c].call = "Unsubscribe"
        /\ events' = UnRegisterCallback(events, clientPc[c].arg)
  /\ Then(c, "idle")
  /\ UNCHANGED <<sinks, mixerVars, signalVars, deviceVars, calls>>

\* The mixer's part of AddPlayoutSource and RemovePlayoutSource
ChangesSources(c) ==
  /\ \/ /\ clientPc[c].call = "AddPlayoutSource"
        /\ mixing' = mixing \union {clientPc[c].arg}
        /\ Then(c, "startPlayout")
     \/ /\ clientPc[c].call = "RemovePlayoutSource"
        /\ mixing' = mixing \ {clientPc[c].arg}
        /\ Then(c, "stopPlayout")
  /\ UNCHANGED <<ended, fault, listVars, signalVars, deviceVars, calls>>

Tasks == {"startPlayout", "stopPlayout", "startRecording", "stopRecording"}

\* signal_thread_->PostTask, the last thing of a call
PostsTask(c) ==
  /\ clientPc[c].call \in Tasks
  /\ tasks' = Append(tasks, clientPc[c].call)
  /\ Then(c, "idle")
  /\ UNCHANGED <<signalPc, silent, listVars, mixerVars, deviceVars, calls>>

Client(c) == ChangesSinks(c) \/ ChangesSubscribers(c) \/ ChangesSources(c) \/ PostsTask(c)

-----------------------------------------------------------------------------
(* The signal thread *)

Runs(task) == signalPc = "idle" /\ tasks # <<>> /\ Head(tasks) = task

Returns == tasks' = Tail(tasks) /\ signalPc' = "idle"

\* CheckIfStartPlayout, up to its notifications; the device may refuse
CheckIfStartPlayout ==
  /\ Runs("startPlayout")
  /\ IF playing
       THEN Returns /\ UNCHANGED <<playing, silent>>
       ELSE \E ok \in BOOLEAN :
              /\ playing' = ok
              /\ silent' = [silent EXCEPT !.playout = IF ok THEN "no" ELSE "refused"]
              /\ signalPc' = "notify"
              /\ UNCHANGED tasks
  /\ UNCHANGED <<recording, playoutPc, capturePc, listVars, mixerVars, clientVars>>

\* Mutant: the recording starts for subscribers, not for sinks
StartsForSubscribers ==
  /\ Runs("startRecording")
  /\ IF recording \/ events = <<>>
       THEN Returns /\ UNCHANGED <<recording, silent>>
       ELSE \E ok \in BOOLEAN :
              /\ recording' = ok
              /\ silent' = [silent EXCEPT !.capture = IF ok THEN "no" ELSE "refused"]
              /\ signalPc' = "notify"
              /\ UNCHANGED tasks
  /\ UNCHANGED <<playing, playoutPc, capturePc, listVars, mixerVars, clientVars>>

CheckIfStartRecording ==
  /\ Runs("startRecording")
  /\ IF recording
       THEN Returns /\ UNCHANGED <<recording, silent>>
       ELSE \E ok \in BOOLEAN :
              /\ recording' = ok
              /\ silent' = [silent EXCEPT !.capture = IF ok THEN "no" ELSE "refused"]
              /\ signalPc' = "notify"
              /\ UNCHANGED tasks
  /\ UNCHANGED <<playing, playoutPc, capturePc, listVars, mixerVars, clientVars>>

\* The subscribers are told, under a shared lock
Notifies ==
  /\ signalPc = "notify"
  /\ MayShare
  /\ Returns
  /\ UNCHANGED <<silent, deviceVars, listVars, mixerVars, clientVars>>

\* Mutant: the playout is stopped whatever is still mixed
StopsAlways ==
  /\ Runs("stopPlayout")
  /\ IF playing
       THEN signalPc' = "stopPlayout" /\ UNCHANGED tasks
       ELSE Returns
  /\ UNCHANGED <<silent, deviceVars, listVars, mixerVars, clientVars>>

\* CheckIfStopPlayout asks the mixer, and stops in a step of its own
CheckIfStopPlayout ==
  /\ Runs("stopPlayout")
  /\ IF mixing = {} /\ playing
       THEN signalPc' = "stopPlayout" /\ UNCHANGED tasks
       ELSE Returns
  /\ UNCHANGED <<silent, deviceVars, listVars, mixerVars, clientVars>>

\* adm_->StopPlayout returns when the playout thread is out of its callback; it may
\* have failed
StopPlayout ==
  /\ signalPc = "stopPlayout"
  /\ playoutPc = "idle"
  /\ \/ playing' = FALSE /\ signalPc' = "notify" /\ UNCHANGED tasks
     \/ UNCHANGED playing /\ Returns
  /\ UNCHANGED <<silent, recording, playoutPc, capturePc, listVars, mixerVars, clientVars>>

\* CheckIfStopRecording shares the lock first.  The list that it finds empty is that of the
\* subscribers, in which a place that was ever taken stays.
CheckIfStopRecording ==
  /\ Runs("stopRecording")
  /\ MayShare
  /\ IF events = <<>> /\ recording
       THEN signalPc' = "stopRecording" /\ UNCHANGED tasks
       ELSE Returns
  /\ UNCHANGED <<silent, deviceVars, listVars, mixerVars, clientVars>>

\* adm_->StopRecording, with the lock still shared, joins the capture thread
StopRecording ==
  /\ signalPc = "stopRecording"
  /\ capturePc = "idle"
  /\ \/ recording' = FALSE /\ silent' = [silent EXCEPT !.capture = "stopped"]
     \/ UNCHANGED <<recording, silent>>
  /\ Returns
  /\ UNCHANGED <<playing, playoutPc, capturePc, listVars, mixerVars, clientVars>>

Signal ==
  \/ CheckIfStartPlayout \/ CheckIfStartRecording \/ Notifies
  \/ CheckIfStopPlayout \/ StopPlayout
  \/ CheckIfStopRecording \/ StopRecording

-----------------------------------------------------------------------------
(* The device's threads *)

\* A source comes to its end
SourceEnds(s) ==
  /\ s \notin ended
  /\ ended' = ended \union {s}
  /\ UNCHANGED <<mixing, fault, listVars, signalVars, deviceVars, clientVars>>

\* Mutant: nobody is told that nothing is left to mix
PostsNothing == UNCHANGED tasks

\* on_all_remove_, for as long as nothing is mixed
OnAllRemove ==
  IF mixing' = {} THEN tasks' = Append(tasks, "stopPlayout") ELSE UNCHANGED tasks

\* Mutant: a source that has come to its end stays
RemovesNone(short, first) == {}

\* What MixFrame removes when the sources in short have nothing to read: ReadFrame takes
\* source_map_.begin(), first, for each of them
Removes(short, first) == IF short = {} THEN {} ELSE {first}

\* MixFrame, the part of NeedMorePlayData under mutex_ of the mixer.  A second one to remove
\* is not found: RTC_DCHECK(it != source_map_.end()).
MixFrame ==
  /\ playing /\ playoutPc = "idle"
  /\ Len(tasks) < TaskBound
  /\ \E first \in IF mixing = {} THEN {None} ELSE mixing :
       mixing' = mixing \ Removes(mixing \intersect ended, first)
  /\ fault' = IF Cardinality(mixing \intersect ended) > 1 THEN "check" ELSE "none"
  /\ playoutPc' = "callback"
  /\ OnAllRemove
  /\ UNCHANGED <<ended, signalPc, silent, playing, recording, capturePc, listVars, clientVars>>

\* The rest of NeedMorePlayData: removed sources are told, playout sinks are written, both
\* under shared locks
PlayoutReturns ==
  /\ playoutPc = "callback"
  /\ MayShare
  /\ playoutPc' = "idle"
  /\ UNCHANGED <<playing, recording, capturePc, listVars, mixerVars, signalVars, clientVars>>

\* The device calls RecordedDataIsAvailable, which asks for a shared lock
CaptureCalls ==
  /\ recording /\ capturePc = "idle"
  /\ capturePc' = "callback"
  /\ UNCHANGED <<playing, recording, playoutPc, listVars, mixerVars, signalVars, clientVars>>

\* Mutant: the sinks are written under the exclusive lock
WritesAlone ==
  /\ capturePc = "callback"
  /\ MayExclude
  /\ capturePc' = "idle"
  /\ UNCHANGED <<playing, recording, playoutPc, listVars, mixerVars, signalVars, clientVars>>

\* RecordedDataIsAvailable writes the sinks and returns
RecordedDataIsAvailable ==
  /\ capturePc = "callback"
  /\ MayShare
  /\ capturePc' = "idle"
  /\ UNCHANGED <<playing, recording, playoutPc, listVars, mixerVars, signalVars, clientVars>>

Next ==
  /\ fault = "none"
  /\ \/ \E c \in Clients : CallsDevice(c) \/ Client(c)
     \/ Signal
     \/ \E s \in Sources : SourceEnds(s)
     \/ MixFrame \/ PlayoutReturns
     \/ CaptureCalls \/ RecordedDataIsAvailable

Spec == Init /\ [][Next]_vars

\* Every thread goes on with what it does.  The device calls back while it plays, and when
\* it is told again and again to stop it does.
Fairness ==
  /\ \A c \in Clients : WF_vars(fault = "none" /\ Client(c))
  /\ WF_vars(fault = "none" /\ Signal)
  /\ WF_vars(fault = "none" /\ MixFrame)
  /\ WF_vars(fault = "none" /\ PlayoutReturns)
  /\ WF_vars(fault = "none" /\ RecordedDataIsAvailable)
  /\ SF_vars(fault = "none" /\ StopPlayout /\ ~playing')
  /\ SF_vars(fault = "none" /\ StopRecording)

FairSpec == Spec /\ Fairness

-----------------------------------------------------------------------------

Pending(task) ==
  (\E i \in DOMAIN tasks : tasks[i] = task) \/ (\E c \in Clients : clientPc[c].call = task)

\* No source is left waiting on a device that does not play: whatever the mixer, the other
\* clients and the signal thread did between the count of the sources and the stop, a start
\* is still to come; unless the last start was refused, which nobody repeats.
SourcesArePlayed == mixing # {} => playing \/ silent.playout = "refused" \/ Pending("startPlayout")

\* The same of the sinks; they do not survive a stop made while nobody has ever subscribed
\* to the events, for which CheckIfStopRecording looks at the wrong list.
SinksAreServed ==
  Registered(sinks) # {} => recording \/ silent.capture # "no" \/ Pending("startRecording")

\* The circle of StopRecording, which has a share of the lock and joins the capture thread,
\* the capture thread, which waits for a share, and a client, which waits for the lock and
\* lets no reader pass
LockedUp == signalPc = "stopRecording" /\ capturePc = "callback" /\ ~MayShare

\* Past what the program does not survive: a failed assertion or the circle
Stuck == fault # "none" \/ LockedUp

\* A device with nothing to mix is stopped, also when its last source removed itself, or
\* when all of them were gone before the start.
SilentDeviceStops ==
  playing /\ mixing = {} ~> ~playing \/ mixing # {} \/ Stuck

\* A source that came to its end leaves the mixer while the device plays.
EndedSourcesLeave ==
  \A s \in Sources : playing /\ s \in mixing \intersect ended
                       ~> ~playing \/ s \notin mixing \/ Stuck

\* The circle is the only one: but for it no client waits for ever for the lock, no thread
\* of the device for its share of it, and no task of the signal thread for the device.
NobodyWaitsForEver ==
  /\ \A c \in Clients : WaitsForLock(c) ~> ~WaitsForLock(c) \/ Stuck
  /\ capturePc = "callback" ~> capturePc = "idle" \/ Stuck
  /\ playoutPc = "callback" ~> playoutPc = "idle" \/ Stuck
  /\ signalPc # "idle" ~> signalPc = "idle" \/ Stuck

\* audio_mixer_impl.cc:89 asserts that what is to be removed is in the map.
MixerFindsWhatItRemoves == fault = "none"

==================================================================================
