--------------------------- MODULE AudioDeviceProofs ---------------------------
(***************************************************************************)
(* For any clients, sources and sinks, and whichever way the lock prefers:  *)
(* a source, or a sink, is never left on a stopped device without a start   *)
(* that is still to come or a reason the code knows.  First what happens    *)
(* to the tasks that are still to come, then one lemma per action, then     *)
(* the theorems.                                                            *)
(***************************************************************************)
EXTENDS AudioDevice, SequenceTheorems, TLAPS

Args == RecordSinks \union Subscribers \union Sources \union {None}

\* What a call may still have to do
CallPcs ==
  Tasks \union {"idle", "AddRecordSink", "RemoveRecordSink", "Subscribe", "Unsubscribe",
                "AddPlayoutSource", "RemovePlayoutSource"}

Types ==
  /\ tasks \in Seq(Tasks)
  /\ clientPc \in [Clients -> [call : CallPcs, arg : Args]]
  /\ silent \in [playout : {"no", "refused"}, capture : {"no", "refused", "stopped"}]

\* The task that runs is the head of the queue until it returns, and a start that has
\* come to its notifications has started, or was refused.
HeadRuns ==
  /\ signalPc = "stopPlayout" => tasks # <<>> /\ Head(tasks) = "stopPlayout"
  /\ signalPc = "stopRecording" => tasks # <<>> /\ Head(tasks) = "stopRecording"
  /\ signalPc = "notify" =>
       /\ tasks # <<>>
       /\ Head(tasks) = "startPlayout" => playing \/ silent.playout = "refused"
       /\ Head(tasks) = "startRecording" => recording \/ silent.capture # "no"

\* While the playout is being stopped the start of a source that came after the count is
\* already behind the stop.
StopsBeforeStart == signalPc = "stopPlayout" /\ mixing # {} => Pending("startPlayout")

Inv == Types /\ HeadRuns /\ StopsBeforeStart /\ SourcesArePlayed /\ SinksAreServed

-----------------------------------------------------------------------------
(* What is still to come *)

Queued(q, task) == \E i \in DOMAIN q : q[i] = task

\* A task that is appended is queued, and so is all that was.
LEMMA AppendKeeps ==
  ASSUME NEW q \in Seq(Tasks), NEW t \in Tasks
  PROVE  /\ Append(q, t) \in Seq(Tasks)
         /\ Append(q, t) # <<>>
         /\ q # <<>> => Head(Append(q, t)) = Head(q)
         /\ Queued(Append(q, t), t)
         /\ \A u : Queued(q, u) => Queued(Append(q, t), u)
<1>1. /\ Append(q, t) \in Seq(Tasks)
      /\ Append(q, t) # <<>>
      /\ Len(Append(q, t)) = Len(q) + 1
      /\ \A i \in 1 .. Len(q) : Append(q, t)[i] = q[i]
      /\ Append(q, t)[Len(q) + 1] = t
  BY AppendProperties
<1>2. Len(q) \in Nat /\ DOMAIN q = 1 .. Len(q) /\ DOMAIN Append(q, t) = 1 .. Len(q) + 1
  BY <1>1, LenProperties
<1>3. q # <<>> => Head(Append(q, t)) = Head(q)
  BY HeadTailAppend
<1>. QED
  BY <1>1, <1>2, <1>3 DEF Queued

\* A task that is not the head stays in the queue when the head returns.
LEMMA TailKeeps ==
  ASSUME NEW q \in Seq(Tasks), q # <<>>
  PROVE  /\ Tail(q) \in Seq(Tasks)
         /\ \A u : Queued(q, u) /\ u # Head(q) => Queued(Tail(q), u)
<1>1. /\ Tail(q) \in Seq(Tasks)
      /\ Len(Tail(q)) = Len(q) - 1
      /\ \A i \in 1 .. Len(Tail(q)) : Tail(q)[i] = q[i + 1]
  BY HeadTailProperties
<1>2. /\ Len(q) \in Nat /\ DOMAIN q = 1 .. Len(q) /\ DOMAIN Tail(q) = 1 .. Len(q) - 1
  BY <1>1, LenProperties
<1>3. ASSUME NEW u, Queued(q, u), u # Head(q)
      PROVE  Queued(Tail(q), u)
  <2>1. PICK i \in 1 .. Len(q) : q[i] = u
    BY <1>2, <1>3 DEF Queued
  <2>2. i # 1
    BY <1>3, <2>1
  <2>3. i - 1 \in DOMAIN Tail(q) /\ Tail(q)[i - 1] = q[i]
    BY <1>1, <1>2, <2>1, <2>2
  <2>. QED
    BY <2>1, <2>3 DEF Queued
<1>. QED
  BY <1>1, <1>3

\* A client that goes on disturbs no task but the one it was about to post.
LEMMA ClientGoesOn ==
  ASSUME Types, NEW c \in Clients, NEW pc \in [call : CallPcs, arg : Args],
         clientPc' = [clientPc EXCEPT ![c] = pc],
         NEW task, clientPc[c].call # task
  PROVE  /\ clientPc' \in [Clients -> [call : CallPcs, arg : Args]]
         /\ (\E d \in Clients : clientPc[d].call = task)
              => \E d \in Clients : clientPc'[d].call = task
         /\ pc.call = task => \E d \in Clients : clientPc'[d].call = task
  BY DEF Types

\* Then gives the client no argument.
LEMMA ThenGoesOn ==
  ASSUME NEW call \in CallPcs
  PROVE  [call |-> call, arg |-> None] \in [call : CallPcs, arg : Args]
  BY DEF Args

-----------------------------------------------------------------------------
(* The actions *)

\* A step that leaves the device, its queue and the signal thread alone keeps Inv when it
\* adds neither a source nor a sink, and loses no start.
LEMMA OthersStep ==
  ASSUME Inv, UNCHANGED <<tasks, signalPc, silent, playing, recording>>,
         clientPc' \in [Clients -> [call : CallPcs, arg : Args]],
         mixing' \subseteq mixing \/ Pending("startPlayout")',
         Registered(sinks') # {} => Registered(sinks) # {} \/ Pending("startRecording")',
         \A task \in {"startPlayout", "startRecording"} : Pending(task) => Pending(task)'
  PROVE  Inv'
<1>1. Types'
  BY DEF Inv, Types
<1>2. HeadRuns'
  BY DEF Inv, HeadRuns
<1>3. StopsBeforeStart'
  BY DEF Inv, StopsBeforeStart
<1>4. SourcesArePlayed'
  BY DEF Inv, SourcesArePlayed
<1>5. SinksAreServed'
  BY DEF Inv, SinksAreServed
<1>. QED
  BY <1>1, <1>2, <1>3, <1>4, <1>5 DEF Inv

LEMMA CallsDeviceStep ==
  ASSUME Inv, NEW c \in Clients, CallsDevice(c)
  PROVE  Inv'
<1>1. PICK what \in {"AddRecordSink", "RemoveRecordSink", "Subscribe", "Unsubscribe",
                     "AddPlayoutSource", "RemovePlayoutSource"}, x \in Args : Call(c, what, x)
  BY DEF CallsDevice, Args
<1>2. [call |-> what, arg |-> x] \in [call : CallPcs, arg : Args]
  BY DEF CallPcs
<1>3. clientPc[c].call = "idle"
  BY <1>1 DEF Call, Idle
<1>4. /\ clientPc' \in [Clients -> [call : CallPcs, arg : Args]]
      /\ \A task \in {"startPlayout", "startRecording"} :
           (\E d \in Clients : clientPc[d].call = task)
             => \E d \in Clients : clientPc'[d].call = task
  BY <1>1, <1>2, <1>3, ClientGoesOn DEF Call, Inv
<1>5. UNCHANGED <<tasks, signalPc, silent, playing, recording, mixing, sinks>>
  BY <1>1 DEF Call, listVars, mixerVars, signalVars, deviceVars
<1>6. \A task \in {"startPlayout", "startRecording"} : Pending(task) => Pending(task)'
  BY <1>4, <1>5 DEF Pending
<1>. QED
  BY <1>4, <1>5, <1>6, OthersStep

LEMMA ChangesSinksStep ==
  ASSUME Inv, NEW c \in Clients, ChangesSinks(c)
  PROVE  Inv'
<1>1. UNCHANGED <<tasks, signalPc, silent, playing, recording, mixing>>
  BY DEF ChangesSinks, mixerVars, signalVars, deviceVars
<1>2. PICK call \in {"startRecording", "stopRecording"} :
        /\ Then(c, call)
        /\ clientPc[c].call \notin {"startPlayout", "startRecording"}
        /\ call = "stopRecording" => sinks' = UnRegisterCallback(sinks, clientPc[c].arg)
  BY DEF ChangesSinks
<1>3. [call |-> call, arg |-> None] \in [call : CallPcs, arg : Args]
  BY ThenGoesOn DEF CallPcs, Tasks
<1>4. /\ clientPc' \in [Clients -> [call : CallPcs, arg : Args]]
      /\ \A task \in {"startPlayout", "startRecording"} :
           (\E d \in Clients : clientPc[d].call = task)
             => \E d \in Clients : clientPc'[d].call = task
      /\ call = "startRecording" => \E d \in Clients : clientPc'[d].call = "startRecording"
  BY <1>2, <1>3, ClientGoesOn DEF Then, Inv
<1>5. \A task \in {"startPlayout", "startRecording"} : Pending(task) => Pending(task)'
  BY <1>1, <1>4 DEF Pending
<1>6. Registered(sinks') # {} => Registered(sinks) # {} \/ Pending("startRecording")'
  <2>1. CASE call = "startRecording"
    BY <1>4, <2>1 DEF Pending
  <2>2. CASE call = "stopRecording"
    BY <1>2, <2>2 DEF Registered, UnRegisterCallback
  <2>. QED
    BY <2>1, <2>2
<1>. QED
  BY <1>1, <1>4, <1>5, <1>6, OthersStep

LEMMA ChangesSubscribersStep ==
  ASSUME Inv, NEW c \in Clients, ChangesSubscribers(c)
  PROVE  Inv'
<1>1. UNCHANGED <<tasks, signalPc, silent, playing, recording, mixing, sinks>>
  BY DEF ChangesSubscribers, mixerVars, signalVars, deviceVars
<1>2. Then(c, "idle") /\ clientPc[c].call \notin {"startPlayout", "startRecording"}
  BY DEF ChangesSubscribers
<1>3. [call |-> "idle", arg |-> None] \in [call : CallPcs, arg : Args]
  BY ThenGoesOn DEF CallPcs, Tasks
<1>4. /\ clientPc' \in [Clients -> [call : CallPcs, arg : Args]]
      /\ \A task \in {"startPlayout", "startRecording"} :
           (\E d \in Clients : clientPc[d].call = task)
             => \E d \in Clients : clientPc'[d].call = task
  BY <1>2, <1>3, ClientGoesOn DEF Then, Inv
<1>5. \A task \in {"startPlayout", "startRecording"} : Pending(task) => Pending(task)'
  BY <1>1, <1>4 DEF Pending
<1>. QED
  BY <1>1, <1>4, <1>5, OthersStep

LEMMA ChangesSourcesStep ==
  ASSUME Inv, NEW c \in Clients, ChangesSources(c)
  PROVE  Inv'
<1>1. UNCHANGED <<tasks, signalPc, silent, playing, recording, sinks>>
  BY DEF ChangesSources, listVars, signalVars, deviceVars
<1>2. PICK call \in {"startPlayout", "stopPlayout"} :
        /\ Then(c, call)
        /\ clientPc[c].call \notin {"startPlayout", "startRecording"}
        /\ call = "stopPlayout" => mixing' \subseteq mixing
  BY DEF ChangesSources
<1>3. [call |-> call, arg |-> None] \in [call : CallPcs, arg : Args]
  BY ThenGoesOn DEF CallPcs, Tasks
<1>4. /\ clientPc' \in [Clients -> [call : CallPcs, arg : Args]]
      /\ \A task \in {"startPlayout", "startRecording"} :
           (\E d \in Clients : clientPc[d].call = task)
             => \E d \in Clients : clientPc'[d].call = task
      /\ call = "startPlayout" => \E d \in Clients : clientPc'[d].call = "startPlayout"
  BY <1>2, <1>3, ClientGoesOn DEF Then, Inv
<1>5. \A task \in {"startPlayout", "startRecording"} : Pending(task) => Pending(task)'
  BY <1>1, <1>4 DEF Pending
<1>6. mixing' \subseteq mixing \/ Pending("startPlayout")'
  BY <1>2, <1>4 DEF Pending
<1>. QED
  BY <1>1, <1>4, <1>5, <1>6, OthersStep

\* The task moves from the client to the queue.
LEMMA PostsTaskStep ==
  ASSUME Inv, NEW c \in Clients, PostsTask(c)
  PROVE  Inv'
<1>1. /\ clientPc[c].call \in Tasks
      /\ tasks' = Append(tasks, clientPc[c].call)
      /\ Then(c, "idle")
      /\ UNCHANGED <<signalPc, silent, playing, recording, mixing, sinks>>
  BY DEF PostsTask, listVars, mixerVars, deviceVars
<1>2. /\ tasks' \in Seq(Tasks) /\ tasks' # <<>>
      /\ tasks # <<>> => Head(tasks') = Head(tasks)
      /\ Queued(tasks', clientPc[c].call)
      /\ \A u : Queued(tasks, u) => Queued(tasks', u)
  BY <1>1, AppendKeeps DEF Inv, Types
<1>3. [call |-> "idle", arg |-> None] \in [call : CallPcs, arg : Args]
  BY ThenGoesOn DEF CallPcs, Tasks
<1>4. /\ clientPc' \in [Clients -> [call : CallPcs, arg : Args]]
      /\ \A d \in Clients \ {c} : clientPc'[d] = clientPc[d]
  BY <1>1, <1>3 DEF Then, Inv, Types
<1>5. \A task : Pending(task) => Pending(task)'
  BY <1>2, <1>4 DEF Pending, Queued
<1>6. Types'
  BY <1>1, <1>2, <1>4 DEF Inv, Types
<1>7. HeadRuns'
  BY <1>1, <1>2 DEF Inv, HeadRuns
<1>8. StopsBeforeStart'
  BY <1>1, <1>5 DEF Inv, StopsBeforeStart
<1>9. SourcesArePlayed'
  BY <1>1, <1>5 DEF Inv, SourcesArePlayed
<1>10. SinksAreServed'
  BY <1>1, <1>5 DEF Inv, SinksAreServed
<1>. QED
  BY <1>6, <1>7, <1>8, <1>9, <1>10 DEF Inv

\* A task that returns leaves the other ones pending.
LEMMA ReturnsKeeps ==
  ASSUME Types, tasks # <<>>, Returns, UNCHANGED <<clientPc, silent>>
  PROVE  /\ Types'
         /\ HeadRuns'
         /\ StopsBeforeStart'
         /\ \A task : task # Head(tasks) /\ Pending(task) => Pending(task)'
<1>1. /\ tasks' = Tail(tasks) /\ signalPc' = "idle"
      /\ tasks' \in Seq(Tasks)
      /\ \A u : Queued(tasks, u) /\ u # Head(tasks) => Queued(tasks', u)
  BY TailKeeps DEF Returns, Types
<1>2. \A task : task # Head(tasks) /\ Pending(task) => Pending(task)'
  BY <1>1 DEF Pending, Queued
<1>. QED
  BY <1>1, <1>2 DEF Types, HeadRuns, StopsBeforeStart

LEMMA CheckIfStartPlayoutStep ==
  ASSUME Inv, CheckIfStartPlayout
  PROVE  Inv'
<1>1. /\ tasks # <<>> /\ Head(tasks) = "startPlayout"
      /\ UNCHANGED <<recording, mixing, sinks, clientPc>>
  BY DEF CheckIfStartPlayout, Runs, listVars, mixerVars, clientVars
<1>2. CASE playing
  <2>1. Returns /\ UNCHANGED <<playing, silent>>
    BY <1>2 DEF CheckIfStartPlayout
  <2>2. /\ Types' /\ HeadRuns' /\ StopsBeforeStart'
        /\ Pending("startRecording") => Pending("startRecording")'
    BY <1>1, <2>1, ReturnsKeeps DEF Inv
  <2>3. SourcesArePlayed' /\ SinksAreServed'
    BY <1>1, <1>2, <2>1, <2>2 DEF Inv, SourcesArePlayed, SinksAreServed
  <2>. QED
    BY <2>2, <2>3 DEF Inv
<1>3. CASE ~playing
  <2>1. PICK ok \in BOOLEAN :
          /\ playing' = ok
          /\ silent' = [silent EXCEPT !.playout = IF ok THEN "no" ELSE "refused"]
          /\ signalPc' = "notify"
          /\ UNCHANGED tasks
    BY <1>3 DEF CheckIfStartPlayout
  <2>2. /\ silent' \in [playout : {"no", "refused"}, capture : {"no", "refused", "stopped"}]
        /\ silent'.capture = silent.capture
        /\ playing' \/ silent'.playout = "refused"
    BY <2>1 DEF Inv, Types
  <2>3. Types'
    BY <1>1, <2>1, <2>2 DEF Inv, Types
  <2>4. HeadRuns' /\ StopsBeforeStart'
    BY <1>1, <2>1, <2>2 DEF HeadRuns, StopsBeforeStart
  <2>5. SourcesArePlayed'
    BY <2>2 DEF SourcesArePlayed
  <2>6. SinksAreServed'
    BY <1>1, <2>1, <2>2 DEF Inv, SinksAreServed, Pending
  <2>. QED
    BY <2>3, <2>4, <2>5, <2>6 DEF Inv
<1>. QED
  BY <1>2, <1>3

LEMMA CheckIfStartRecordingStep ==
  ASSUME Inv, CheckIfStartRecording
  PROVE  Inv'
<1>1. /\ tasks # <<>> /\ Head(tasks) = "startRecording"
      /\ UNCHANGED <<playing, mixing, sinks, clientPc>>
  BY DEF CheckIfStartRecording, Runs, listVars, mixerVars, clientVars
<1>2. CASE recording
  <2>1. Returns /\ UNCHANGED <<recording, silent>>
    BY <1>2 DEF CheckIfStartRecording
  <2>2. /\ Types' /\ HeadRuns' /\ StopsBeforeStart'
        /\ Pending("startPlayout") => Pending("startPlayout")'
    BY <1>1, <2>1, ReturnsKeeps DEF Inv
  <2>3. SourcesArePlayed' /\ SinksAreServed'
    BY <1>1, <1>2, <2>1, <2>2 DEF Inv, SourcesArePlayed, SinksAreServed
  <2>. QED
    BY <2>2, <2>3 DEF Inv
<1>3. CASE ~recording
  <2>1. PICK ok \in BOOLEAN :
          /\ recording' = ok
          /\ silent' = [silent EXCEPT !.capture = IF ok THEN "no" ELSE "refused"]
          /\ signalPc' = "notify"
          /\ UNCHANGED tasks
    BY <1>3 DEF CheckIfStartRecording
  <2>2. /\ silent' \in [playout : {"no", "refused"}, capture : {"no", "refused", "stopped"}]
        /\ silent'.playout = silent.playout
        /\ recording' \/ silent'.capture # "no"
    BY <2>1 DEF Inv, Types
  <2>3. Types'
    BY <1>1, <2>1, <2>2 DEF Inv, Types
  <2>4. HeadRuns' /\ StopsBeforeStart'
    BY <1>1, <2>1, <2>2 DEF HeadRuns, StopsBeforeStart
  <2>5. SourcesArePlayed'
    BY <1>1, <2>1, <2>2 DEF Inv, SourcesArePlayed, Pending
  <2>6. SinksAreServed'
    BY <2>2 DEF SinksAreServed
  <2>. QED
    BY <2>3, <2>4, <2>5, <2>6 DEF Inv
<1>. QED
  BY <1>2, <1>3

\* A start is over when its subscribers are told: HeadRuns says how it ended.
LEMMA NotifiesStep ==
  ASSUME Inv, Notifies
  PROVE  Inv'
<1>1. /\ Returns /\ signalPc = "notify"
      /\ UNCHANGED <<silent, playing, recording, mixing, sinks, clientPc>>
  BY DEF Notifies, deviceVars, listVars, mixerVars, clientVars
<1>2. /\ tasks # <<>>
      /\ Head(tasks) = "startPlayout" => playing \/ silent.playout = "refused"
      /\ Head(tasks) = "startRecording" => recording \/ silent.capture # "no"
  BY <1>1 DEF Inv, HeadRuns
<1>3. /\ Types' /\ HeadRuns' /\ StopsBeforeStart'
      /\ \A task : task # Head(tasks) /\ Pending(task) => Pending(task)'
  BY <1>1, <1>2, ReturnsKeeps DEF Inv
<1>4. SourcesArePlayed'
  BY <1>1, <1>2, <1>3 DEF Inv, SourcesArePlayed
<1>5. SinksAreServed'
  BY <1>1, <1>2, <1>3 DEF Inv, SinksAreServed
<1>. QED
  BY <1>3, <1>4, <1>5 DEF Inv

LEMMA CheckIfStopPlayoutStep ==
  ASSUME Inv, CheckIfStopPlayout
  PROVE  Inv'
<1>1. /\ tasks # <<>> /\ Head(tasks) = "stopPlayout"
      /\ UNCHANGED <<silent, playing, recording, mixing, sinks, clientPc>>
  BY DEF CheckIfStopPlayout, Runs, deviceVars, listVars, mixerVars, clientVars
<1>2. CASE mixing = {} /\ playing
  <2>1. signalPc' = "stopPlayout" /\ UNCHANGED tasks
    BY <1>2 DEF CheckIfStopPlayout
  <2>2. Types' /\ HeadRuns' /\ StopsBeforeStart'
    BY <1>1, <1>2, <2>1 DEF Inv, Types, HeadRuns, StopsBeforeStart
  <2>3. SourcesArePlayed' /\ SinksAreServed'
    BY <1>1, <2>1 DEF Inv, SourcesArePlayed, SinksAreServed, Pending
  <2>. QED
    BY <2>2, <2>3 DEF Inv
<1>3. CASE ~(mixing = {} /\ playing)
  <2>1. Returns
    BY <1>3 DEF CheckIfStopPlayout
  <2>2. /\ Types' /\ HeadRuns' /\ StopsBeforeStart'
        /\ \A task : task # Head(tasks) /\ Pending(task) => Pending(task)'
    BY <1>1, <2>1, ReturnsKeeps DEF Inv
  <2>3. SourcesArePlayed' /\ SinksAreServed'
    BY <1>1, <2>2 DEF Inv, SourcesArePlayed, SinksAreServed
  <2>. QED
    BY <2>2, <2>3 DEF Inv
<1>. QED
  BY <1>2, <1>3

\* The stop of a device to which a source was added after the count: its start is behind.
LEMMA StopPlayoutStep ==
  ASSUME Inv, StopPlayout
  PROVE  Inv'
<1>1. /\ signalPc = "stopPlayout" /\ tasks # <<>> /\ Head(tasks) = "stopPlayout"
      /\ UNCHANGED <<silent, recording, mixing, sinks, clientPc>>
  BY DEF StopPlayout, listVars, mixerVars, clientVars, Inv, HeadRuns
<1>2. CASE playing' = FALSE /\ signalPc' = "notify" /\ UNCHANGED tasks
  <2>1. Types' /\ HeadRuns' /\ StopsBeforeStart'
    BY <1>1, <1>2 DEF Inv, Types, HeadRuns, StopsBeforeStart
  <2>2. SourcesArePlayed' /\ SinksAreServed'
    BY <1>1, <1>2 DEF Inv, StopsBeforeStart, SourcesArePlayed, SinksAreServed, Pending
  <2>. QED
    BY <2>1, <2>2 DEF Inv
<1>3. CASE UNCHANGED playing /\ Returns
  <2>1. /\ Types' /\ HeadRuns' /\ StopsBeforeStart'
        /\ \A task : task # Head(tasks) /\ Pending(task) => Pending(task)'
    BY <1>1, <1>3, ReturnsKeeps DEF Inv
  <2>2. SourcesArePlayed' /\ SinksAreServed'
    BY <1>1, <1>3, <2>1 DEF Inv, SourcesArePlayed, SinksAreServed
  <2>. QED
    BY <2>1, <2>2 DEF Inv
<1>. QED
  BY <1>2, <1>3 DEF StopPlayout

LEMMA CheckIfStopRecordingStep ==
  ASSUME Inv, CheckIfStopRecording
  PROVE  Inv'
<1>1. /\ tasks # <<>> /\ Head(tasks) = "stopRecording"
      /\ UNCHANGED <<silent, playing, recording, mixing, sinks, clientPc>>
  BY DEF CheckIfStopRecording, Runs, deviceVars, listVars, mixerVars, clientVars
<1>2. CASE signalPc' = "stopRecording" /\ UNCHANGED tasks
  <2>1. Types' /\ HeadRuns' /\ StopsBeforeStart'
    BY <1>1, <1>2 DEF Inv, Types, HeadRuns, StopsBeforeStart
  <2>2. SourcesArePlayed' /\ SinksAreServed'
    BY <1>1, <1>2 DEF Inv, SourcesArePlayed, SinksAreServed, Pending
  <2>. QED
    BY <2>1, <2>2 DEF Inv
<1>3. CASE Returns
  <2>1. /\ Types' /\ HeadRuns' /\ StopsBeforeStart'
        /\ \A task : task # Head(tasks) /\ Pending(task) => Pending(task)'
    BY <1>1, <1>3, ReturnsKeeps DEF Inv
  <2>2. SourcesArePlayed' /\ SinksAreServed'
    BY <1>1, <2>1 DEF Inv, SourcesArePlayed, SinksAreServed
  <2>. QED
    BY <2>1, <2>2 DEF Inv
<1>. QED
  BY <1>2, <1>3 DEF CheckIfStopRecording

LEMMA StopRecordingStep ==
  ASSUME Inv, StopRecording
  PROVE  Inv'
<1>1. /\ tasks # <<>> /\ Head(tasks) = "stopRecording"
      /\ Returns
      /\ UNCHANGED <<playing, mixing, sinks, clientPc>>
  BY DEF StopRecording, listVars, mixerVars, clientVars, Inv, HeadRuns
<1>2. /\ tasks' = Tail(tasks) /\ signalPc' = "idle" /\ tasks' \in Seq(Tasks)
      /\ \A u : Queued(tasks, u) /\ u # Head(tasks) => Queued(tasks', u)
  BY <1>1, TailKeeps DEF Returns, Inv, Types
<1>3. \A task \in {"startPlayout", "startRecording"} : Pending(task) => Pending(task)'
  BY <1>1, <1>2 DEF Pending, Queued
<1>4. /\ silent' \in [playout : {"no", "refused"}, capture : {"no", "refused", "stopped"}]
      /\ silent'.playout = silent.playout
      /\ silent'.capture = "stopped" \/ UNCHANGED <<recording, silent>>
  BY DEF StopRecording, Inv, Types
<1>5. Types' /\ HeadRuns' /\ StopsBeforeStart'
  BY <1>1, <1>2, <1>4 DEF Inv, Types, HeadRuns, StopsBeforeStart
<1>6. SourcesArePlayed'
  BY <1>1, <1>3, <1>4 DEF Inv, SourcesArePlayed
<1>7. SinksAreServed'
  BY <1>1, <1>3, <1>4 DEF Inv, SinksAreServed
<1>. QED
  BY <1>5, <1>6, <1>7 DEF Inv

\* MixFrame only takes sources away, and posts a stop.
LEMMA MixFrameStep ==
  ASSUME Inv, MixFrame
  PROVE  Inv'
<1>1. /\ mixing' \subseteq mixing
      /\ tasks' = Append(tasks, "stopPlayout") \/ tasks' = tasks
      /\ UNCHANGED <<signalPc, silent, playing, recording, sinks, clientPc>>
  BY DEF MixFrame, OnAllRemove, listVars, clientVars
<1>2. /\ tasks' \in Seq(Tasks)
      /\ tasks # <<>> => tasks' # <<>> /\ Head(tasks') = Head(tasks)
      /\ \A u : Queued(tasks, u) => Queued(tasks', u)
  BY <1>1, AppendKeeps DEF Inv, Types, Tasks
<1>3. \A task : Pending(task) => Pending(task)'
  BY <1>1, <1>2 DEF Pending, Queued
<1>4. Types' /\ HeadRuns'
  BY <1>1, <1>2 DEF Inv, Types, HeadRuns
<1>5. StopsBeforeStart' /\ SourcesArePlayed' /\ SinksAreServed'
  BY <1>1, <1>3 DEF Inv, StopsBeforeStart, SourcesArePlayed, SinksAreServed
<1>. QED
  BY <1>4, <1>5 DEF Inv

\* The steps that touch nothing Inv speaks of.
LEMMA QuietStep ==
  ASSUME Inv,
         UNCHANGED <<tasks, signalPc, silent, playing, recording, clientPc, mixing, sinks>>
  PROVE  Inv'
<1>1. \A task \in {"startPlayout", "startRecording"} : Pending(task) => Pending(task)'
  BY DEF Pending
<1>2. clientPc' \in [Clients -> [call : CallPcs, arg : Args]]
  BY DEF Inv, Types
<1>. QED
  BY <1>1, <1>2, OthersStep

LEMMA DeviceStep ==
  ASSUME Inv,
         \/ \E s \in Sources : SourceEnds(s)
         \/ PlayoutReturns \/ CaptureCalls \/ RecordedDataIsAvailable
         \/ UNCHANGED vars
  PROVE  Inv'
<1>1. UNCHANGED <<tasks, signalPc, silent, playing, recording, clientPc, mixing, sinks>>
  BY DEF SourceEnds, PlayoutReturns, CaptureCalls, RecordedDataIsAvailable, vars,
         listVars, mixerVars, signalVars, deviceVars, clientVars
<1>. QED
  BY <1>1, QuietStep

-----------------------------------------------------------------------------
(* The theorems *)

LEMMA InvInit == Init => Inv
<1>. SUFFICES ASSUME Init PROVE Inv
  OBVIOUS
<1>1. Idle \in [call : CallPcs, arg : Args]
  BY DEF Idle, Args, CallPcs
<1>2. tasks \in Seq(Tasks) /\ Registered(sinks) = {}
  BY DEF Init, Registered
<1>. QED
  BY <1>1, <1>2 DEF Init, Inv, Types, HeadRuns, StopsBeforeStart, SourcesArePlayed,
     SinksAreServed

LEMMA InvNext == Inv /\ [Next]_vars => Inv'
<1>. SUFFICES ASSUME Inv, [Next]_vars PROVE Inv'
  OBVIOUS
<1>1. ASSUME NEW c \in Clients, CallsDevice(c) \/ Client(c) PROVE Inv'
  BY <1>1, CallsDeviceStep, ChangesSinksStep, ChangesSubscribersStep, ChangesSourcesStep,
     PostsTaskStep DEF Client
<1>2. CASE Signal
  BY <1>2, CheckIfStartPlayoutStep, CheckIfStartRecordingStep, NotifiesStep,
     CheckIfStopPlayoutStep, StopPlayoutStep, CheckIfStopRecordingStep, StopRecordingStep
     DEF Signal
<1>3. CASE MixFrame
  BY <1>3, MixFrameStep
<1>4. CASE \/ \E s \in Sources : SourceEnds(s)
           \/ PlayoutReturns \/ CaptureCalls \/ RecordedDataIsAvailable
           \/ UNCHANGED vars
  BY <1>4, DeviceStep
<1>. QED
  BY <1>1, <1>2, <1>3, <1>4 DEF Next

\* Inv holds of every behaviour of the device and its clients.
THEOREM SpecInv == Spec => []Inv
  BY InvInit, InvNext, PTL DEF Spec

\* No source is left on a stopped device, in any interleaving of any number of clients that
\* add and remove sources while the signal thread starts and stops (CheckIfStopPlayout).
THEOREM SpecSourcesArePlayed == Spec => []SourcesArePlayed
<1>1. Inv => SourcesArePlayed
  BY DEF Inv
<1>. QED
  BY <1>1, SpecInv, PTL

\* The same of the sinks and the recording, up to the stop that counts the wrong list
\* (CheckIfStopRecording).
THEOREM SpecSinksAreServed == Spec => []SinksAreServed
<1>1. Inv => SinksAreServed
  BY DEF Inv
<1>. QED
  BY <1>1, SpecInv, PTL

================================================================================
