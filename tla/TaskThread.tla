------------------------------- MODULE TaskThread -------------------------------
(***************************************************************************)
(* rtc::Thread (webrtc/rtc_base/thread.cc) over a NullSocketServer, as      *)
(* Thread::Create makes it: the loop of ProcessMessages and Get, the calls  *)
(* that other threads and the tasks themselves make, and the owner that     *)
(* stops and destroys it.                                                   *)
(*                                                                          *)
(* Steps are cut where another thread can come between: stop_ is read       *)
(* without the lock, the queues are looked at under it, the wake-up is an   *)
(* event of its own that stays set until somebody waits for it.             *)
(***************************************************************************)
EXTENDS Integers, Sequences, FiniteSets, FiniteSetsExt

CONSTANTS
  Clients,    \* threads that post tasks
  Delays,     \* of PostDelayedTask
  MaxTime,    \* bound: ticks during which tasks are posted
  MaxTasks    \* bound: tasks that come into the queue

ASSUME ClientsAssumption == IsFiniteSet(Clients)
ASSUME DelaysAssumption == Delays \subseteq Nat /\ IsFiniteSet(Delays)
ASSUME BoundsAssumption == MaxTime \in Nat /\ MaxTasks \in Nat

VARIABLES
  now,      \* TimeMillis()
  stop,     \* stop_
  messages, \* messages_, oldest first
  delayed,  \* delayed_messages_
  number,   \* tasks that came into the queue so far; the last one's is its number
  signal,   \* event_ of the socket server is set
  loop,     \* where the thread is: "start", "scan", "check", "wait", "run" or "exited"
  current,  \* msCurrent of Get
  delay,    \* cmsDelayNext of Get while it checks, Never when nothing is delayed
  until,    \* when its wait times out, Never when it does not
  running,  \* the task that runs, Idle when none does
  call,     \* the call that each poster is in
  done,     \* tasks that are over: they ran, or were destroyed
  ran,      \* tasks that were started
  owner     \* what the owner has done: "runs", "told" to quit, "joined", "destroyed"

queueVars == <<messages, delayed, number>>
loopVars == <<loop, current, delay, until, running>>
vars == <<now, stop, queueVars, signal, loopVars, call, done, ran, owner>>

Never == -1
AtOnce == -1
Idle == 0

\* The thread itself, while it runs a task
Self == "self"
Posters == Clients \union {Self}

NoCall == [pc |-> "idle", at |-> AtOnce, blocking |-> FALSE, task |-> Idle]

Init ==
  /\ now = 0 /\ stop = FALSE
  /\ messages = <<>> /\ delayed = {} /\ number = 0
  /\ signal = FALSE
  /\ loop = "start" /\ current = 0 /\ delay = Never /\ until = Never /\ running = Idle
  /\ call = [p \in Posters |-> NoCall]
  /\ done = {} /\ ran = {} /\ owner = "runs"

-----------------------------------------------------------------------------
(* Calls *)

\* A thread may call while the object is there; the thread itself from a task
MayCall(p) ==
  /\ call[p].pc = "idle" /\ owner # "destroyed" /\ now <= MaxTime
  /\ number + Cardinality({q \in Posters : call[q].pc \in {"post", "push"}}) < MaxTasks
  /\ p = Self => running # Idle

Calls(p, c) == call' = [call EXCEPT ![p] = c]

\* PostTaskImpl and PostDelayedTaskImpl look at stop_, and take the time
PostTask(p) ==
  /\ MayCall(p) /\ ~stop
  /\ Calls(p, [NoCall EXCEPT !.pc = "push"])
  /\ UNCHANGED <<now, stop, queueVars, signal, loopVars, done, ran, owner>>

PostDelayedTask(p, d) ==
  /\ MayCall(p) /\ ~stop
  /\ Calls(p, [NoCall EXCEPT !.pc = "push", !.at = now + d])
  /\ UNCHANGED <<now, stop, queueVars, signal, loopVars, done, ran, owner>>

\* BlockingCallImpl looks at stop_, and then PostTaskImpl does
BlockingCall(p) ==
  /\ MayCall(p) /\ p # Self /\ ~stop
  /\ Calls(p, [NoCall EXCEPT !.pc = "post", !.blocking = TRUE])
  /\ UNCHANGED <<now, stop, queueVars, signal, loopVars, done, ran, owner>>

\* When it is too late the task is destroyed with the cleanup that ends the call
PostsBlocking(p) ==
  /\ call[p].pc = "post"
  /\ Calls(p, IF stop THEN NoCall ELSE [call[p] EXCEPT !.pc = "push"])
  /\ UNCHANGED <<now, stop, queueVars, signal, loopVars, done, ran, owner>>

Push(p) ==
  LET task == [task |-> number + 1, at |-> call[p].at, since |-> now, by |-> p]
  IN  /\ call[p].pc = "push"
      /\ number' = number + 1
      /\ IF call[p].at = AtOnce
           THEN messages' = Append(messages, task) /\ UNCHANGED delayed
           ELSE delayed' = delayed \union {task} /\ UNCHANGED messages
      /\ Calls(p, [call[p] EXCEPT !.pc = "wake", !.task = number + 1])
      /\ UNCHANGED <<now, stop, signal, loopVars, done, ran, owner>>

\* Mutant: a task behind others needs no wake-up
WakesIfFirst == signal \/ Len(messages) = 1

\* WakeUpSocketServer
WakesUp == TRUE

Wake(p) ==
  /\ call[p].pc = "wake"
  /\ signal' = WakesUp
  /\ Calls(p, IF call[p].blocking THEN [call[p] EXCEPT !.pc = "blocked"] ELSE NoCall)
  /\ UNCHANGED <<now, stop, queueVars, loopVars, done, ran, owner>>

\* Mutant: any task that ends sets the event
AnyEnds(t) == done # {}

\* The cleanup of the task t has set the event
IsSet(t) == t \in done

\* done.Wait returns
Return(p) ==
  /\ call[p].pc = "blocked" /\ IsSet(call[p].task)
  /\ Calls(p, NoCall)
  /\ UNCHANGED <<now, stop, queueVars, signal, loopVars, done, ran, owner>>

-----------------------------------------------------------------------------
(* The loop *)

\* Get is entered
Start ==
  /\ loop = "start"
  /\ loop' = "scan" /\ current' = now
  /\ UNCHANGED <<now, stop, queueVars, signal, delay, until, running, call, done, ran, owner>>

\* Mutant: tasks of the same time come in any order
BeforeByTime(d, e) == d.at <= e.at

\* operator< of DelayedMessage
Before(d, e) == d.at < e.at \/ (d.at = e.at /\ d.task < e.task)

Due == {d \in delayed : d.at <= current}
Waiting == delayed \ Due

\* The orders in which a heap may give ds: there is one
Orders(ds) ==
  {s \in [1 .. Cardinality(ds) -> ds] : \A i, j \in 1 .. Cardinality(ds) : i < j => Before(s[i], s[j])}

\* Under the lock: what is due goes behind the others, and the first is taken
Scan ==
  \E due \in Orders(Due) :
    LET all == messages \o due
    IN
      /\ loop = "scan"
      /\ delayed' = Waiting
      /\ IF all # <<>>
           THEN /\ loop' = "run"
                /\ running' = Head(all).task /\ ran' = ran \union {Head(all).task}
                /\ messages' = Tail(all)
                /\ UNCHANGED delay
           ELSE /\ loop' = "check"
                /\ delay' = IF Waiting = {} THEN Never ELSE Min({d.at : d \in Waiting}) - current
                /\ UNCHANGED <<messages, running, ran>>
      /\ UNCHANGED <<now, stop, number, signal, current, until, call, done, owner>>

\* The task returns, and with it what it posted; ProcessMessages goes on
Finish ==
  /\ loop = "run" /\ call[Self].pc = "idle"
  /\ loop' = "start" /\ running' = Idle
  /\ done' = done \union {running}
  /\ UNCHANGED <<now, stop, queueVars, signal, current, delay, until, call, ran, owner>>

\* Mutant: a thread quits as soon as it is told to
QuitsAtOnce == loop \in {"start", "check"}

\* IsQuitting is asked when nothing was found
MayQuit == loop = "check"

Exit ==
  /\ MayQuit /\ stop
  /\ loop' = "exited"
  /\ UNCHANGED <<now, stop, queueVars, signal, current, delay, until, running, call, done, ran,
                 owner>>

\* The wait begins, as long as it was when the time was taken
Wait ==
  /\ loop = "check" /\ ~stop
  /\ loop' = "wait"
  /\ until' = IF delay = Never THEN Never ELSE now + delay
  /\ UNCHANGED <<now, stop, queueVars, signal, current, delay, running, call, done, ran, owner>>

\* The event was set, which resets it, or the time is over
WakesUpOrTimesOut ==
  /\ loop = "wait"
  /\ signal \/ (until # Never /\ until <= now)
  /\ signal' = FALSE
  /\ loop' = "scan" /\ current' = now
  /\ UNCHANGED <<now, stop, queueVars, delay, until, running, call, done, ran, owner>>

-----------------------------------------------------------------------------
(* The owner: Stop, and the destructor *)

Quit ==
  /\ owner = "runs"
  /\ owner' = "told"
  /\ stop' = TRUE
  /\ UNCHANGED <<now, queueVars, signal, loopVars, call, done, ran>>

\* The wake-up of Quit, and then Join
QuitWakes ==
  /\ owner = "told"
  /\ owner' = "joining"
  /\ signal' = TRUE
  /\ UNCHANGED <<now, stop, queueVars, loopVars, call, done, ran>>

Join ==
  /\ owner = "joining" /\ loop = "exited"
  /\ owner' = "joined"
  /\ UNCHANGED <<now, stop, queueVars, signal, loopVars, call, done, ran>>

Held == {messages[i] : i \in DOMAIN messages} \union delayed

\* Mutant: what is left stays
LeavesTasks == {}

\* What is in the queues, which DoDestroy destroys
TasksLeft == {m.task : m \in Held}

\* Nobody may be inside a call but in the wait of a blocking one
DoDestroy ==
  /\ owner = "joined"
  /\ \A p \in Posters : call[p].pc \in {"idle", "blocked"}
  /\ owner' = "destroyed"
  /\ done' = done \union TasksLeft
  /\ messages' = <<>> /\ delayed' = {}
  /\ UNCHANGED <<now, stop, number, signal, loopVars, call, ran>>

\* The time that the bound leaves, and then that of waits
Tick ==
  /\ now < MaxTime \/ (loop = "wait" /\ now < until)
  /\ now' = now + 1
  /\ UNCHANGED <<stop, queueVars, signal, loopVars, call, done, ran, owner>>

-----------------------------------------------------------------------------

Poster(p) ==
  PostTask(p) \/ (\E d \in Delays : PostDelayedTask(p, d)) \/ BlockingCall(p)

\* The rest of a call that has begun
GoesOn(p) == PostsBlocking(p) \/ Push(p) \/ Wake(p) \/ Return(p)

Loop == Start \/ Scan \/ Exit \/ Wait \/ WakesUpOrTimesOut

\* The owner goes on with what it began
Stops == QuitWakes \/ Join \/ DoDestroy

Next ==
  \/ \E p \in Posters : Poster(p) \/ GoesOn(p)
  \/ Loop \/ Finish
  \/ Quit \/ Stops
  \/ Tick

Spec == Init /\ [][Next]_vars

\* Threads go on with their calls and the owner with the stop, tasks end, and time goes on
FairSpec ==
  /\ Spec
  /\ \A p \in Posters : WF_vars(GoesOn(p))
  /\ WF_vars(Loop) /\ WF_vars(Finish) /\ WF_vars(Stops) /\ WF_vars(Tick)

-----------------------------------------------------------------------------

\* What the thread is as a TaskQueue.  What is left in it when it exited is no longer to run.
IsAtOnce(m) == m.at = AtOnce
HasLooked == loop = "check"
HasExited == loop = "exited"
Promised(m) == [task |-> m.task, at |-> m.at, since |-> m.since]

AsapTasks == IF HasExited THEN {} ELSE {m.task : m \in {x \in Held : IsAtOnce(x)}}
LaterTasks == IF HasExited THEN {} ELSE {Promised(m) : m \in {x \in Held : ~IsAtOnce(x)}}

\* The last time for which a task can be posted, and the longest wait
LastTime == MaxTime + Max(Delays \union {0})

Queue == INSTANCE TaskQueue WITH
  Tasks <- 1 .. MaxTasks, Times <- 0 .. LastTime, MaxTime <- MaxTime + LastTime,
  asap <- AsapTasks, later <- LaterTasks, quit <- stop,
  looked <- HasLooked, ended <- HasExited

\* The loop, its wake-ups and its timeouts give what TaskQueue promises, whatever comes
\* between a look at the queues, a look at stop_ and a wait.
ImplementsTaskQueue == Queue!FairSpec

\* A caller whose blocking call returns had its task run, or the thread was told to quit.
RanUnlessQuit ==
  [][\A p \in Posters : call[p].pc = "blocked" /\ Return(p) => call[p].task \in ran \/ stop]_vars

\* A thread ends with tasks in its queue only if others posted them while it was told to quit, or
\* between its last look at the queue and its look at stop_: what its own tasks posted has run.
OwnTasksRun ==
  loop = "exited" => \A i \in DOMAIN messages : messages[i].by # Self

\* What thread.h says of Quit: posts that are ready, and pending calls, are delivered before the
\* loop ends.  They are not when they come between its last look at the queue and its look at
\* stop_, and Quit comes there too.
ReadyPostsAreDelivered ==
  \A t \in 1 .. MaxTasks :
    (~stop /\ \E m \in Held : IsAtOnce(m) /\ m.task = t) ~> t \in ran

\* A blocking call returns: when its task ran, when it comes too late to be posted, or when
\* the owner destroys the thread with the task still in it.
BlockingCallReturns ==
  \A p \in Clients : call[p].blocking ~> ~call[p].blocking

==================================================================================
