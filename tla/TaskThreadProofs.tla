---------------------------- MODULE TaskThreadProofs ----------------------------
(***************************************************************************)
(* Proofs about TaskThread, for any posters, delays and numbers of tasks:   *)
(* what a thread leaves undone when it exits is not of its own making, a    *)
(* blocking call that returns had its task run or was told to quit, and     *)
(* each step of the thread is one of a TaskQueue or none.                   *)
(***************************************************************************)
EXTENDS TaskThread, SequenceTheorems, FiniteSetTheorems, WellFoundedInduction, TLAPS

Pcs == {"idle", "post", "push", "wake", "blocked"}
CallStates == [pc : Pcs, at : Int, blocking : BOOLEAN, task : Int]
Stored == [task : Int, at : Int, since : Int, by : Posters]

\* What the argument needs of the types
QueueTypes ==
  /\ messages \in Seq(Stored)
  /\ delayed \subseteq Stored /\ IsFiniteSet(delayed)
  /\ number \in Int /\ now \in Int
  /\ call \in [Posters -> CallStates]

\* The thread makes calls from a task only
CallsFromTask ==
  /\ running # Idle => loop = "run"
  /\ call[Self].pc # "idle" => loop = "run"

\* Once the thread has looked, what comes into the queue comes from others
LooksAfterItsOwn ==
  loop \in {"check", "wait", "exited"} => \A i \in DOMAIN messages : messages[i].by # Self

OwnInv == QueueTypes /\ CallsFromTask /\ LooksAfterItsOwn

\* Until it is told to quit only tasks that ran are over
RanInv ==
  /\ loop = "run" => running \in ran
  /\ owner # "runs" => stop
  /\ ~stop => done \subseteq ran

-----------------------------------------------------------------------------

LEMMA NoCallTypes == NoCall \in CallStates /\ NoCall.pc = "idle"
  BY DEF NoCall, AtOnce, Idle, CallStates, Pcs

\* The states that a call goes through
LEMMA CallStateTypes ==
  ASSUME NEW c \in CallStates
  PROVE  /\ \A pc \in Pcs :
              /\ [c EXCEPT !.pc = pc] \in CallStates
              /\ [c EXCEPT !.pc = pc, !.blocking = TRUE] \in CallStates
              /\ \A n \in Int :
                   /\ [c EXCEPT !.pc = pc, !.at = n] \in CallStates
                   /\ [c EXCEPT !.pc = pc, !.task = n] \in CallStates
                   /\ [c EXCEPT !.pc = pc, !.task = n].pc = pc
  BY DEF CallStates

LEMMA PcsAreThere == {"post", "push", "wake", "blocked"} \subseteq Pcs
  BY DEF Pcs

LEMMA InitOwn == Init => OwnInv
  <1> SUFFICES ASSUME Init
               PROVE  OwnInv
    OBVIOUS
  <1>1. messages = <<>> /\ delayed = {} /\ IsFiniteSet({})
    BY FS_EmptySet DEF Init
  <1>2. NoCall \in CallStates
    BY NoCallTypes
  <1>3. call = [p \in Posters |-> NoCall]
    BY DEF Init
  <1>4. Self \in Posters /\ NoCall.pc = "idle"
    BY NoCallTypes DEF Posters
  <1>5. loop = "start" /\ running = Idle /\ number = 0 /\ now = 0
    BY DEF Init
  <1> QED
    BY <1>1, <1>2, <1>3, <1>4, <1>5 DEF OwnInv, QueueTypes, CallsFromTask, LooksAfterItsOwn

\* A call moves its poster only
LEMMA CallsTypes ==
  ASSUME OwnInv, NEW p \in Posters,
         NEW c \in CallStates, Calls(p, c)
  PROVE  /\ call' \in [Posters -> CallStates]
         /\ call'[p] = c
         /\ \A q \in Posters \ {p} : call'[q] = call[q]
  BY DEF OwnInv, QueueTypes, Calls

\* A poster that begins a call, or goes on with one without touching the queue
LEMMA CallOwn ==
  ASSUME OwnInv, NEW p \in Posters,
         NEW c \in CallStates, Calls(p, c),
         UNCHANGED <<queueVars, now, loopVars>>,
         p = Self /\ c.pc # "idle" => loop = "run"
  PROVE  OwnInv'
  <1>1. call' \in [Posters -> CallStates]
    BY CallsTypes
  <1>2. call'[Self].pc # "idle" => loop = "run"
    BY CallsTypes DEF OwnInv, CallsFromTask, Posters
  <1>3. UNCHANGED <<messages, delayed, number, now, loop, running>>
    BY DEF queueVars, loopVars
  <1> QED
    BY <1>1, <1>2, <1>3 DEF OwnInv, QueueTypes, CallsFromTask, LooksAfterItsOwn

LEMMA PosterOwn ==
  ASSUME OwnInv, NEW p \in Posters, Poster(p) \/ PostsBlocking(p) \/ Wake(p) \/ Return(p)
  PROVE  OwnInv'
  <1>1. NoCall \in CallStates /\ call[p] \in CallStates
    BY NoCallTypes DEF OwnInv, QueueTypes
  <1>2. MayCall(p) /\ p = Self => loop = "run"
    BY DEF MayCall, OwnInv, CallsFromTask
  <1>3. call[p].pc # "idle" /\ p = Self => loop = "run"
    BY DEF OwnInv, CallsFromTask
  <1>4. CASE PostTask(p)
    <2>1. [NoCall EXCEPT !.pc = "push"] \in CallStates
      BY <1>1, CallStateTypes, PcsAreThere
    <2> QED
      BY <1>2, <1>4, <2>1, CallOwn DEF PostTask
  <1>5. ASSUME NEW d \in Delays, PostDelayedTask(p, d)
        PROVE  OwnInv'
    <2>1. now + d \in Int
      BY DelaysAssumption DEF OwnInv, QueueTypes
    <2>2. [NoCall EXCEPT !.pc = "push", !.at = now + d] \in CallStates
      BY <1>1, <2>1, CallStateTypes, PcsAreThere
    <2> QED
      BY <1>2, <1>5, <2>2, CallOwn DEF PostDelayedTask
  <1>6. CASE BlockingCall(p)
    <2>1. [NoCall EXCEPT !.pc = "post", !.blocking = TRUE] \in CallStates
      BY <1>1, CallStateTypes, PcsAreThere
    <2> QED
      BY <1>2, <1>6, <2>1, CallOwn DEF BlockingCall
  <1>7. CASE PostsBlocking(p)
    <2>1. (IF stop THEN NoCall ELSE [call[p] EXCEPT !.pc = "push"]) \in CallStates
      BY <1>1, CallStateTypes, PcsAreThere
    <2>2. call[p].pc # "idle"
      BY <1>7 DEF PostsBlocking
    <2> QED
      BY <1>3, <1>7, <2>1, <2>2, CallOwn DEF PostsBlocking
  <1>8. CASE Wake(p)
    <2>1. (IF call[p].blocking THEN [call[p] EXCEPT !.pc = "blocked"] ELSE NoCall) \in CallStates
      BY <1>1, CallStateTypes, PcsAreThere
    <2>2. call[p].pc # "idle"
      BY <1>8 DEF Wake
    <2> QED
      BY <1>3, <1>8, <2>1, <2>2, CallOwn DEF Wake, loopVars
  <1>9. CASE Return(p)
    <2>1. call[p].pc # "idle"
      BY <1>9 DEF Return
    <2> QED
      BY <1>1, <1>3, <1>9, <2>1, CallOwn DEF Return
  <1> QED
    BY <1>4, <1>5, <1>6, <1>7, <1>8, <1>9 DEF Poster

\* What comes into the queue behind the thread's last look is not its own: it would run a task
LEMMA PushOwn ==
  ASSUME OwnInv, NEW p \in Posters, Push(p)
  PROVE  OwnInv'
  <1> DEFINE task == [task |-> number + 1, at |-> call[p].at, since |-> now, by |-> p]
             c == [call[p] EXCEPT !.pc = "wake", !.task = number + 1]
  <1>1. task \in Stored /\ c \in CallStates /\ task.by = p /\ c.pc # "idle"
    <2>1. call[p] \in CallStates /\ number + 1 \in Int /\ now \in Int
      BY DEF OwnInv, QueueTypes
    <2>2. c \in CallStates /\ c.pc = "wake"
      BY <2>1, CallStateTypes, PcsAreThere
    <2>3. call[p].at \in Int
      BY <2>1 DEF CallStates
    <2> QED
      BY <2>1, <2>2, <2>3 DEF Stored
  <1>2. /\ number' = number + 1 /\ Calls(p, c)
        /\ UNCHANGED <<now, loop, running>>
        /\ \/ messages' = Append(messages, task) /\ delayed' = delayed
           \/ messages' = messages /\ delayed' = delayed \union {task}
    BY DEF Push, loopVars
  <1>3. call[p].pc = "push" /\ (p = Self => loop = "run")
    BY DEF Push, OwnInv, CallsFromTask
  <1>4. call' \in [Posters -> CallStates]
    BY <1>1, <1>2, CallsTypes
  <1>5. call'[Self].pc # "idle" => loop = "run"
    BY <1>1, <1>2, <1>3, CallsTypes DEF OwnInv, CallsFromTask, Posters
  <1>6. delayed' \subseteq Stored /\ IsFiniteSet(delayed')
    <2>1. IsFiniteSet(delayed) /\ IsFiniteSet(delayed \union {task}) /\ delayed \subseteq Stored
      BY FS_AddElement DEF OwnInv, QueueTypes
    <2> QED
      BY <1>1, <1>2, <2>1
  <1>7. /\ messages' \in Seq(Stored)
        /\ loop # "run" /\ (\A i \in DOMAIN messages : messages[i].by # Self) =>
             \A i \in DOMAIN messages' : messages'[i].by # Self
    <2>1. CASE messages' = messages
      BY <2>1 DEF OwnInv, QueueTypes
    <2>2. CASE messages' = Append(messages, task)
      <3>1. /\ messages' \in Seq(Stored)
            /\ Len(messages') = Len(messages) + 1
            /\ \A i \in 1 .. Len(messages) : messages'[i] = messages[i]
            /\ messages'[Len(messages) + 1] = task
        BY <1>1, <2>2, AppendProperties DEF OwnInv, QueueTypes
      <3>2. DOMAIN messages = 1 .. Len(messages) /\ DOMAIN messages' = 1 .. Len(messages) + 1
              /\ Len(messages) \in Nat
        BY <3>1, LenProperties DEF OwnInv, QueueTypes
      <3> QED
        BY <1>1, <1>3, <3>1, <3>2
    <2> QED
      BY <1>2, <2>1, <2>2
  <1>8. LooksAfterItsOwn'
    BY <1>2, <1>7 DEF OwnInv, LooksAfterItsOwn
  <1>9. number' \in Int /\ now' \in Int
    BY <1>2 DEF OwnInv, QueueTypes
  <1> QED
    BY <1>2, <1>4, <1>5, <1>6, <1>7, <1>8, <1>9 DEF OwnInv, QueueTypes, CallsFromTask

\* Due tasks come as a sequence
LEMMA OrdersTypes ==
  ASSUME OwnInv, NEW due \in Orders(Due)
  PROVE  due \in Seq(Stored)
  <1>1. Due \subseteq delayed
    BY DEF Due
  <1>2. IsFiniteSet(Due)
    BY <1>1, FS_Subset DEF OwnInv, QueueTypes
  <1>3. Cardinality(Due) \in Nat
    BY <1>2, FS_CardinalityType
  <1>4. due \in [1 .. Cardinality(Due) -> Due]
    BY DEF Orders
  <1>5. due \in [1 .. Cardinality(Due) -> Stored]
    BY <1>1, <1>4 DEF OwnInv, QueueTypes
  <1> QED
    BY <1>3, <1>5, SeqDef

\* A look at the queue that finds nothing leaves nothing
LEMMA ScanOwn ==
  ASSUME OwnInv, Scan
  PROVE  OwnInv'
  <1>1. PICK due \in Orders(Due) :
          /\ loop = "scan"
          /\ delayed' = Waiting
          /\ \/ /\ messages \o due # <<>>
                /\ loop' = "run" /\ messages' = Tail(messages \o due)
             \/ /\ messages \o due = <<>>
                /\ loop' = "check" /\ UNCHANGED <<messages, running>>
          /\ UNCHANGED <<number, now, call>>
    BY DEF Scan
  <1>2. due \in Seq(Stored) /\ messages \in Seq(Stored)
    BY <1>1, OrdersTypes DEF OwnInv, QueueTypes
  <1>3. messages \o due \in Seq(Stored)
    BY <1>2, ConcatProperties
  <1>4. messages' \in Seq(Stored)
    BY <1>1, <1>2, <1>3, HeadTailProperties
  <1>5. delayed' \subseteq Stored /\ IsFiniteSet(delayed')
    <2>1. delayed' \subseteq delayed
      BY <1>1 DEF Waiting
    <2> QED
      BY <2>1, FS_Subset DEF OwnInv, QueueTypes
  <1>6. loop' = "check" => messages' = <<>>
    <2>1. messages \o due = <<>> => messages = <<>>
      BY <1>2, ConcatProperties, EmptySeq, LenProperties
    <2> QED
      BY <1>1, <2>1
  <1>7. call[Self].pc = "idle" /\ running = Idle
    BY <1>1 DEF OwnInv, CallsFromTask
  <1>8. LooksAfterItsOwn'
    BY <1>1, <1>6 DEF LooksAfterItsOwn
  <1> QED
    BY <1>1, <1>4, <1>5, <1>7, <1>8 DEF OwnInv, QueueTypes, CallsFromTask

LEMMA OthersOwn ==
  ASSUME OwnInv,
         \/ Start \/ Exit \/ Wait \/ WakesUpOrTimesOut \/ Finish
         \/ Quit \/ Stops \/ Tick
  PROVE  OwnInv'
  <1> USE DEF OwnInv, QueueTypes, CallsFromTask, LooksAfterItsOwn, queueVars, loopVars
  <1>1. CASE Start
    BY <1>1 DEF Start
  <1>2. CASE Exit
    BY <1>2 DEF Exit, MayQuit
  <1>3. CASE Wait
    BY <1>3 DEF Wait
  <1>4. CASE WakesUpOrTimesOut
    BY <1>4 DEF WakesUpOrTimesOut
  <1>5. CASE Finish
    BY <1>5 DEF Finish
  <1>6. CASE Quit
    BY <1>6 DEF Quit
  <1>7. CASE QuitWakes \/ Join
    BY <1>7 DEF QuitWakes, Join
  <1>8. CASE DoDestroy
    <2>1. messages' = <<>> /\ delayed' = {} /\ UNCHANGED <<now, number, loopVars, call>>
      BY <1>8 DEF DoDestroy
    <2> QED
      BY <2>1, FS_EmptySet
  <1>9. CASE Tick
    BY <1>9 DEF Tick
  <1> QED
    BY <1>1, <1>2, <1>3, <1>4, <1>5, <1>6, <1>7, <1>8, <1>9 DEF Stops

LEMMA NextOwn == OwnInv /\ [Next]_vars => OwnInv'
  <1> SUFFICES ASSUME OwnInv, [Next]_vars
               PROVE  OwnInv'
    OBVIOUS
  <1>1. CASE UNCHANGED vars
    BY <1>1
    DEF vars, queueVars, loopVars, OwnInv, QueueTypes, CallsFromTask, LooksAfterItsOwn
  <1> QED
    BY <1>1, PosterOwn, PushOwn, ScanOwn, OthersOwn DEF Next, GoesOn, Loop

\* What the tasks of a thread have posted has run when the thread exits: it asks IsQuitting only
\* when it found nothing (Get), and its own tasks post nothing between the look and the answer.
THEOREM OwnTasksRunCorrect == Spec => []OwnTasksRun
  <1>1. OwnInv => OwnTasksRun
    BY DEF OwnInv, LooksAfterItsOwn, OwnTasksRun
  <1> QED
    BY <1>1, InitOwn, NextOwn, PTL DEF Spec

-----------------------------------------------------------------------------

LEMMA InitRan == Init => RanInv
  BY DEF Init, RanInv

LEMMA NextRan == RanInv /\ [Next]_vars => RanInv'
  <1> SUFFICES ASSUME RanInv, [Next]_vars
               PROVE  RanInv'
    OBVIOUS
  <1> USE DEF RanInv, loopVars
  <1>1. ASSUME NEW p \in Posters, Poster(p) \/ GoesOn(p)
        PROVE  RanInv'
    BY <1>1
    DEF Poster, GoesOn, PostTask, PostDelayedTask, BlockingCall, PostsBlocking, Push, Wake, Return
  <1>2. CASE Scan
    BY <1>2 DEF Scan
  <1>3. CASE Start \/ Exit \/ Wait \/ WakesUpOrTimesOut
    BY <1>3 DEF Start, Exit, Wait, WakesUpOrTimesOut
  <1>4. CASE Finish
    BY <1>4 DEF Finish
  <1>5. CASE Quit \/ Stops
    BY <1>5 DEF Quit, Stops, QuitWakes, Join, DoDestroy
  <1>6. CASE Tick \/ UNCHANGED vars
    BY <1>6 DEF Tick, vars
  <1> QED
    BY <1>1, <1>2, <1>3, <1>4, <1>5, <1>6 DEF Next, Loop

\* A blocking call that returns had its task run, or the thread was told to quit: the cleanup
\* that ends the wait runs behind the task, or when the task is destroyed unrun (BlockingCallImpl).
THEOREM RanUnlessQuitCorrect == Spec => RanUnlessQuit
  <1>1. RanInv /\ [Next]_vars =>
          [\A p \in Posters : call[p].pc = "blocked" /\ Return(p) => call[p].task \in ran \/ stop]_vars
    BY DEF RanInv, Return, IsSet
  <1> QED
    BY <1>1, InitRan, NextRan, PTL DEF Spec, RanUnlessQuit

-----------------------------------------------------------------------------
(* What the thread is as a queue of tasks *)

Fits(m) == m.task \in 1 .. number /\ (IsAtOnce(m) \/ m.at \in 0 .. LastTime)

\* Of two tasks that wait in messages_ the first may run before the second
MayPass(m, k) ==
  /\ m.task # k.task
  /\ IsAtOnce(m) /\ IsAtOnce(k) => m.task < k.task
  /\ ~IsAtOnce(m) /\ ~IsAtOnce(k) => ~Queue!Precedes(k, m)

\* The sequence s may run in its order, and before what ds holds back
InTurn(s, ds) ==
  /\ \A i, j \in DOMAIN s : i < j => MayPass(s[i], s[j])
  /\ \A i \in DOMAIN s : \A d \in ds : MayPass(s[i], d)
  /\ \A i \in DOMAIN s : ~IsAtOnce(s[i]) => s[i].at <= current
  /\ \A d, e \in ds : d.task = e.task => d = e
  /\ \A d \in ds : ~IsAtOnce(d)

TurnInv == InTurn(messages, delayed) /\ \A m \in Held : Fits(m)

\* The times that the loop has noted, and how far time can go
TimeInv ==
  /\ now \in Nat /\ current \in 0 .. now
  /\ delay \in Int /\ until \in Int
  /\ loop \in {"scan", "check"} => now = current \/ now <= MaxTime
  /\ loop = "check" => delay = Never \/ delay + current <= LastTime
  /\ loop = "wait" => until <= MaxTime + LastTime
  /\ \A p \in Posters : call[p].at = AtOnce \/ call[p].at \in 0 .. LastTime

\* Calls that will come into the queue
Coming == {q \in Posters : call[q].pc \in {"post", "push"}}

RoomInv == number \in Nat /\ number + Cardinality(Coming) <= MaxTasks

\* Who stops, and what runs
StopInv ==
  /\ loop = "exited" => stop
  /\ owner \in {"joined", "destroyed"} => loop = "exited"
  /\ loop = "run" => running \in Nat \ {0}

SimInv == TurnInv /\ TimeInv /\ RoomInv /\ StopInv

\* A finite set of numbers has a greatest one: a smallest set without one would have one
LEMMA GreatestExists ==
  ASSUME NEW S, S \subseteq Nat, IsFiniteSet(S), S # {}
  PROVE  Max(S) \in S /\ \A j \in S : j <= Max(S)
  <1> DEFINE HasGreatest(T) == \E k \in T : \A j \in T : k >= j
             Lack == {T \in FiniteSubsetsOf(S) : T # {} /\ ~HasGreatest(T)}
  <1>1. HasGreatest(S)
    <2> SUFFICES ASSUME ~HasGreatest(S)
                 PROVE  FALSE
      OBVIOUS
    <2>1. S \in Lack /\ Lack \subseteq FiniteSubsetsOf(S)
      BY DEF FiniteSubsetsOf
    <2>2. PICK T \in Lack : \A U \in Lack : <<U, T>> \notin StrictSubsetOrdering(S)
      <3> HIDE DEF Lack
      <3> QED
        BY <2>1, FS_StrictSubsetOrderingWellFounded, WFMin, Zenon
    <2>3. T \subseteq S /\ IsFiniteSet(T) /\ T # {} /\ ~HasGreatest(T)
      BY <2>2 DEF FiniteSubsetsOf
    <2>4. PICK x \in T : TRUE
      BY <2>3
    <2> DEFINE U == T \ {x}
    <2>5. U \subseteq S /\ IsFiniteSet(U) /\ U # T /\ U \subseteq T
      BY <2>3, <2>4, FS_RemoveElement
    <2>6. <<U, T>> \in StrictSubsetOrdering(S)
      BY <2>3, <2>5 DEF StrictSubsetOrdering
    <2>7. U = {} \/ HasGreatest(U)
      BY <2>2, <2>5, <2>6 DEF FiniteSubsetsOf
    <2>8. x \in Nat /\ U \subseteq Nat
      BY <2>3, <2>4
    <2>9. CASE U = {}
      <3>1. \A j \in T : j = x
        BY <2>9
      <3>2. x >= x
        BY <2>8
      <3> QED
        BY <2>3, <2>4, <3>1, <3>2
    <2>10. CASE HasGreatest(U)
      <3>1. PICK k \in U : \A j \in U : k >= j
        BY <2>10
      <3>2. CASE k >= x
        BY <2>3, <2>5, <3>1, <3>2
      <3>3. CASE ~(k >= x)
        <4>1. \A j \in T : x >= j
          BY <2>8, <3>1, <3>3
        <4> QED
          BY <2>3, <2>4, <4>1
      <3> QED
        BY <3>2, <3>3
    <2> QED
      BY <2>7, <2>9, <2>10
  <1>2. PICK k \in S : \A j \in S : k >= j
    BY <1>1
  <1>3. Max(S) \in S /\ \A j \in S : Max(S) >= j
    BY <1>2 DEF Max
  <1> QED
    BY <1>3

\* No task is posted for later than that
LEMMA LastTimeFacts ==
  LastTime \in Nat /\ \A t \in 0 .. MaxTime, d \in Delays : t + d \in 0 .. LastTime
  <1> DEFINE S == Delays \union {0}
  <1>1. S \subseteq Nat /\ IsFiniteSet(S) /\ S # {}
    BY DelaysAssumption, FS_AddElement
  <1>2. Max(S) \in Nat /\ \A d \in Delays : d <= Max(S)
    BY <1>1, GreatestExists
  <1>3. LastTime = MaxTime + Max(S)
    BY DEF LastTime
  <1> HIDE DEF S
  <1> QED
    BY <1>2, <1>3, BoundsAssumption, DelaysAssumption

\* A set of numbers has a least one
LEMMA LeastExists ==
  ASSUME NEW S, S \subseteq Nat, S # {}
  PROVE  Min(S) \in S /\ \A j \in S : Min(S) <= j
  <1>1. PICK m \in S : \A j \in S : <<j, m>> \notin OpToRel(<, Nat)
    BY WFMin, NatLessThanWellFounded, Zenon
  <1>2. \A j \in S : ~(j < m)
    BY <1>1, Zenon DEF OpToRel
  <1>3. \A j \in S : m <= j
    BY <1>2
  <1> QED
    BY <1>3 DEF Min

-----------------------------------------------------------------------------

\* A heap gives back what was put into it, in order
LEMMA OrdersFacts ==
  ASSUME OwnInv, NEW due \in Orders(Due)
  PROVE  /\ \A i, j \in DOMAIN due : i < j => Before(due[i], due[j])
         /\ {due[i] : i \in DOMAIN due} = Due
  <1> DEFINE n == Cardinality(Due)
  <1>1. Due \subseteq delayed /\ IsFiniteSet(Due) /\ Due \subseteq Stored
    BY FS_Subset DEF Due, OwnInv, QueueTypes
  <1>2. n \in Nat
    BY <1>1, FS_CardinalityType
  <1>3. due \in [1 .. n -> Due] /\ \A i, j \in 1 .. n : i < j => Before(due[i], due[j])
    BY DEF Orders
  <1> HIDE DEF n
  <1>4. \A d \in Stored : ~Before(d, d)
    BY DEF Before, Stored
  <1>5. \A i, j \in 1 .. n : due[i] = due[j] => i = j
    BY <1>1, <1>2, <1>3, <1>4
  <1>6. due \in Injection(1 .. n, Due)
    BY <1>3, <1>5 DEF Injection, IsInjective
  <1>7. Cardinality(1 .. n) = Cardinality(Due)
    BY <1>2, FS_Interval DEF n
  <1>8. due \in Surjection(1 .. n, Due)
    BY <1>1, <1>6, <1>7, FS_Injection
  <1>9. \A d \in Due : \E i \in 1 .. n : due[i] = d
    BY <1>8 DEF Surjection
  <1> QED
    BY <1>3, <1>9

\* What a look at the queue has before it: all that there is to run, in an order in which it may
LEMMA ScanTurn ==
  ASSUME OwnInv, TurnInv, current \in Int, NEW due \in Orders(Due)
  PROVE  /\ messages \o due \in Seq(Stored)
         /\ InTurn(messages \o due, Waiting)
         /\ {(messages \o due)[i] : i \in DOMAIN (messages \o due)} \union Waiting = Held
  <1> DEFINE s == messages \o due
             m == Len(messages)
             k == Len(due)
  <1>1. messages \in Seq(Stored) /\ due \in Seq(Stored)
    BY OrdersTypes DEF OwnInv, QueueTypes
  <1>2. /\ s \in Seq(Stored) /\ Len(s) = m + k
        /\ \A i \in 1 .. m + k : s[i] = IF i <= m THEN messages[i] ELSE due[i - m]
    BY <1>1, ConcatProperties
  <1>3. /\ m \in Nat /\ DOMAIN messages = 1 .. m
        /\ k \in Nat /\ DOMAIN due = 1 .. k /\ DOMAIN s = 1 .. m + k
    BY <1>1, <1>2, LenProperties
  <1> HIDE DEF s, m, k
  <1>4. /\ \A i, j \in 1 .. k : i < j => Before(due[i], due[j])
        /\ {due[i] : i \in 1 .. k} = Due
    BY <1>3, OrdersFacts
  <1>5. \A i \in 1 .. k : due[i] \in Due
    BY <1>4
  <1>6. \A i \in 1 .. m + k :
          \/ i \in 1 .. m /\ s[i] = messages[i]
          \/ i - m \in 1 .. k /\ s[i] = due[i - m] /\ i > m
    BY <1>2, <1>3
  <1>7. /\ \A i \in 1 .. m : i \in 1 .. m + k /\ s[i] = messages[i]
        /\ \A i \in 1 .. k : i + m \in 1 .. m + k /\ s[i + m] = due[i]
    <2>1. \A i \in 1 .. k : i + m \in 1 .. m + k /\ ~(i + m <= m) /\ (i + m) - m = i
      BY <1>3
    <2>2. \A i \in 1 .. m : i \in 1 .. m + k /\ i <= m
      BY <1>3
    <2> QED
      BY <1>2, <2>1, <2>2
  <1>8. /\ Due \subseteq delayed /\ Waiting = delayed \ Due /\ delayed \subseteq Stored
        /\ \A d \in Due : d.at <= current
        /\ \A d \in Waiting : ~(d.at <= current)
    BY DEF Due, Waiting, OwnInv, QueueTypes
  <1>9. /\ \A i, j \in 1 .. m : i < j => MayPass(messages[i], messages[j])
        /\ \A i \in 1 .. m : \A d \in delayed : MayPass(messages[i], d)
        /\ \A i \in 1 .. m : ~IsAtOnce(messages[i]) => messages[i].at <= current
        /\ \A d, e \in delayed : d.task = e.task => d = e
        /\ \A d \in delayed : ~IsAtOnce(d)
    BY <1>3 DEF TurnInv, InTurn
  <1>10. ASSUME NEW d \in Due, NEW e \in delayed, Before(d, e)
         PROVE  MayPass(d, e)
    <2>1. d \in Stored /\ e \in Stored /\ ~IsAtOnce(d) /\ ~IsAtOnce(e)
      BY <1>8, <1>9
    <2>2. d.at \in Int /\ e.at \in Int /\ d.task \in Int /\ e.task \in Int
      BY <2>1 DEF Stored
    <2>3. d.task # e.task
      BY <1>8, <1>9, <1>10, <2>2 DEF Before
    <2>4. ~Queue!Precedes(e, d)
      BY <1>10, <2>2 DEF Before, Queue!Precedes
    <2> QED
      BY <2>1, <2>3, <2>4 DEF MayPass
  <1>11. ASSUME NEW i \in 1 .. m + k, NEW j \in 1 .. m + k, i < j
         PROVE  MayPass(s[i], s[j])
    <2>1. CASE i \in 1 .. m /\ j \in 1 .. m
      BY <1>7, <1>9, <1>11, <2>1
    <2>2. CASE i \in 1 .. m /\ j - m \in 1 .. k /\ s[j] = due[j - m]
      BY <1>5, <1>7, <1>8, <1>9, <2>2
    <2>3. CASE i - m \in 1 .. k /\ j - m \in 1 .. k /\ s[i] = due[i - m] /\ s[j] = due[j - m]
      <3>1. i - m < j - m
        BY <1>3, <1>11
      <3> QED
        BY <1>4, <1>5, <1>8, <1>10, <2>3, <3>1
    <2> QED
      BY <1>3, <1>6, <1>11, <2>1, <2>2, <2>3
  <1>12. ASSUME NEW i \in 1 .. m + k, NEW d \in Waiting
         PROVE  MayPass(s[i], d)
    <2>1. CASE i \in 1 .. m
      BY <1>7, <1>8, <1>9, <2>1
    <2>2. CASE i - m \in 1 .. k /\ s[i] = due[i - m]
      <3>1. due[i - m] \in Due /\ d \in delayed
        BY <1>5, <1>8, <2>2
      <3>2. due[i - m].at \in Int /\ d.at \in Int
        BY <1>8, <3>1 DEF Stored
      <3>3. Before(due[i - m], d)
        BY <1>8, <3>1, <3>2 DEF Before
      <3> QED
        BY <1>10, <2>2, <3>1, <3>3
    <2> QED
      BY <1>6, <2>1, <2>2
  <1>13. \A i \in 1 .. m + k : ~IsAtOnce(s[i]) => s[i].at <= current
    BY <1>5, <1>6, <1>8, <1>9
  <1>14. InTurn(s, Waiting)
    BY <1>3, <1>8, <1>9, <1>11, <1>12, <1>13 DEF InTurn
  <1>15. {s[i] : i \in 1 .. m + k} = {messages[i] : i \in 1 .. m} \union Due
    <2>1. \A i \in 1 .. m + k : s[i] \in {messages[l] : l \in 1 .. m} \union Due
      BY <1>5, <1>6
    <2>2. \A i \in 1 .. m : messages[i] \in {s[l] : l \in 1 .. m + k}
      BY <1>7
    <2>3. \A d \in Due : d \in {s[l] : l \in 1 .. m + k}
      BY <1>4, <1>7
    <2> QED
      BY <2>1, <2>2, <2>3
  <1>16. {s[i] : i \in DOMAIN s} \union Waiting = Held
    BY <1>3, <1>8, <1>15 DEF Held
  <1> QED
    BY <1>2, <1>14, <1>16 DEF s

\* The first of them is taken away
LEMMA HeadTurn ==
  ASSUME NEW s \in Seq(Stored), s # <<>>, NEW ds \in SUBSET Stored, InTurn(s, ds)
  PROVE  LET held == {s[i] : i \in DOMAIN s} \union ds
         IN  /\ Head(s) \in held /\ Head(s) = s[1] /\ 1 \in DOMAIN s
             /\ \A m \in held : m = Head(s) \/ MayPass(Head(s), m)
             /\ InTurn(Tail(s), ds)
             /\ {Tail(s)[i] : i \in DOMAIN Tail(s)} \union ds = held \ {Head(s)}
  <1> DEFINE held == {s[i] : i \in DOMAIN s} \union ds
             t == Tail(s)
             h == Head(s)
             n == Len(s)
  <1>1. n \in Nat /\ DOMAIN s = 1 .. n /\ n # 0
    BY LenProperties, EmptySeq
  <1>2. /\ h = s[1] /\ t \in Seq(Stored) /\ Len(t) = n - 1
        /\ \A i \in 1 .. n - 1 : t[i] = s[i + 1]
    BY HeadTailProperties
  <1>3. DOMAIN t = 1 .. n - 1
    BY <1>2, LenProperties
  <1> HIDE DEF t, h, n
  <1>4. 1 \in 1 .. n /\ \A i \in 1 .. n - 1 : i + 1 \in 1 .. n /\ 1 < i + 1
    BY <1>1
  <1>5. \A i \in 1 .. n : i = 1 \/ (i - 1 \in 1 .. n - 1 /\ s[i] = t[i - 1] /\ 1 < i)
    <2>1. \A i \in 1 .. n : i = 1 \/ (i - 1 \in 1 .. n - 1 /\ (i - 1) + 1 = i /\ 1 < i)
      BY <1>1
    <2> QED
      BY <1>2, <2>1
  <1>6. \A i \in 1 .. n - 1 : MayPass(h, t[i])
    BY <1>1, <1>2, <1>4 DEF InTurn
  <1>7. \A d \in ds : MayPass(h, d)
    BY <1>1, <1>2, <1>4 DEF InTurn
  <1>8. \A m \in held : m = h \/ MayPass(h, m)
    BY <1>1, <1>2, <1>5, <1>6, <1>7
  <1>9. InTurn(t, ds)
    <2>1. \A i, j \in 1 .. n - 1 : i < j => MayPass(t[i], t[j])
      <3>1. \A i, j \in 1 .. n - 1 : i < j => i + 1 < j + 1
        BY <1>1
      <3> QED
        BY <1>1, <1>2, <1>4, <3>1 DEF InTurn
    <2>2. \A i \in 1 .. n - 1 : \A d \in ds : MayPass(t[i], d)
      BY <1>1, <1>2, <1>4 DEF InTurn
    <2>3. \A i \in 1 .. n - 1 : ~IsAtOnce(t[i]) => t[i].at <= current
      BY <1>1, <1>2, <1>4 DEF InTurn
    <2> QED
      BY <1>3, <2>1, <2>2, <2>3 DEF InTurn
  <1>10. \A m : ~MayPass(m, m)
    BY DEF MayPass
  <1>11. {t[i] : i \in DOMAIN t} \union ds = held \ {h}
    <2>1. \A i \in 1 .. n - 1 : t[i] \in held /\ t[i] # h
      BY <1>1, <1>2, <1>4, <1>6, <1>10
    <2>2. \A d \in ds : d # h
      BY <1>7, <1>10
    <2>3. ASSUME NEW m \in held \ {h}, m \notin ds
          PROVE  m \in {t[i] : i \in 1 .. n - 1}
      <3>1. PICK i \in 1 .. n : m = s[i]
        BY <1>1, <2>3
      <3>2. i # 1
        BY <1>2, <3>1
      <3>3. i - 1 \in 1 .. n - 1 /\ m = t[i - 1]
        BY <1>5, <3>1, <3>2
      <3> QED
        BY <3>3
    <2> QED
      BY <1>3, <2>1, <2>2, <2>3
  <1> QED
    BY <1>1, <1>2, <1>4, <1>8, <1>9, <1>11 DEF t, h

\* What a look at the queue does to what is in it
ScanTakes ==
  \E h \in Held :
    /\ running' = h.task /\ loop' = "run"
    /\ \A m \in Held : m = h \/ MayPass(h, m)
    /\ ~IsAtOnce(h) => h.at <= current
    /\ Held' = Held \ {h}

ScanFindsNothing ==
  /\ loop' = "check" /\ running' = running
  /\ Held' = Held /\ \A m \in Held : ~IsAtOnce(m)
  /\ delay' = IF Waiting = {} THEN Never ELSE Min({d.at : d \in Waiting}) - current

LEMMA ScanFacts ==
  ASSUME OwnInv, TurnInv, current \in Int, Scan
  PROVE  /\ InTurn(messages', delayed')
         /\ ScanTakes \/ ScanFindsNothing
         /\ loop = "scan"
         /\ UNCHANGED <<now, stop, number, current, until, call, owner>>
  <1>1. PICK due \in Orders(Due) :
          /\ loop = "scan"
          /\ delayed' = Waiting
          /\ \/ /\ messages \o due # <<>>
                /\ loop' = "run" /\ running' = Head(messages \o due).task
                /\ messages' = Tail(messages \o due)
             \/ /\ messages \o due = <<>>
                /\ loop' = "check" /\ UNCHANGED <<messages, running>>
                /\ delay' = IF Waiting = {} THEN Never ELSE Min({d.at : d \in Waiting}) - current
          /\ UNCHANGED <<now, stop, number, current, until, call, owner>>
    BY DEF Scan
  <1> DEFINE s == messages \o due
  <1>2. /\ s \in Seq(Stored) /\ InTurn(s, Waiting)
        /\ {s[i] : i \in DOMAIN s} \union Waiting = Held
    BY ScanTurn
  <1>3. Waiting \in SUBSET Stored
    BY DEF Waiting, OwnInv, QueueTypes
  <1>4. messages \in Seq(Stored) /\ due \in Seq(Stored)
    BY OrdersTypes DEF OwnInv, QueueTypes
  <1>5. s = <<>> => messages = <<>>
    BY <1>4, ConcatProperties, EmptySeq, LenProperties
  <1>6. CASE s # <<>>
    <2> DEFINE h == Head(s)
    <2>1. /\ h \in Held /\ h = s[1] /\ 1 \in DOMAIN s
          /\ \A m \in Held : m = h \/ MayPass(h, m)
          /\ InTurn(Tail(s), Waiting)
          /\ {Tail(s)[i] : i \in DOMAIN Tail(s)} \union Waiting = Held \ {h}
      <3> HIDE DEF s
      <3> QED
        BY <1>2, <1>3, <1>6, HeadTurn
    <2>2. /\ loop' = "run" /\ running' = h.task
          /\ messages' = Tail(s) /\ delayed' = Waiting
      BY <1>1, <1>6
    <2> HIDE DEF h, s
    <2>3. ~IsAtOnce(h) => h.at <= current
      BY <1>2, <2>1 DEF InTurn
    <2>4. InTurn(messages', delayed')
      BY <2>1, <2>2
    <2>5. Held' = Held \ {h}
      BY <2>1, <2>2 DEF Held
    <2> QED
      BY <1>1, <2>1, <2>2, <2>3, <2>4, <2>5 DEF ScanTakes
  <1>7. CASE s = <<>>
    <2>1. /\ loop' = "check" /\ UNCHANGED <<messages, running>> /\ delayed' = Waiting
          /\ delay' = IF Waiting = {} THEN Never ELSE Min({d.at : d \in Waiting}) - current
      BY <1>1, <1>7
    <2>2. messages' = s
      BY <1>5, <1>7, <2>1
    <2> HIDE DEF s
    <2>3. InTurn(messages', delayed')
      BY <1>2, <2>1, <2>2
    <2>4. Held' = Held
      BY <1>2, <2>1, <2>2 DEF Held
    <2>5. \A m \in Held : ~IsAtOnce(m)
      <3>1. Held = Waiting
        <4>1. DOMAIN s = {}
          BY <1>7 DEF s
        <4> QED
          BY <1>2, <4>1
      <3> QED
        BY <1>2, <3>1 DEF InTurn
    <2> QED
      BY <1>1, <2>1, <2>3, <2>4, <2>5 DEF ScanFindsNothing
  <1> QED
    BY <1>6, <1>7

-----------------------------------------------------------------------------
(* The steps keep it so *)

LEMMA InitSim == Init => SimInv
  <1> SUFFICES ASSUME Init
               PROVE  SimInv
    OBVIOUS
  <1>1. /\ now = 0 /\ current = 0 /\ messages = <<>> /\ delayed = {} /\ number = 0
        /\ loop = "start" /\ delay = Never /\ until = Never /\ owner = "runs"
        /\ call = [p \in Posters |-> NoCall]
    BY DEF Init
  <1>2. DOMAIN messages = {} /\ Held = {}
    BY <1>1 DEF Held
  <1>3. TurnInv
    BY <1>1, <1>2 DEF TurnInv, InTurn
  <1>4. TimeInv
    BY <1>1 DEF TimeInv, NoCall, AtOnce, Never
  <1>5. RoomInv
    <2>1. Coming = {}
      BY <1>1 DEF Coming, NoCall
    <2> QED
      BY <1>1, <2>1, FS_EmptySet, BoundsAssumption DEF RoomInv
  <1>6. StopInv
    BY <1>1 DEF StopInv
  <1> QED
    BY <1>3, <1>4, <1>5, <1>6 DEF SimInv

\* What comes into the queue comes behind what is there
LEMMA PushTurn ==
  ASSUME OwnInv, TurnInv, TimeInv, RoomInv, NEW p \in Posters, Push(p)
  PROVE  /\ TurnInv'
         /\ \E m \in Stored :
              /\ m.task = number + 1 /\ m.since = now /\ m.at = call[p].at
              /\ Held' = Held \union {m}
         /\ UNCHANGED <<now, stop, loop, running>>
  <1> DEFINE task == [task |-> number + 1, at |-> call[p].at, since |-> now, by |-> p]
             n == Len(messages)
  <1>1. call[p] \in CallStates /\ call[p].at \in Int /\ number \in Nat /\ now \in Nat
          /\ (call[p].at = AtOnce \/ call[p].at \in 0 .. LastTime)
          /\ current \in 0 .. now
    BY DEF OwnInv, QueueTypes, CallStates, TimeInv, RoomInv
  <1>2. /\ task \in Stored /\ task.task = number + 1 /\ task.at = call[p].at /\ task.since = now
    BY <1>1 DEF Stored
  <1>3. /\ number' = number + 1
        /\ UNCHANGED <<now, stop, loop, running, current>>
        /\ \/ call[p].at = AtOnce /\ messages' = Append(messages, task) /\ delayed' = delayed
           \/ call[p].at # AtOnce /\ messages' = messages /\ delayed' = delayed \union {task}
    BY DEF Push, loopVars
  <1> HIDE DEF task
  <1>4. /\ messages \in Seq(Stored) /\ delayed \subseteq Stored
        /\ n \in Nat /\ DOMAIN messages = 1 .. n /\ \A i \in 1 .. n : messages[i] \in Stored
    BY LenProperties, ElementOfSeq DEF OwnInv, QueueTypes
  <1> HIDE DEF n
  <1>5. /\ \A i \in 1 .. n : messages[i] \in Held
        /\ \A d \in delayed : d \in Held
        /\ \A m \in Held : m \in Stored /\ m.task \in 1 .. number /\ (IsAtOnce(m) \/ m.at \in 0 .. LastTime)
    BY <1>4 DEF Held, TurnInv, Fits
  <1>6. ASSUME NEW m \in Held, ~IsAtOnce(m) => m.at <= current
        PROVE  MayPass(m, task)
    <2>1. m.task \in Int /\ m.at \in Int /\ m.task < number + 1
      BY <1>1, <1>5 DEF Stored
    <2>2. ~IsAtOnce(m) => ~Queue!Precedes(task, m)
      BY <1>1, <1>2, <1>6, <2>1 DEF Queue!Precedes
    <2> QED
      BY <1>1, <1>2, <2>1, <2>2 DEF MayPass
  <1>7. \A i \in 1 .. n : MayPass(messages[i], task)
    BY <1>4, <1>5, <1>6 DEF TurnInv, InTurn
  <1>8. Held' = Held \union {task} /\ InTurn(messages', delayed')
    <2>1. CASE call[p].at = AtOnce /\ messages' = Append(messages, task) /\ delayed' = delayed
      <3>1. /\ Append(messages, task) \in Seq(Stored) /\ Len(Append(messages, task)) = n + 1
            /\ \A i \in 1 .. n : Append(messages, task)[i] = messages[i]
            /\ Append(messages, task)[n + 1] = task
        BY <1>2, <1>4, AppendProperties DEF n
      <3>2. DOMAIN Append(messages, task) = 1 .. n + 1
        BY <3>1, LenProperties
      <3> DEFINE s == Append(messages, task)
      <3> HIDE DEF s
      <3>3. /\ DOMAIN s = 1 .. n + 1 /\ s[n + 1] = task
            /\ \A i \in 1 .. n + 1 : i = n + 1 \/ (i \in 1 .. n /\ s[i] = messages[i])
        BY <1>4, <3>1, <3>2 DEF s
      <3>4. IsAtOnce(task)
        BY <1>2, <2>1 DEF IsAtOnce
      <3>5. \A i, j \in 1 .. n + 1 : i < j => MayPass(s[i], s[j])
        <4> SUFFICES ASSUME NEW i \in 1 .. n + 1, NEW j \in 1 .. n + 1, i < j
                     PROVE  MayPass(s[i], s[j])
          OBVIOUS
        <4>1. i \in 1 .. n /\ s[i] = messages[i]
          BY <1>4, <3>3
        <4>2. CASE j = n + 1
          BY <1>7, <3>3, <4>1, <4>2
        <4>3. CASE j \in 1 .. n /\ s[j] = messages[j]
          BY <1>4, <4>1, <4>3 DEF TurnInv, InTurn
        <4> QED
          BY <3>3, <4>2, <4>3
      <3>6. \A d \in delayed : MayPass(task, d)
        <4> SUFFICES ASSUME NEW d \in delayed
                     PROVE  MayPass(task, d)
          OBVIOUS
        <4>1. ~IsAtOnce(d)
          BY DEF TurnInv, InTurn
        <4>2. task.task # d.task
          BY <1>1, <1>2, <1>5
        <4> QED
          BY <3>4, <4>1, <4>2 DEF MayPass
      <3>7. \A i \in 1 .. n + 1 : \A d \in delayed : MayPass(s[i], d)
        BY <1>4, <3>3, <3>6 DEF TurnInv, InTurn
      <3>8. \A i \in 1 .. n + 1 : ~IsAtOnce(s[i]) => s[i].at <= current
        BY <1>4, <3>3, <3>4 DEF TurnInv, InTurn
      <3>9. InTurn(s, delayed)
        BY <3>3, <3>5, <3>7, <3>8 DEF TurnInv, InTurn
      <3>10. {s[i] : i \in DOMAIN s} = {messages[i] : i \in DOMAIN messages} \union {task}
        <4>1. \A i \in 1 .. n + 1 : s[i] \in {messages[l] : l \in 1 .. n} \union {task}
          BY <3>3
        <4>2. \A i \in 1 .. n : i \in 1 .. n + 1 /\ s[i] = messages[i]
          BY <1>4, <3>1 DEF s
        <4>3. n + 1 \in 1 .. n + 1
          BY <1>4
        <4> QED
          BY <1>4, <3>3, <4>1, <4>2, <4>3
      <3> QED
        BY <1>3, <2>1, <3>9, <3>10 DEF Held, s, InTurn
    <2>2. CASE call[p].at # AtOnce /\ messages' = messages /\ delayed' = delayed \union {task}
      <3>1. ~IsAtOnce(task) /\ \A d \in delayed : d.task # task.task
        BY <1>1, <1>2, <1>5, <2>2 DEF IsAtOnce
      <3>2. InTurn(messages, delayed \union {task})
        BY <1>4, <1>7, <3>1 DEF TurnInv, InTurn
      <3> QED
        BY <1>3, <2>2, <3>2 DEF Held, InTurn
    <2> QED
      BY <1>3, <2>1, <2>2
  <1>9. \A m \in Held' : Fits(m)'
    <2>1. \A m \in Held : m.task \in 1 .. number + 1 /\ (IsAtOnce(m) \/ m.at \in 0 .. LastTime)
      BY <1>1, <1>5
    <2>2. task.task \in 1 .. number + 1 /\ (IsAtOnce(task) \/ task.at \in 0 .. LastTime)
      BY <1>1, <1>2 DEF IsAtOnce
    <2> QED
      BY <1>3, <1>8, <2>1, <2>2 DEF Fits
  <1>10. InTurn(messages, delayed)'
    BY <1>3, <1>8 DEF InTurn
  <1>11. TurnInv'
    BY <1>9, <1>10 DEF TurnInv
  <1> QED
    BY <1>2, <1>3, <1>8, <1>11

\* Time and the loop go on with the order as it is
LEMMA NextTurn ==
  OwnInv /\ TurnInv /\ TimeInv /\ RoomInv /\ [Next]_vars => TurnInv'
  <1> SUFFICES ASSUME OwnInv, TurnInv, TimeInv, RoomInv, [Next]_vars
               PROVE  TurnInv'
    OBVIOUS
  <1>1. now \in Nat /\ current \in 0 .. now
    BY DEF TimeInv
  <1>2. /\ messages \in Seq(Stored)
        /\ \A i \in DOMAIN messages : messages[i].at \in Int
    <2>1. messages \in Seq(Stored)
      BY DEF OwnInv, QueueTypes
    <2>2. \A i \in DOMAIN messages : messages[i] \in Stored
      BY <2>1, LenProperties, ElementOfSeq
    <2> QED
      BY <2>1, <2>2 DEF Stored
  <1>3. ASSUME UNCHANGED queueVars, current' \in Int, current <= current'
        PROVE  TurnInv'
    <2>1. UNCHANGED <<messages, delayed, number, Held>>
      BY <1>3 DEF queueVars, Held
    <2>2. \A i \in DOMAIN messages : ~IsAtOnce(messages[i]) => messages[i].at <= current'
      BY <1>1, <1>2, <1>3 DEF TurnInv, InTurn
    <2>3. InTurn(messages', delayed')
      BY <2>1 DEF TurnInv, InTurn
    <2> QED
      BY <2>1, <2>2, <2>3 DEF TurnInv, InTurn, Fits
  <1>4. CASE UNCHANGED <<queueVars, current>>
    BY <1>1, <1>3, <1>4
  <1>5. ASSUME NEW p \in Posters, Poster(p) \/ GoesOn(p)
        PROVE  TurnInv'
    <2>1. CASE Push(p)
      BY <2>1, PushTurn
    <2>2. CASE Poster(p) \/ PostsBlocking(p) \/ Wake(p) \/ Return(p)
      BY <1>4, <2>2
      DEF Poster, PostTask, PostDelayedTask, BlockingCall, PostsBlocking, Wake, Return, loopVars
    <2> QED
      BY <1>5, <2>1, <2>2 DEF GoesOn
  <1>6. CASE Start \/ WakesUpOrTimesOut
    BY <1>1, <1>3, <1>6 DEF Start, WakesUpOrTimesOut
  <1>7. CASE Scan
    <2>1. /\ InTurn(messages', delayed') /\ UNCHANGED <<number, current>>
          /\ Held' \subseteq Held
      BY <1>1, <1>7, ScanFacts DEF ScanTakes, ScanFindsNothing
    <2>2. InTurn(messages, delayed)'
      BY <2>1 DEF InTurn
    <2>3. \A m \in Held' : Fits(m)'
      BY <2>1 DEF TurnInv, Fits
    <2> QED
      BY <2>2, <2>3 DEF TurnInv
  <1>8. CASE Exit \/ Wait \/ Finish \/ Quit \/ QuitWakes \/ Join \/ Tick
    BY <1>4, <1>8 DEF Exit, Wait, Finish, Quit, QuitWakes, Join, Tick, loopVars
  <1>9. CASE DoDestroy
    <2>1. messages' = <<>> /\ delayed' = {}
      BY <1>9 DEF DoDestroy
    <2>2. DOMAIN messages' = {} /\ Held' = {}
      BY <2>1 DEF Held
    <2> QED
      BY <2>1, <2>2 DEF TurnInv, InTurn
  <1>10. CASE UNCHANGED vars
    BY <1>4, <1>10 DEF vars, loopVars
  <1> QED
    BY <1>4, <1>5, <1>6, <1>7, <1>8, <1>9, <1>10 DEF Next, Loop, Stops

\* Time goes no further than the waits
LEMMA NextTime ==
  OwnInv /\ TurnInv /\ TimeInv /\ [Next]_vars => TimeInv'
  <1> SUFFICES ASSUME OwnInv, TurnInv, TimeInv, [Next]_vars
               PROVE  TimeInv'
    OBVIOUS
  <1>1. /\ now \in Nat /\ current \in 0 .. now /\ current \in Int
        /\ delay \in Int /\ until \in Int
        /\ loop \in {"scan", "check"} => now = current \/ now <= MaxTime
        /\ loop = "check" => delay = Never \/ delay + current <= LastTime
        /\ loop = "wait" => until <= MaxTime + LastTime
        /\ \A p \in Posters : call[p].at = AtOnce \/ call[p].at \in 0 .. LastTime
    BY DEF TimeInv
  <1>2. MaxTime \in Nat /\ LastTime \in Nat
    BY BoundsAssumption, LastTimeFacts
  <1>3. CASE UNCHANGED <<now, loopVars, call>>
    BY <1>3 DEF TimeInv, loopVars
  <1>4. ASSUME NEW p \in Posters, NEW c \in CallStates, Calls(p, c),
               c.at = AtOnce \/ c.at \in 0 .. LastTime,
               UNCHANGED <<now, loopVars>>
        PROVE  TimeInv'
    <2>1. call'[p] = c /\ \A q \in Posters \ {p} : call'[q] = call[q]
      BY <1>4, CallsTypes
    <2>2. \A q \in Posters : call'[q].at = AtOnce \/ call'[q].at \in 0 .. LastTime
      BY <1>1, <1>4, <2>1
    <2> QED
      BY <1>1, <1>4, <2>2 DEF TimeInv, loopVars
  <1>5. NoCall \in CallStates /\ NoCall.at = AtOnce
    BY NoCallTypes DEF NoCall
  <1>6. ASSUME NEW p \in Posters, Poster(p) \/ GoesOn(p)
        PROVE  TimeInv'
    <2>1. call[p] \in CallStates /\ (call[p].at = AtOnce \/ call[p].at \in 0 .. LastTime)
      BY <1>1 DEF OwnInv, QueueTypes
    <2>2. CASE PostTask(p)
      <3>1. [NoCall EXCEPT !.pc = "push"] \in CallStates /\ [NoCall EXCEPT !.pc = "push"].at = AtOnce
        BY <1>5, CallStateTypes, PcsAreThere DEF NoCall
      <3> QED
        BY <1>4, <2>2, <3>1 DEF PostTask
    <2>3. ASSUME NEW d \in Delays, PostDelayedTask(p, d)
          PROVE  TimeInv'
      <3>1. now <= MaxTime
        BY <2>3 DEF PostDelayedTask, MayCall
      <3>2. now + d \in 0 .. LastTime /\ now + d \in Int
        BY <1>1, <1>2, <3>1, LastTimeFacts
      <3> DEFINE c == [NoCall EXCEPT !.pc = "push", !.at = now + d]
      <3>3. c \in CallStates /\ c.at = now + d
        BY <1>5, <3>2, CallStateTypes, PcsAreThere DEF NoCall
      <3>4. Calls(p, c) /\ UNCHANGED <<now, loopVars>>
        BY <2>3 DEF PostDelayedTask
      <3> HIDE DEF c
      <3> QED
        BY <1>4, <3>2, <3>3, <3>4
    <2>4. CASE BlockingCall(p)
      <3> DEFINE c == [NoCall EXCEPT !.pc = "post", !.blocking = TRUE]
      <3>1. c \in CallStates /\ c.at = AtOnce
        BY <1>5, CallStateTypes, PcsAreThere DEF NoCall
      <3>2. Calls(p, c) /\ UNCHANGED <<now, loopVars>>
        BY <2>4 DEF BlockingCall
      <3> HIDE DEF c
      <3> QED
        BY <1>4, <3>1, <3>2
    <2>5. ASSUME NEW pc \in Pcs
          PROVE  [call[p] EXCEPT !.pc = pc] \in CallStates /\ [call[p] EXCEPT !.pc = pc].at = call[p].at
      BY <2>1, CallStateTypes DEF CallStates
    <2>6. CASE PostsBlocking(p)
      <3>1. Calls(p, NoCall) \/ Calls(p, [call[p] EXCEPT !.pc = "push"])
        BY <2>6 DEF PostsBlocking, Calls
      <3> QED
        BY <1>4, <1>5, <2>1, <2>5, <2>6, <3>1, PcsAreThere DEF PostsBlocking
    <2>7. CASE Push(p)
      <3> DEFINE c == [call[p] EXCEPT !.pc = "wake", !.task = number + 1]
      <3>1. number + 1 \in Int
        BY DEF OwnInv, QueueTypes
      <3>2. c \in CallStates /\ c.at = call[p].at
        BY <2>1, <3>1, CallStateTypes, PcsAreThere DEF CallStates
      <3>3. Calls(p, c) /\ UNCHANGED <<now, loopVars>>
        BY <2>7 DEF Push
      <3> HIDE DEF c
      <3> QED
        BY <1>4, <2>1, <3>2, <3>3
    <2>8. CASE Wake(p)
      <3>1. Calls(p, NoCall) \/ Calls(p, [call[p] EXCEPT !.pc = "blocked"])
        BY <2>8 DEF Wake, Calls
      <3> QED
        BY <1>4, <1>5, <2>1, <2>5, <2>8, <3>1, PcsAreThere DEF Wake
    <2>9. CASE Return(p)
      BY <1>4, <1>5, <2>9 DEF Return
    <2> QED
      BY <1>6, <2>2, <2>3, <2>4, <2>6, <2>7, <2>8, <2>9 DEF Poster, GoesOn
  <1>7. CASE Start \/ WakesUpOrTimesOut
    <2>1. loop' = "scan" /\ current' = now /\ UNCHANGED <<now, delay, until, call>>
      BY <1>7 DEF Start, WakesUpOrTimesOut
    <2> QED
      BY <1>1, <2>1 DEF TimeInv
  <1>8. CASE Scan
    <2>1. /\ loop = "scan" /\ UNCHANGED <<now, current, until, call>>
          /\ \/ loop' = "run" /\ delay' = delay
             \/ /\ loop' = "check"
                /\ delay' = IF Waiting = {} THEN Never ELSE Min({d.at : d \in Waiting}) - current
      BY <1>8 DEF Scan
    <2>2. CASE loop' = "run" /\ delay' = delay
      BY <1>1, <2>1, <2>2 DEF TimeInv
    <2>3. CASE /\ loop' = "check"
               /\ delay' = IF Waiting = {} THEN Never ELSE Min({d.at : d \in Waiting}) - current
      <3>1. CASE Waiting = {}
        BY <1>1, <2>1, <2>3, <3>1 DEF TimeInv, Never
      <3>2. CASE Waiting # {}
        <4> DEFINE S == {d.at : d \in Waiting}
        <4>1. \A d \in Waiting : d.at \in 0 .. LastTime
          BY DEF Waiting, TurnInv, InTurn, Held, Fits
        <4>2. S \subseteq 0 .. LastTime /\ S # {}
          BY <3>2, <4>1
        <4>3. Min(S) \in 0 .. LastTime
          BY <1>2, <4>2, LeastExists
        <4>4. delay' = Min(S) - current
          BY <2>3, <3>2
        <4> HIDE DEF S
        <4>5. delay' \in Int /\ delay' + current <= LastTime
          BY <1>1, <1>2, <4>3, <4>4
        <4> QED
          BY <1>1, <2>1, <2>3, <4>5 DEF TimeInv
      <3> QED
        BY <3>1, <3>2
    <2> QED
      BY <2>1, <2>2, <2>3
  <1>9. CASE Exit \/ Finish
    <2>1. loop' \in {"exited", "start"} /\ UNCHANGED <<now, current, delay, until, call>>
      BY <1>9 DEF Exit, Finish
    <2> QED
      BY <1>1, <2>1 DEF TimeInv
  <1>10. CASE Wait
    <2>1. /\ loop = "check" /\ loop' = "wait" /\ UNCHANGED <<now, current, delay, call>>
          /\ until' = IF delay = Never THEN Never ELSE now + delay
      BY <1>10 DEF Wait
    <2>2. until' \in Int /\ until' <= MaxTime + LastTime
      BY <1>1, <1>2, <2>1 DEF Never
    <2> QED
      BY <1>1, <2>1, <2>2 DEF TimeInv
  <1>11. CASE Quit \/ Stops
    BY <1>3, <1>11 DEF Quit, Stops, QuitWakes, Join, DoDestroy
  <1>12. CASE Tick
    <2>1. /\ now < MaxTime \/ loop = "wait"
          /\ now' = now + 1 /\ UNCHANGED <<loop, current, delay, until, call>>
      BY <1>12 DEF Tick, loopVars
    <2>2. now' \in Nat /\ current' \in 0 .. now' /\ (loop # "wait" => now' <= MaxTime)
      BY <1>1, <1>2, <2>1
    <2> QED
      BY <1>1, <2>1, <2>2 DEF TimeInv
  <1>13. CASE UNCHANGED vars
    BY <1>3, <1>13 DEF vars
  <1> QED
    BY <1>6, <1>7, <1>8, <1>9, <1>10, <1>11, <1>12, <1>13 DEF Next, Loop

\* There is room for every call that has begun
LEMMA ComingFacts ==
  ASSUME OwnInv, NEW p \in Posters, NEW c \in CallStates, Calls(p, c)
  PROVE  /\ IsFiniteSet(Coming)
         /\ IsFiniteSet(Coming')
         /\ c.pc \in {"post", "push"} => Coming' = Coming \union {p}
         /\ c.pc \notin {"post", "push"} => Coming' = Coming \ {p}
         /\ p \in Coming <=> call[p].pc \in {"post", "push"}
  <1>1. call'[p] = c /\ \A q \in Posters \ {p} : call'[q] = call[q]
    BY CallsTypes
  <1>2. IsFiniteSet(Posters)
    BY ClientsAssumption, FS_AddElement DEF Posters
  <1>3. IsFiniteSet(Coming) /\ IsFiniteSet(Coming')
    BY <1>2, FS_Subset DEF Coming
  <1> QED
    BY <1>1, <1>3 DEF Coming

LEMMA NextRoom == OwnInv /\ RoomInv /\ [Next]_vars => RoomInv'
  <1> SUFFICES ASSUME OwnInv, RoomInv, [Next]_vars
               PROVE  RoomInv'
    OBVIOUS
  <1>1. CASE UNCHANGED <<number, call>>
    BY <1>1 DEF RoomInv, Coming
  <1>2. ASSUME NEW p \in Posters, NEW c \in CallStates, Calls(p, c), number' = number,
               \/ c.pc \notin {"post", "push"}
               \/ call[p].pc \in {"post", "push"}
               \/ number + Cardinality(Coming) < MaxTasks
        PROVE  RoomInv'
    <2>1. /\ IsFiniteSet(Coming)
          /\ c.pc \in {"post", "push"} => Coming' = Coming \union {p}
          /\ c.pc \notin {"post", "push"} => Coming' = Coming \ {p}
          /\ call[p].pc \in {"post", "push"} => p \in Coming
      BY <1>2, ComingFacts
    <2>2. /\ Cardinality(Coming) \in Nat
          /\ Cardinality(Coming \ {p}) \in {Cardinality(Coming), Cardinality(Coming) - 1}
          /\ Cardinality(Coming \union {p}) \in {Cardinality(Coming), Cardinality(Coming) + 1}
      BY <2>1, FS_CardinalityType, FS_AddElement, FS_RemoveElement
    <2>3. number \in Nat /\ number + Cardinality(Coming) <= MaxTasks /\ MaxTasks \in Nat
      BY BoundsAssumption DEF RoomInv
    <2>4. CASE c.pc \notin {"post", "push"}
      <3>1. Cardinality(Coming') = Cardinality(Coming \ {p})
        BY <2>1, <2>4
      <3>2. Cardinality(Coming') <= Cardinality(Coming) /\ Cardinality(Coming') \in Int
        BY <2>2, <3>1
      <3> QED
        BY <1>2, <2>2, <2>3, <3>2 DEF RoomInv
    <2>5. CASE c.pc \in {"post", "push"} /\ call[p].pc \in {"post", "push"}
      <3>1. Coming' = Coming
        BY <2>1, <2>5
      <3> QED
        BY <1>2, <2>3, <3>1 DEF RoomInv
    <2>6. CASE c.pc \in {"post", "push"} /\ number + Cardinality(Coming) < MaxTasks
      <3>1. Cardinality(Coming') = Cardinality(Coming \union {p})
        BY <2>1, <2>6
      <3>2. Cardinality(Coming') <= Cardinality(Coming) + 1 /\ Cardinality(Coming') \in Int
        BY <2>2, <3>1
      <3> QED
        BY <1>2, <2>2, <2>3, <2>6, <3>2 DEF RoomInv
    <2> QED
      BY <1>2, <2>4, <2>5, <2>6
  <1>3. NoCall \in CallStates /\ NoCall.pc = "idle"
    BY NoCallTypes
  <1>4. ASSUME NEW p \in Posters, Poster(p) \/ GoesOn(p)
        PROVE  RoomInv'
    <2>1. call[p] \in CallStates
      BY DEF OwnInv, QueueTypes
    <2>2. MayCall(p) => number + Cardinality(Coming) < MaxTasks
      BY DEF MayCall, Coming
    <2>3. CASE PostTask(p)
      <3>1. [NoCall EXCEPT !.pc = "push"] \in CallStates
        BY <1>3, CallStateTypes, PcsAreThere
      <3> QED
        BY <1>2, <2>2, <2>3, <3>1 DEF PostTask, queueVars
    <2>4. ASSUME NEW d \in Delays, PostDelayedTask(p, d)
          PROVE  RoomInv'
      <3>1. now + d \in Int
        BY DelaysAssumption DEF OwnInv, QueueTypes
      <3>2. [NoCall EXCEPT !.pc = "push", !.at = now + d] \in CallStates
        BY <1>3, <3>1, CallStateTypes, PcsAreThere
      <3> QED
        BY <1>2, <2>2, <2>4, <3>2 DEF PostDelayedTask, queueVars
    <2>5. CASE BlockingCall(p)
      <3>1. [NoCall EXCEPT !.pc = "post", !.blocking = TRUE] \in CallStates
        BY <1>3, CallStateTypes, PcsAreThere
      <3> QED
        BY <1>2, <2>2, <2>5, <3>1 DEF BlockingCall, queueVars
    <2>6. CASE PostsBlocking(p)
      <3>1. (IF stop THEN NoCall ELSE [call[p] EXCEPT !.pc = "push"]) \in CallStates
        BY <1>3, <2>1, CallStateTypes, PcsAreThere
      <3> QED
        BY <1>2, <2>6, <3>1 DEF PostsBlocking, queueVars
    <2>7. CASE Push(p)
      <3> DEFINE c == [call[p] EXCEPT !.pc = "wake", !.task = number + 1]
      <3>1. number + 1 \in Int
        BY DEF OwnInv, QueueTypes
      <3>2. c \in CallStates /\ c.pc = "wake"
        BY <2>1, <3>1, CallStateTypes, PcsAreThere
      <3>3. Calls(p, c) /\ number' = number + 1 /\ call[p].pc = "push"
        BY <2>7 DEF Push
      <3> HIDE DEF c
      <3>4. IsFiniteSet(Coming) /\ p \in Coming /\ Coming' = Coming \ {p}
        BY <3>2, <3>3, ComingFacts
      <3>5. Cardinality(Coming) \in Nat /\ Cardinality(Coming') = Cardinality(Coming) - 1
        BY <3>4, FS_CardinalityType, FS_RemoveElement
      <3> QED
        BY <3>3, <3>5, BoundsAssumption DEF RoomInv
    <2>8. CASE Wake(p)
      <3>1. /\ (IF call[p].blocking THEN [call[p] EXCEPT !.pc = "blocked"] ELSE NoCall) \in CallStates
            /\ (IF call[p].blocking THEN [call[p] EXCEPT !.pc = "blocked"] ELSE NoCall).pc
                 \in {"blocked", "idle"}
        BY <1>3, <2>1, CallStateTypes, PcsAreThere DEF CallStates
      <3> QED
        BY <1>2, <2>8, <3>1 DEF Wake, queueVars
    <2>9. CASE Return(p)
      BY <1>2, <1>3, <2>9 DEF Return, queueVars
    <2> QED
      BY <1>4, <2>3, <2>4, <2>5, <2>6, <2>7, <2>8, <2>9 DEF Poster, GoesOn
  <1>5. CASE Loop \/ Finish \/ Quit \/ Stops \/ Tick \/ UNCHANGED vars
    BY <1>1, <1>5
    DEF Loop, Start, Scan, Exit, Wait, WakesUpOrTimesOut, Finish, Quit, Stops, QuitWakes, Join,
        DoDestroy, Tick, vars, queueVars
  <1> QED
    BY <1>4, <1>5 DEF Next

LEMMA NextStop == OwnInv /\ TurnInv /\ TimeInv /\ StopInv /\ [Next]_vars => StopInv'
  <1> SUFFICES ASSUME OwnInv, TurnInv, TimeInv, StopInv, [Next]_vars
               PROVE  StopInv'
    OBVIOUS
  <1> USE DEF StopInv, loopVars
  <1>1. ASSUME NEW p \in Posters, Poster(p) \/ GoesOn(p)
        PROVE  StopInv'
    BY <1>1
    DEF Poster, GoesOn, PostTask, PostDelayedTask, BlockingCall, PostsBlocking, Push, Wake, Return
  <1>2. CASE Scan
    <2>1. current \in Int
      BY DEF TimeInv
    <2>2. /\ loop = "scan" /\ UNCHANGED <<stop, owner>>
          /\ ScanTakes \/ ScanFindsNothing
      BY <1>2, <2>1, ScanFacts
    <2>3. \A m \in Held : m.task \in Nat \ {0}
      BY DEF TurnInv, Fits
    <2> QED
      BY <2>2, <2>3 DEF ScanTakes, ScanFindsNothing
  <1>3. CASE Start \/ Exit \/ Wait \/ WakesUpOrTimesOut \/ Finish
    BY <1>3 DEF Start, Exit, MayQuit, Wait, WakesUpOrTimesOut, Finish
  <1>4. CASE Quit \/ Stops \/ Tick \/ UNCHANGED vars
    BY <1>4 DEF Quit, Stops, QuitWakes, Join, DoDestroy, Tick, vars
  <1> QED
    BY <1>1, <1>2, <1>3, <1>4 DEF Next, Loop

LEMMA NextSim == OwnInv /\ SimInv /\ [Next]_vars => SimInv'
  BY NextTurn, NextTime, NextRoom, NextStop DEF SimInv

-----------------------------------------------------------------------------
(* Every step is one of the queue's, or none *)

\* What is in the queue, seen from outside
Seen == <<now, stop, Held, running, HasLooked, HasExited>>

LEMMA UnseenStep ==
  ASSUME UNCHANGED Seen
  PROVE  UNCHANGED Queue!qvars
  <1>1. UNCHANGED <<AsapTasks, LaterTasks>>
    BY DEF Seen, AsapTasks, LaterTasks
  <1> QED
    BY <1>1 DEF Queue!qvars, Seen

LEMMA PushIsPost ==
  ASSUME OwnInv, SimInv, NEW p \in Posters, Push(p)
  PROVE  [Queue!Next]_Queue!qvars
  <1>1. PICK m \in Stored :
          /\ m.task = number + 1 /\ m.since = now /\ m.at = call[p].at
          /\ Held' = Held \union {m}
          /\ UNCHANGED <<now, stop, loop, running>>
    BY PushTurn DEF SimInv
  <1>2. CASE HasExited
    <2>1. HasExited' /\ AsapTasks' = AsapTasks /\ LaterTasks' = LaterTasks
      BY <1>1, <1>2 DEF HasExited, AsapTasks, LaterTasks
    <2> QED
      BY <1>1, <1>2, <2>1 DEF Queue!qvars, HasExited, HasLooked
  <1>3. CASE ~HasExited
    <2>1. ~HasExited' /\ HasExited' = HasExited /\ HasLooked' = HasLooked
      BY <1>1, <1>3 DEF HasExited, HasLooked
    <2>2. /\ AsapTasks = {x.task : x \in {y \in Held : IsAtOnce(y)}}
          /\ LaterTasks = {Promised(x) : x \in {y \in Held : ~IsAtOnce(y)}}
          /\ AsapTasks' = {x.task : x \in {y \in Held \union {m} : IsAtOnce(y)}}
          /\ LaterTasks' = {Promised(x) : x \in {y \in Held \union {m} : ~IsAtOnce(y)}}
      BY <1>1, <1>3, <2>1 DEF AsapTasks, LaterTasks
    <2>3. number \in Nat /\ \A x \in Held : x.task \in 1 .. number
      BY DEF SimInv, RoomInv, TurnInv, Fits
    <2>4. Queue!IsNew(m.task)
      <3>1. \A t \in AsapTasks : t < m.task
        BY <1>1, <2>2, <2>3
      <3>2. \A d \in LaterTasks : d.task < m.task
        BY <1>1, <2>2, <2>3 DEF Promised
      <3> QED
        BY <3>1, <3>2 DEF Queue!IsNew
    <2>5. m.task \in 1 .. MaxTasks
      <3> DEFINE c == [call[p] EXCEPT !.pc = "wake", !.task = number + 1]
      <3>1. p \in Coming /\ IsFiniteSet(Coming)
        <4>1. IsFiniteSet(Posters)
          BY ClientsAssumption, FS_AddElement DEF Posters
        <4> QED
          BY <4>1, FS_Subset DEF Push, Coming
      <3>2. Cardinality(Coming) \in Nat /\ Cardinality(Coming) # 0
        BY <3>1, FS_CardinalityType, FS_EmptySet
      <3> QED
        BY <1>1, <3>2, BoundsAssumption DEF SimInv, RoomInv
    <2>6. CASE call[p].at = AtOnce
      <3>1. IsAtOnce(m)
        BY <1>1, <2>6 DEF IsAtOnce
      <3>2. AsapTasks' = AsapTasks \union {m.task} /\ LaterTasks' = LaterTasks
        BY <2>2, <3>1
      <3>3. Queue!Post(m.task)
        BY <1>1, <1>3, <2>1, <2>4, <3>2 DEF Queue!Post
      <3> QED
        BY <2>5, <3>3 DEF Queue!Next
    <2>7. CASE call[p].at # AtOnce
      <3>1. ~IsAtOnce(m) /\ m.at \in 0 .. LastTime
        BY <1>1, <2>7 DEF IsAtOnce, SimInv, TimeInv
      <3>2. AsapTasks' = AsapTasks /\ LaterTasks' = LaterTasks \union {Promised(m)}
        BY <2>2, <3>1
      <3>3. Promised(m) = [task |-> m.task, at |-> m.at, since |-> now]
        BY <1>1 DEF Promised
      <3>4. Queue!PostDelayed(m.task, m.at)
        BY <1>1, <1>3, <2>1, <2>4, <3>2, <3>3 DEF Queue!PostDelayed
      <3> QED
        BY <2>5, <3>1, <3>4 DEF Queue!Next
    <2> QED
      BY <2>6, <2>7
  <1> QED
    BY <1>2, <1>3

LEMMA ScanIsRun ==
  ASSUME OwnInv, SimInv, Scan
  PROVE  [Queue!Next]_Queue!qvars
  <1>1. /\ ScanTakes \/ ScanFindsNothing
        /\ loop = "scan" /\ UNCHANGED <<now, stop, number>>
        /\ now \in Nat /\ current \in 0 .. now
    BY ScanFacts DEF SimInv, TimeInv
  <1>2. running = Idle
    BY <1>1 DEF OwnInv, CallsFromTask
  <1>3. CASE ScanFindsNothing
    <2>1. /\ ~HasExited /\ HasExited' = HasExited /\ HasLooked' = TRUE
          /\ Held' = Held /\ running' = running
      BY <1>1, <1>3 DEF ScanFindsNothing, HasLooked, HasExited
    <2>2. AsapTasks = {} /\ UNCHANGED <<AsapTasks, LaterTasks>>
      BY <1>3, <2>1 DEF ScanFindsNothing, AsapTasks, LaterTasks
    <2>3. Queue!Look
      BY <1>1, <1>2, <2>1, <2>2 DEF Queue!Look, Queue!Idle, Idle
    <2> QED
      BY <2>3 DEF Queue!Next
  <1>4. CASE ScanTakes
    <2>1. PICK h \in Held :
            /\ running' = h.task /\ loop' = "run"
            /\ \A m \in Held : m = h \/ MayPass(h, m)
            /\ ~IsAtOnce(h) => h.at <= current
            /\ Held' = Held \ {h}
      BY <1>4 DEF ScanTakes
    <2>2. ~HasExited /\ ~HasExited' /\ HasExited' = HasExited /\ HasLooked' = FALSE
      BY <1>1, <2>1 DEF HasExited, HasLooked
    <2>3. /\ AsapTasks = {x.task : x \in {y \in Held : IsAtOnce(y)}}
          /\ LaterTasks = {Promised(x) : x \in {y \in Held : ~IsAtOnce(y)}}
          /\ AsapTasks' = {x.task : x \in {y \in Held \ {h} : IsAtOnce(y)}}
          /\ LaterTasks' = {Promised(x) : x \in {y \in Held \ {h} : ~IsAtOnce(y)}}
      BY <2>1, <2>2 DEF AsapTasks, LaterTasks
    <2>4. \A x \in Held : x.task \in Int /\ (~IsAtOnce(x) => x.at \in Int)
      BY DEF SimInv, TurnInv, Fits
    <2>5. \A x \in Held \ {h} : x.task # h.task
      BY <2>1 DEF MayPass
    <2>6. CASE IsAtOnce(h)
      <3>1. h.task \in AsapTasks
        BY <2>3, <2>6
      <3>2. \A t \in AsapTasks : h.task <= t
        BY <2>1, <2>3, <2>4, <2>6 DEF MayPass
      <3>3. AsapTasks' = AsapTasks \ {h.task}
        BY <2>3, <2>5, <2>6
      <3>4. LaterTasks' = LaterTasks
        BY <2>3, <2>6
      <3>5. Queue!RunFirst(h.task)
        BY <1>1, <1>2, <2>1, <2>2, <3>2, <3>3, <3>4 DEF Queue!RunFirst, Queue!Idle, Idle
      <3> QED
        BY <3>1, <3>5 DEF Queue!RunNext, Queue!RunAny, Queue!Next
    <2>7. CASE ~IsAtOnce(h)
      <3> DEFINE e == Promised(h)
      <3>1. e \in LaterTasks /\ e.task = h.task /\ e.at = h.at
        BY <2>3, <2>7 DEF Promised
      <3>2. e.at <= now
        BY <1>1, <2>1, <2>4, <2>7, <3>1
      <3>3. \A x \in Held : ~IsAtOnce(x) => ~Queue!Precedes(Promised(x), e)
        <4> SUFFICES ASSUME NEW x \in Held, ~IsAtOnce(x)
                     PROVE  ~Queue!Precedes(Promised(x), e)
          OBVIOUS
        <4>1. CASE x = h
          BY <2>4, <2>7, <4>1 DEF Queue!Precedes, Promised
        <4>2. CASE x # h
          <5>1. ~Queue!Precedes(x, h)
            BY <2>1, <2>7, <4>2 DEF MayPass
          <5> QED
            BY <5>1 DEF Queue!Precedes, Promised
        <4> QED
          BY <4>1, <4>2
      <3>4. ~\E d \in LaterTasks : Queue!Precedes(d, e)
        BY <2>3, <3>3
      <3>5. LaterTasks' = LaterTasks \ {e}
        <4>1. \A x \in Held \ {h} : Promised(x) # e
          BY <2>5 DEF Promised
        <4> QED
          BY <2>3, <2>7, <4>1
      <3>6. AsapTasks' = AsapTasks
        BY <2>3, <2>7
      <3> HIDE DEF e
      <3>7. Queue!RunDelayed(e)
        BY <1>1, <1>2, <2>1, <2>2, <3>1, <3>2, <3>4, <3>5, <3>6
        DEF Queue!RunDelayed, Queue!Idle, Idle
      <3> QED
        BY <3>1, <3>7 DEF Queue!RunAny, Queue!Next
    <2> QED
      BY <2>6, <2>7
  <1> QED
    BY <1>1, <1>3, <1>4

LEMMA StepIsQueueStep ==
  OwnInv /\ SimInv /\ [Next]_vars => [Queue!Next]_Queue!qvars
  <1> SUFFICES ASSUME OwnInv, SimInv, [Next]_vars
               PROVE  [Queue!Next]_Queue!qvars
    OBVIOUS
  <1>1. ASSUME UNCHANGED <<now, stop, queueVars, running>>, HasExited' = HasExited,
               HasLooked' = HasLooked
        PROVE  [Queue!Next]_Queue!qvars
    <2>1. UNCHANGED Seen
      BY <1>1 DEF Seen, Held, queueVars
    <2> QED
      BY <2>1, UnseenStep
  <1>2. ASSUME NEW p \in Posters, Poster(p) \/ GoesOn(p)
        PROVE  [Queue!Next]_Queue!qvars
    <2>1. CASE Push(p)
      BY <2>1, PushIsPost
    <2>2. CASE Poster(p) \/ PostsBlocking(p) \/ Wake(p) \/ Return(p)
      BY <1>1, <2>2
      DEF Poster, PostTask, PostDelayedTask, BlockingCall, PostsBlocking, Wake, Return, loopVars,
          HasExited, HasLooked
    <2> QED
      BY <1>2, <2>1, <2>2 DEF GoesOn
  <1>3. CASE Start \/ WakesUpOrTimesOut
    BY <1>1, <1>3 DEF Start, WakesUpOrTimesOut, HasExited, HasLooked
  <1>11. CASE Wait
    <2>1. /\ ~stop /\ HasLooked' = FALSE /\ HasExited' = HasExited /\ Held' = Held
          /\ UNCHANGED <<now, stop, running>>
      BY <1>11 DEF Wait, HasExited, HasLooked, Held, queueVars
    <2>2. UNCHANGED <<AsapTasks, LaterTasks>>
      BY <2>1 DEF AsapTasks, LaterTasks
    <2>3. Queue!Forget
      BY <2>1, <2>2 DEF Queue!Forget
    <2> QED
      BY <2>3 DEF Queue!Next
  <1>4. CASE Exit
    <2>1. /\ stop /\ loop = "check" /\ loop' = "exited"
          /\ UNCHANGED <<now, stop, running>>
      BY <1>4 DEF Exit, MayQuit
    <2>2. running = Idle
      BY <2>1 DEF OwnInv, CallsFromTask
    <2>3. ~HasExited /\ HasExited' /\ HasLooked /\ HasLooked' = FALSE
      BY <2>1 DEF HasExited, HasLooked
    <2>4. AsapTasks' = {} /\ LaterTasks' = {}
      BY <2>3 DEF AsapTasks, LaterTasks
    <2>5. HasExited' = TRUE
      BY <2>3 DEF HasExited
    <2>6. Queue!End
      BY <2>1, <2>2, <2>3, <2>4, <2>5 DEF Queue!End, Queue!Idle, Idle
    <2> QED
      BY <2>6 DEF Queue!Next
  <1>5. CASE Finish
    <2>1. /\ loop = "run" /\ loop' = "start" /\ running' = Idle
          /\ UNCHANGED <<now, stop, queueVars>>
      BY <1>5 DEF Finish
    <2>2. running # Idle
      BY <2>1 DEF SimInv, StopInv, Idle
    <2>3. HasExited' = HasExited /\ HasLooked' = HasLooked /\ Held' = Held
      BY <2>1 DEF HasExited, HasLooked, Held, queueVars
    <2>4. UNCHANGED <<AsapTasks, LaterTasks>>
      BY <2>3 DEF AsapTasks, LaterTasks
    <2>5. Queue!Finish
      BY <2>1, <2>2, <2>3, <2>4 DEF Queue!Finish, Queue!Idle, Idle
    <2> QED
      BY <2>5 DEF Queue!Next
  <1>6. CASE Quit
    <2>1. stop' = TRUE /\ UNCHANGED <<now, queueVars, running, loop>>
      BY <1>6 DEF Quit, loopVars
    <2>2. HasExited' = HasExited /\ HasLooked' = HasLooked /\ Held' = Held
      BY <2>1 DEF HasExited, HasLooked, Held, queueVars
    <2>3. UNCHANGED <<AsapTasks, LaterTasks>>
      BY <2>2 DEF AsapTasks, LaterTasks
    <2>4. Queue!Quit
      BY <2>1, <2>2, <2>3 DEF Queue!Quit
    <2> QED
      BY <2>4 DEF Queue!Next
  <1>7. CASE QuitWakes \/ Join
    BY <1>1, <1>7 DEF QuitWakes, Join, loopVars, HasExited, HasLooked
  <1>8. CASE DoDestroy
    <2>1. loop = "exited" /\ UNCHANGED <<now, stop, running, loop>>
      BY <1>8 DEF DoDestroy, SimInv, StopInv, loopVars
    <2>2. HasExited /\ HasExited' /\ HasExited' = HasExited /\ HasLooked' = HasLooked
      BY <2>1 DEF HasExited, HasLooked
    <2>3. UNCHANGED <<AsapTasks, LaterTasks>>
      BY <2>2 DEF AsapTasks, LaterTasks
    <2> QED
      BY <2>1, <2>2, <2>3 DEF Queue!qvars
  <1>9. CASE Tick
    <2>1. /\ now < MaxTime \/ (loop = "wait" /\ now < until)
          /\ now' = now + 1 /\ UNCHANGED <<stop, queueVars, running, loop>>
      BY <1>9 DEF Tick, loopVars
    <2>2. now < MaxTime + LastTime
      BY <2>1, LastTimeFacts, BoundsAssumption DEF SimInv, TimeInv
    <2>3. HasExited' = HasExited /\ HasLooked' = HasLooked /\ Held' = Held
      BY <2>1 DEF HasExited, HasLooked, Held, queueVars
    <2>4. UNCHANGED <<AsapTasks, LaterTasks>>
      BY <2>3 DEF AsapTasks, LaterTasks
    <2>5. Queue!Tick
      BY <2>1, <2>2, <2>3, <2>4 DEF Queue!Tick
    <2> QED
      BY <2>5 DEF Queue!Next
  <1>10. CASE UNCHANGED vars
    BY <1>1, <1>10 DEF vars, loopVars, HasExited, HasLooked
  <1> QED
    BY <1>2, ScanIsRun, <1>3, <1>11, <1>4, <1>5, <1>6, <1>7, <1>8, <1>9, <1>10 DEF Next, Loop, Stops

LEMMA InitIsQueueInit == Init => Queue!Init
  <1> SUFFICES ASSUME Init
               PROVE  Queue!Init
    OBVIOUS
  <1>1. messages = <<>> /\ delayed = {} /\ loop = "start"
    BY DEF Init
  <1>2. Held = {} /\ HasExited = FALSE /\ HasLooked = FALSE
    BY <1>1 DEF Held, HasExited, HasLooked
  <1>3. AsapTasks = {} /\ LaterTasks = {}
    BY <1>2 DEF AsapTasks, LaterTasks
  <1> QED
    BY <1>2, <1>3 DEF Init, Queue!Init, Queue!Idle, Idle

\* What a thread does is what its users count on: tasks one at a time and once, those at once in
\* the order of their posts, the delayed ones in their time and order, and an end only behind a
\* quit and a look that found nothing to run at once.  That what was posted does run in the end
\* is liveness, and checked.
THEOREM ThreadKeepsItsQueue == Spec => Queue!Spec
  <1>1. OwnInv /\ SimInv /\ [Next]_vars => OwnInv' /\ SimInv'
    BY NextOwn, NextSim
  <1> QED
    BY <1>1, InitOwn, InitSim, InitIsQueueInit, StepIsQueueStep, PTL DEF Spec, Queue!Spec

=================================================================================
