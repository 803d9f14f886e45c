------------------------------ MODULE PlayerProofs ------------------------------
(***************************************************************************)
(* The player's inductive invariant holds of every behaviour, for any      *)
(* streams, any bound of the queues and any number of calls; from it the   *)
(* safety properties of Player.  First what a task queue keeps when it is  *)
(* posted to and served, then one lemma per action, then the theorems.     *)
(***************************************************************************)
EXTENDS PlayerInv, SequenceTheorems, TLAPS

USE StreamsAssumption, QueueBoundAssumption, MaxCallsAssumption DEF SeekOps

-----------------------------------------------------------------------------
\* Thread::PostTask appends, or drops the task: what was queued stays where it was.
LEMMA PostProperties ==
  ASSUME NEW S, NEW q \in Seq(S), NEW t \in S, NEW thread
  PROVE  /\ Post(thread, q, t) \in Seq(S)
         /\ Len(Post(thread, q, t)) \in {Len(q), Len(q) + 1}
         /\ \A i \in 1 .. Len(q) : Post(thread, q, t)[i] = q[i]
         /\ \A i \in 1 .. Len(Post(thread, q, t)) \ 1 .. Len(q) : Post(thread, q, t)[i] = t
         /\ q # <<>> => Post(thread, q, t) # <<>> /\ Head(Post(thread, q, t)) = Head(q)
<1>1. CASE thread = "running"
  <2>1. Post(thread, q, t) = Append(q, t)
    BY <1>1 DEF Post
  <2>. QED
    BY <2>1, AppendProperties, LenProperties
<1>2. CASE thread # "running"
  <2>1. Post(thread, q, t) = q
    BY <1>2 DEF Post
  <2>. QED
    BY <2>1, LenProperties
<1>. QED
  BY <1>1, <1>2

\* The tasks that are posted are of the types of their queues.
LEMMA TaskTypes ==
  /\ \A op \in PlayerOps : Task(op) \in PlayerTasks
  /\ \A op \in {"InitDecoder", "Play", "Pause", "Seek", "UnInitDecoder"} : Task(op) \in DecoderTasks
  /\ \A op \in ReaderOps, n \in Nat : ReaderTask(op, n) \in ReaderTasks
  /\ \A s \in Streams : Process(s) \in DecoderTasks
  BY DEF Task, ReaderTask, Process, PlayerTasks, DecoderTasks, ReaderTasks, DecoderOps

\* q becomes r by losing its first k tasks and gaining tasks whose op is not in Calls.
Moves(q, r, k, Calls) ==
  \A i \in DOMAIN r :
    (i + k \in DOMAIN q /\ r[i] = q[i + k]) \/ r[i].op \notin Calls

\* A thread that finishes its task moves the others up by one.
LEMMA TailMoves ==
  ASSUME NEW S, NEW q \in Seq(S), q # <<>>, NEW Calls
  PROVE  Tail(q) \in Seq(S) /\ Moves(q, Tail(q), 1, Calls)
<1>1. /\ Tail(q) \in Seq(S) /\ Len(Tail(q)) = Len(q) - 1 /\ Len(q) \in Nat
      /\ \A i \in 1 .. Len(Tail(q)) : Tail(q)[i] = q[i + 1]
  BY HeadTailProperties, LenProperties
<1>2. DOMAIN Tail(q) = 1 .. Len(Tail(q)) /\ DOMAIN q = 1 .. Len(q)
  BY <1>1, LenProperties
<1>. QED
  BY <1>1, <1>2 DEF Moves

\* Posting a task that no call waits for keeps the calls in their places.
LEMMA PostMoves ==
  ASSUME NEW S, NEW q \in Seq(S), NEW r \in Seq(S), NEW k \in {0, 1}, NEW Calls,
         NEW t \in S, t.op \notin Calls, NEW thread, Moves(q, r, k, Calls)
  PROVE  Post(thread, r, t) \in Seq(S) /\ Moves(q, Post(thread, r, t), k, Calls)
<1>1. /\ Post(thread, r, t) \in Seq(S)
      /\ \A i \in 1 .. Len(r) : Post(thread, r, t)[i] = r[i]
      /\ \A i \in 1 .. Len(Post(thread, r, t)) \ 1 .. Len(r) : Post(thread, r, t)[i] = t
  BY PostProperties
<1>2. /\ DOMAIN r = 1 .. Len(r)
      /\ DOMAIN Post(thread, r, t) = 1 .. Len(Post(thread, r, t))
  BY <1>1, LenProperties
<1>. QED
  BY <1>1, <1>2 DEF Moves

\* A task that goes on as one no call waits for keeps the calls in their places.
LEMMA HeadMoves ==
  ASSUME NEW S, NEW q \in Seq(S), q # <<>>, NEW t \in S, NEW Calls, t.op \notin Calls
  PROVE  /\ [q EXCEPT ![1] = t] \in Seq(S)
         /\ Moves(q, [q EXCEPT ![1] = t], 0, Calls)
<1>1. Len(q) \in Nat /\ DOMAIN q = 1 .. Len(q) /\ 1 \in DOMAIN q
  BY EmptySeq, LenProperties
<1>2. [q EXCEPT ![1] = t] \in Seq(S)
  BY ExceptSeq, <1>1
<1>. QED
  BY <1>1, <1>2 DEF Moves

\* An untouched queue moves by nothing.
LEMMA SameMoves ==
  ASSUME NEW S, NEW q \in Seq(S), NEW Calls
  PROVE  Moves(q, q, 0, Calls)
  BY LenProperties DEF Moves

ReaderCallOps == {"InitReader", "FirstRead", "UnInitReader"}
DecoderCallOps == {"InitDecoder", "Seek", "UnInitDecoder"}

\* A queue that only moves keeps the one task the player waits for on the reader
\* thread.
LEMMA ReaderCallsKept ==
  ASSUME TypeOK, ReaderCalls, readerQ' \in Seq(ReaderTasks),
         NEW k \in {0, 1}, Moves(readerQ, readerQ', k, ReaderCallOps),
         \/ playerPc' = playerPc
         \/ k = 1 /\ readerQ # <<>> /\ Head(readerQ).op \in ReaderCallOps
  PROVE  ReaderCalls'
<1>1. DOMAIN readerQ = 1 .. Len(readerQ) /\ Len(readerQ) \in Nat
  BY LenProperties DEF TypeOK, ReaderTypes
<1>2. DOMAIN readerQ' = 1 .. Len(readerQ') /\ Len(readerQ') \in Nat
  BY LenProperties
<1>3. CASE playerPc' = playerPc
  BY <1>1, <1>2, <1>3 DEF Moves, ReaderCallOps, ReaderCalls, ReaderCall
<1>4. CASE k = 1 /\ readerQ # <<>> /\ Head(readerQ).op \in ReaderCallOps
  <2>1. Head(readerQ) = readerQ[1] /\ 1 \in DOMAIN readerQ
    BY <1>4, <1>1, EmptySeq DEF TypeOK, ReaderTypes
  <2>. QED
    BY <2>1, <1>1, <1>2, <1>4 DEF Moves, ReaderCallOps, ReaderCalls, ReaderCall
<1>. QED
  BY <1>3, <1>4

\* A queue that only moves keeps the one task the player waits for on the decoder
\* thread.
LEMMA DecoderCallsKept ==
  ASSUME TypeOK, DecoderCalls, decoderQ' \in Seq(DecoderTasks),
         NEW k \in {0, 1}, Moves(decoderQ, decoderQ', k, DecoderCallOps),
         \/ playerPc' = playerPc
         \/ k = 1 /\ decoderQ # <<>> /\ Head(decoderQ).op \in DecoderCallOps
  PROVE  DecoderCalls'
<1>1. DOMAIN decoderQ = 1 .. Len(decoderQ) /\ Len(decoderQ) \in Nat
  BY LenProperties DEF TypeOK, DecoderTypes
<1>2. DOMAIN decoderQ' = 1 .. Len(decoderQ') /\ Len(decoderQ') \in Nat
  BY LenProperties
<1>3. CASE playerPc' = playerPc
  BY <1>1, <1>2, <1>3 DEF Moves, DecoderCallOps, DecoderCalls, DecoderCall
<1>4. CASE k = 1 /\ decoderQ # <<>> /\ Head(decoderQ).op \in DecoderCallOps
  <2>1. Head(decoderQ) = decoderQ[1] /\ 1 \in DOMAIN decoderQ
    BY <1>4, <1>1, EmptySeq DEF TypeOK, DecoderTypes
  <2>. QED
    BY <2>1, <1>1, <1>2, <1>4 DEF Moves, DecoderCallOps, DecoderCalls, DecoderCall
<1>. QED
  BY <1>3, <1>4

\* The end of ReadPacket posts at most another ReadPacket.
LEMMA ReadPacketReturnsMoves ==
  ASSUME TypeOK, Reading, NEW again, ReadPacketReturns(again),
         NEW Calls, "ReadPacket" \notin Calls
  PROVE  /\ readerQ' \in Seq(ReaderTasks) /\ Moves(readerQ, readerQ', 1, Calls)
         /\ readerTimer' \in BOOLEAN
         /\ playerPc' = playerPc \/ Head(readerQ).op = "FirstRead"
<1>1. readerQ \in Seq(ReaderTasks) /\ readerQ # <<>>
  BY DEF TypeOK, ReaderTypes, Reading, Runs
<1>2. Tail(readerQ) \in Seq(ReaderTasks) /\ Moves(readerQ, Tail(readerQ), 1, Calls)
  BY <1>1, TailMoves
<1>3. ReaderTask("ReadPacket", 0) \in ReaderTasks /\ ReaderTask("ReadPacket", 0).op \notin Calls
  BY TaskTypes DEF ReaderOps, ReaderTask
<1>4. LET r == Post(readerThread, Tail(readerQ), ReaderTask("ReadPacket", 0))
      IN  r \in Seq(ReaderTasks) /\ Moves(readerQ, r, 1, Calls)
  BY <1>1, <1>2, <1>3, PostMoves
<1>5. readerTimer' \in BOOLEAN
  BY DEF ReadPacketReturns, TypeOK, ReaderTypes
<1>. QED
  BY <1>2, <1>4, <1>5 DEF ReadPacketReturns

\* The end of ProcessInternal posts at most the same loop again.
LEMMA ProcessReturnsMoves ==
  ASSUME TypeOK, NEW s \in Streams, Processes(s), NEW again, ProcessReturns(s, again)
  PROVE  /\ decoderQ' \in Seq(DecoderTasks)
         /\ Moves(decoderQ, decoderQ', 1, DecoderCallOps)
         /\ decoderTimer' \in SUBSET Streams
<1>1. decoderQ \in Seq(DecoderTasks) /\ decoderQ # <<>>
  BY DEF TypeOK, DecoderTypes, Processes, DecoderRuns, Runs
<1>2. /\ Tail(decoderQ) \in Seq(DecoderTasks)
      /\ Moves(decoderQ, Tail(decoderQ), 1, DecoderCallOps)
  BY <1>1, TailMoves
<1>3. Process(s) \in DecoderTasks /\ Process(s).op \notin DecoderCallOps
  BY TaskTypes DEF Process, DecoderCallOps
<1>4. LET r == Post(decoderThread, Tail(decoderQ), Process(s))
      IN  r \in Seq(DecoderTasks) /\ Moves(decoderQ, r, 1, DecoderCallOps)
  BY <1>1, <1>2, <1>3, PostMoves
<1>5. decoderTimer' \in SUBSET Streams
  BY DEF ProcessReturns, TypeOK, DecoderTypes
<1>. QED
  BY <1>2, <1>4, <1>5 DEF ProcessReturns

\* SetError reports behind what is queued.
LEMMA SetErrorProperties ==
  ASSUME NEW q \in Seq(PlayerTasks), SetError(q)
  PROVE  /\ state' = "kError"
         /\ playerQ' \in Seq(PlayerTasks)
         /\ q # <<>> => playerQ' # <<>> /\ Head(playerQ') = Head(q)
<1>1. Task("OnError") \in PlayerTasks
  BY TaskTypes DEF PlayerOps
<1>. QED
  BY <1>1, PostProperties DEF SetError

\* A queue that only moves holds no seek the player has not begun.
LEMMA SeeksKept ==
  ASSUME TypeOK, SerialsOrdered, UNCHANGED <<seekId, SeekBound>>,
         readerQ' \in Seq(ReaderTasks), NEW k \in {0, 1},
         Moves(readerQ, readerQ', k, SeekOps)
  PROVE  \A i \in DOMAIN readerQ' :
           readerQ'[i].op \in SeekOps => readerQ'[i].seek <= SeekBound'
  BY DEF Moves, SerialsOrdered

\* The head of the reader's queue while a call of the player is its task
LEMMA ReaderHead ==
  ASSUME TypeOK, NEW op, Runs(readerThread, readerQ, op)
  PROVE  1 \in DOMAIN readerQ /\ readerQ[1] = Head(readerQ) /\ readerQ[1].op = op
<1>1. readerQ \in Seq(ReaderTasks) /\ readerQ # <<>> /\ Head(readerQ).op = op
  BY DEF TypeOK, ReaderTypes, Runs
<1>. QED
  BY <1>1, LenProperties, EmptySeq

\* The head of the decoder's queue while a call of the player is its task
LEMMA DecoderHead ==
  ASSUME TypeOK, NEW op, Runs(decoderThread, decoderQ, op)
  PROVE  1 \in DOMAIN decoderQ /\ decoderQ[1] = Head(decoderQ) /\ decoderQ[1].op = op
<1>1. decoderQ \in Seq(DecoderTasks) /\ decoderQ # <<>> /\ Head(decoderQ).op = op
  BY DEF TypeOK, DecoderTypes, Runs
<1>. QED
  BY <1>1, LenProperties, EmptySeq

\* While a ReadPacket runs the player either goes on, or waits for this first one.
LEMMA FirstReadPc ==
  ASSUME TypeOK, ReaderCalls, Reading, NEW again, ReadPacketReturns(again)
  PROVE  \/ playerPc' = playerPc
         \/ playerPc = "initReader" /\ playerPc' = "initReaderDone"
<1>1. CASE Runs(readerThread, readerQ, "FirstRead")
  BY <1>1, ReaderHead DEF ReaderCalls, ReaderCall, ReadPacketReturns, InitAfterFirstRead
<1>2. CASE Runs(readerThread, readerQ, "ReadPacket")
  BY <1>2 DEF ReadPacketReturns, Runs
<1>. QED
  BY <1>1, <1>2 DEF Reading

\* The first packet of a queue and what is left without it
LEMMA HeadPacket ==
  ASSUME TypeOK, NEW s \in Streams, queue[s] # <<>>
  PROVE  /\ queue[s] \in Seq(Packets) /\ Tail(queue[s]) \in Seq(Packets)
         /\ 1 \in DOMAIN queue[s] /\ Head(queue[s]) = queue[s][1] /\ queue[s][1] \in Packets
         /\ Len(Tail(queue[s])) = Len(queue[s]) - 1 /\ Len(queue[s]) \in Nat
         /\ \A i \in DOMAIN Tail(queue[s]) :
              i + 1 \in DOMAIN queue[s] /\ Tail(queue[s])[i] = queue[s][i + 1]
<1>1. queue[s] \in Seq(Packets)
  BY DEF TypeOK, QueueTypes
<1>2. /\ Tail(queue[s]) \in Seq(Packets) /\ Len(Tail(queue[s])) = Len(queue[s]) - 1
      /\ \A i \in 1 .. Len(Tail(queue[s])) : Tail(queue[s])[i] = queue[s][i + 1]
      /\ Len(queue[s]) \in Nat \ {0}
  BY <1>1, HeadTailProperties, EmptySeq
<1>3. DOMAIN queue[s] = 1 .. Len(queue[s]) /\ DOMAIN Tail(queue[s]) = 1 .. Len(Tail(queue[s]))
  BY <1>1, <1>2, LenProperties
<1>4. queue[s][1] \in Packets
  BY <1>1, <1>2, <1>3, ElementOfSeq
<1>. QED
  BY <1>1, <1>2, <1>3, <1>4

\* What is queued is a packet.
LEMMA PacketsTyped ==
  ASSUME TypeOK
  PROVE  \A s \in Streams : \A i \in DOMAIN queue[s] : queue[s][i] \in Packets
  BY LenProperties, ElementOfSeq DEF TypeOK, QueueTypes

\* Taking the first packet of a queue keeps the order of the serials.
LEMMA PacketTaken ==
  ASSUME TypeOK, SerialsOrdered, QueueHasRoom, NEW s \in Streams, queue[s] # <<>>,
         queue' = [queue EXCEPT ![s] = Tail(@)],
         UNCHANGED <<isInit, serial, seekId, playerPc, readerQ, readerSerial, inflight>>
  PROVE  SerialsOrdered' /\ QueueHasRoom'
<1>1. queue \in [Streams -> Seq(Packets)]
  BY DEF TypeOK, QueueTypes
<1>2. ASSUME NEW t \in Streams
      PROVE  /\ Len(queue'[t]) <= Len(queue[t])
             /\ \A i \in DOMAIN queue'[t] : queue'[t][i].serial <= SeekBound
  <2>1. CASE t = s
    BY <2>1, <1>1, HeadPacket DEF SerialsOrdered
  <2>2. CASE t # s
    <3>1. queue'[t] = queue[t] /\ Len(queue[t]) \in Nat
      BY <2>2, <1>1, LenProperties
    <3>. QED
      BY <3>1 DEF SerialsOrdered
  <2>. QED
    BY <2>1, <2>2
<1>3. SerialsOrdered'
  BY <1>2 DEF SerialsOrdered, SeekBound
<1>4. ASSUME NEW t \in Streams
      PROVE  Len(queue'[t]) \in Nat /\ Len(queue[t]) \in Nat
  <2>1. queue'[t] \in Seq(Packets) /\ queue[t] \in Seq(Packets)
    BY <1>1, HeadPacket
  <2>. QED
    BY <2>1, LenProperties
<1>5. ASSUME NEW t \in Streams, Len(queue[t]) < QueueBound
      PROVE  Len(queue'[t]) < QueueBound
  <2>1. Len(queue'[t]) <= Len(queue[t])
    BY <1>2
  <2>2. QueueBound \in Nat
    OBVIOUS
  <2>. QED
    BY <1>4, <1>5, <2>1, <2>2
<1>6. QueueHasRoom'
  BY <1>5, Zenon DEF QueueHasRoom
<1>. QED
  BY <1>3, <1>6

\* A loop that asks for a packet has its reader, and no packet is ahead of it.
LEMMA AskingIsSafe ==
  ASSUME TypeOK, Running, fault = "none", NEW s \in Streams, AsksForPacket(s)
  PROVE  fault' = "none"
<1>1. /\ isInit[s] /\ reader # "none"
      /\ serial[s] \in Nat /\ SeekBound \in Int /\ SeekBound <= serial[s]
  BY DEF AsksForPacket, Running, LoopsAlive, SerialsOrdered, SeekBound, TypeOK,
     PlayerTypes, ReaderTypes, DecoderTypes
<1>2. ASSUME queue[s] # <<>>
      PROVE  ~(Head(queue[s]).serial > serial[s])
  <2>1. Head(queue[s]) \in Packets /\ Head(queue[s]).serial <= SeekBound
    BY <1>2, HeadPacket DEF Running, SerialsOrdered
  <2>. QED
    BY <2>1, <1>1 DEF Packets
<1>. QED
  BY <1>1, <1>2 DEF AsksForPacket
--------------------------------------------------------------------------------
(* One lemma per action: it keeps every part of the invariant.                *)

\* PlayerImpl::Init posts the first task a player gets.
LEMMA CallInitKept ==
  ASSUME TypeOK, Running, fault = "none", CallInit
  PROVE  IInv'
<1>1. ClientTypes'
  BY DEF CallInit, ClientTypes, TypeOK
<1>2. PlayerTypes'
  BY DEF CallInit, ClientPosts, Post, Task, readerVars, decoderVars, PlayerTypes,
     States, Threads, PlayerTasks, PlayerPcs, PlayerOps, TypeOK, PlayerHead, InitFirst,
     ReaderOps, DecoderOps, Running
<1>3. PlayerHead' /\ InitFirst'
  BY DEF CallInit, ClientPosts, Post, Task, PlayerHead, InitFirst, Running
<1>4. ReaderTypes' /\ DecoderTypes' /\ QueueTypes' /\ FaultTypes'
  BY DEF TypeOK, ReaderTypes, DecoderTypes, QueueTypes, FaultTypes, Reads, Packets,
     CallInit, ClientPosts, readerVars, decoderVars, queueVars, fileVars, threadVars,
     loopVars, renderVars
<1>5. ChecksHold' /\ NoDanglingAccess' /\ NullOnlyAfterInvalidConfig'
  BY DEF ChecksHold, NoDanglingAccess, NullOnlyAfterInvalidConfig, CallInit,
     ClientPosts, readerVars, decoderVars, queueVars, fileVars, threadVars, loopVars,
     renderVars
<1>6. /\ ReaderCalls' /\ DecoderCalls' /\ Starting' /\ ThreadsExist' /\ LoopsAlive'
      /\ SerialsOrdered' /\ QueueHasRoom'
  BY DEF Running, ReaderCalls, DecoderCalls, Starting, ThreadsExist, LoopsAlive,
     SerialsOrdered, QueueHasRoom, SeekBound, CallInit, ClientPosts, readerVars,
     decoderVars, queueVars, fileVars, threadVars, loopVars, renderVars
<1>. QED
  BY <1>1, <1>2, <1>3, <1>4, <1>5, <1>6 DEF IInv, TypeOK, Running

\* A call of the API posts its task behind the others.
LEMMA CallKept ==
  ASSUME TypeOK, Running, fault = "none",
     NEW op \in {"Init", "Play", "Pause", "Seek"}, Call(op)
  PROVE  IInv'
<1>1. ClientTypes'
  BY DEF Call, ClientTypes, TypeOK
<1>2. PlayerTypes'
  BY DEF Call, ClientPosts, Post, Task, readerVars, decoderVars, PlayerTypes, States,
     Threads, PlayerTasks, PlayerPcs, PlayerOps, TypeOK, PlayerHead, InitFirst,
     ReaderOps, DecoderOps, Running
<1>3. PlayerHead' /\ InitFirst'
  BY DEF Call, ClientPosts, Post, PlayerHead, InitFirst, Running
<1>4. ReaderTypes' /\ DecoderTypes' /\ QueueTypes' /\ FaultTypes'
  BY DEF TypeOK, ReaderTypes, DecoderTypes, QueueTypes, FaultTypes, Reads, Packets,
     Call, ClientPosts, readerVars, decoderVars, queueVars, fileVars, threadVars,
     loopVars, renderVars
<1>5. ChecksHold' /\ NoDanglingAccess' /\ NullOnlyAfterInvalidConfig'
  BY DEF ChecksHold, NoDanglingAccess, NullOnlyAfterInvalidConfig, Call, ClientPosts,
     readerVars, decoderVars, queueVars, fileVars, threadVars, loopVars, renderVars
<1>6. /\ ReaderCalls' /\ DecoderCalls' /\ Starting' /\ ThreadsExist' /\ LoopsAlive'
      /\ SerialsOrdered' /\ QueueHasRoom'
  BY DEF Running, ReaderCalls, DecoderCalls, Starting, ThreadsExist, LoopsAlive,
     SerialsOrdered, QueueHasRoom, SeekBound, Call, ClientPosts, readerVars,
     decoderVars, queueVars, fileVars, threadVars, loopVars, renderVars
<1>. QED
  BY <1>1, <1>2, <1>3, <1>4, <1>5, <1>6 DEF IInv, TypeOK, Running

\* PlayerImpl::UnInit posts the last task and waits for it.
LEMMA CallUnInitKept ==
  ASSUME TypeOK, Running, fault = "none", CallUnInit
  PROVE  IInv'
<1>1. ClientTypes'
  BY DEF CallUnInit, ClientTypes, TypeOK
<1>2. PlayerTypes'
  BY DEF CallUnInit, ClientPosts, Post, Task, readerVars, decoderVars, PlayerTypes,
     States, Threads, PlayerTasks, PlayerPcs, PlayerOps, TypeOK, PlayerHead, InitFirst,
     ReaderOps, DecoderOps, Running
<1>3. PlayerHead' /\ InitFirst'
  BY DEF CallUnInit, ClientPosts, Post, PlayerHead, InitFirst, Running
<1>4. ReaderTypes' /\ DecoderTypes' /\ QueueTypes' /\ FaultTypes'
  BY DEF TypeOK, ReaderTypes, DecoderTypes, QueueTypes, FaultTypes, Reads, Packets,
     CallUnInit, ClientPosts, readerVars, decoderVars, queueVars, fileVars, threadVars,
     loopVars, renderVars
<1>5. ChecksHold' /\ NoDanglingAccess' /\ NullOnlyAfterInvalidConfig'
  BY DEF ChecksHold, NoDanglingAccess, NullOnlyAfterInvalidConfig, CallUnInit,
     ClientPosts, readerVars, decoderVars, queueVars, fileVars, threadVars, loopVars,
     renderVars
<1>6. /\ ReaderCalls' /\ DecoderCalls' /\ Starting' /\ ThreadsExist' /\ LoopsAlive'
      /\ SerialsOrdered' /\ QueueHasRoom'
  BY DEF Running, ReaderCalls, DecoderCalls, Starting, ThreadsExist, LoopsAlive,
     SerialsOrdered, QueueHasRoom, SeekBound, CallUnInit, ClientPosts, readerVars,
     decoderVars, queueVars, fileVars, threadVars, loopVars, renderVars
<1>. QED
  BY <1>1, <1>2, <1>3, <1>4, <1>5, <1>6 DEF IInv, TypeOK, Running

\* Thread::Stop tells the player thread to quit.
LEMMA StopPlayerKept ==
  ASSUME TypeOK, Running, fault = "none", StopPlayer
  PROVE  IInv'
<1>1. ClientTypes'
  BY DEF StopPlayer, ClientTypes, TypeOK
<1>2. PlayerTypes'
  BY DEF StopPlayer, PlayerTypes, Threads, TypeOK
<1>3. InitFirst'
  BY DEF StopPlayer, InitFirst, Running
<1>4. ReaderTypes' /\ DecoderTypes' /\ QueueTypes' /\ FaultTypes'
  BY DEF TypeOK, ReaderTypes, DecoderTypes, QueueTypes, FaultTypes, Reads, Packets,
     StopPlayer, readerVars, decoderVars, queueVars, fileVars, threadVars, loopVars,
     renderVars
<1>5. ChecksHold' /\ NoDanglingAccess' /\ NullOnlyAfterInvalidConfig'
  BY DEF ChecksHold, NoDanglingAccess, NullOnlyAfterInvalidConfig, StopPlayer,
     readerVars, decoderVars, queueVars, fileVars, threadVars, loopVars, renderVars
<1>6. /\ PlayerHead' /\ ReaderCalls' /\ DecoderCalls' /\ Starting' /\ ThreadsExist'
      /\ LoopsAlive' /\ SerialsOrdered' /\ QueueHasRoom'
  BY DEF Running, PlayerHead, ReaderCalls, DecoderCalls, Starting, ThreadsExist,
     LoopsAlive, SerialsOrdered, QueueHasRoom, SeekBound, StopPlayer, readerVars,
     decoderVars, queueVars, fileVars, threadVars, loopVars, renderVars
<1>. QED
  BY <1>1, <1>2, <1>3, <1>4, <1>5, <1>6 DEF IInv, TypeOK, Running

\* The client returns from UnInit once the player thread is gone.
LEMMA JoinPlayerKept ==
  ASSUME TypeOK, Running, fault = "none", JoinPlayer
  PROVE  IInv'
<1>1. ClientTypes'
  BY DEF JoinPlayer, ClientTypes, TypeOK
<1>2. InitFirst'
  BY DEF JoinPlayer, playerVars, InitFirst, Running
<1>3. PlayerTypes' /\ ReaderTypes' /\ DecoderTypes' /\ QueueTypes' /\ FaultTypes'
  BY DEF TypeOK, PlayerTypes, ReaderTypes, DecoderTypes, QueueTypes, FaultTypes, Reads,
     Packets, JoinPlayer, playerVars, readerVars, decoderVars, queueVars, fileVars,
     threadVars, loopVars, renderVars
<1>4. ChecksHold' /\ NoDanglingAccess' /\ NullOnlyAfterInvalidConfig'
  BY DEF ChecksHold, NoDanglingAccess, NullOnlyAfterInvalidConfig, JoinPlayer,
     playerVars, readerVars, decoderVars, queueVars, fileVars, threadVars, loopVars,
     renderVars
<1>5. /\ PlayerHead' /\ ReaderCalls' /\ DecoderCalls' /\ Starting' /\ ThreadsExist'
      /\ LoopsAlive' /\ SerialsOrdered' /\ QueueHasRoom'
  BY DEF Running, PlayerHead, ReaderCalls, DecoderCalls, Starting, ThreadsExist,
     LoopsAlive, SerialsOrdered, QueueHasRoom, SeekBound, JoinPlayer, playerVars,
     readerVars, decoderVars, queueVars, fileVars, threadVars, loopVars, renderVars
<1>. QED
  BY <1>1, <1>2, <1>3, <1>4, <1>5 DEF IInv, TypeOK, Running

\* InitInternal on a player past kIdle returns at once.
LEMMA InitIgnoredKept ==
  ASSUME TypeOK, Running, fault = "none", InitIgnored
  PROVE  IInv'
<1>1. PlayerTypes'
  BY DEF InitIgnored, PlayerRuns, PlayerReturns, clientVars, queueVars, Runs,
     PlayerTypes, TypeOK
<1>2. PlayerHead' /\ InitFirst'
  BY DEF InitIgnored, PlayerReturns, clientVars, PlayerHead, InitFirst, Running
<1>3. ReaderCalls' /\ DecoderCalls'
  BY DEF InitIgnored, PlayerRuns, PlayerReturns, clientVars, readerVars, decoderVars,
     threadVars, ReaderCalls, DecoderCalls, DecoderCall, Running
<1>4. Starting' /\ ThreadsExist' /\ LoopsAlive'
  BY DEF InitIgnored, PlayerRuns, PlayerReturns, clientVars, readerVars, decoderVars,
     fileVars, threadVars, loopVars, renderVars, Starting, ThreadsExist, LoopsAlive,
     Running
<1>5. SerialsOrdered'
  BY DEF InitIgnored, PlayerRuns, PlayerReturns, clientVars, readerVars, decoderVars,
     queueVars, fileVars, loopVars, SerialsOrdered, SeekBound, Running
<1>6. ClientTypes' /\ ReaderTypes' /\ DecoderTypes' /\ QueueTypes' /\ FaultTypes'
  BY DEF TypeOK, ClientTypes, ReaderTypes, DecoderTypes, QueueTypes, FaultTypes, Reads,
     Packets, InitIgnored, clientVars, readerVars, decoderVars, queueVars, fileVars,
     threadVars, loopVars, renderVars
<1>7. ChecksHold' /\ NoDanglingAccess' /\ NullOnlyAfterInvalidConfig'
  BY DEF ChecksHold, NoDanglingAccess, NullOnlyAfterInvalidConfig, InitIgnored,
     clientVars, readerVars, decoderVars, queueVars, fileVars, threadVars, loopVars,
     renderVars
<1>8. QueueHasRoom'
  BY DEF Running, QueueHasRoom, InitIgnored, clientVars, readerVars, decoderVars,
     queueVars, fileVars, threadVars, loopVars, renderVars
<1>. QED
  BY <1>1, <1>2, <1>3, <1>4, <1>5, <1>6, <1>7, <1>8 DEF IInv, TypeOK, Running

\* InitInternal reports a refused config; no thread is created.
LEMMA InitInvalidKept ==
  ASSUME TypeOK, Running, fault = "none", InitInvalid
  PROVE  IInv'
<1>1. PlayerTypes'
  BY DEF InitInvalid, PlayerRuns, SetError, clientVars, queueVars, Runs, Post, Task,
     PlayerTypes, States, Threads, PlayerTasks, PlayerPcs, PlayerOps, TypeOK
<1>2. NullOnlyAfterInvalidConfig'
  BY DEF InitInvalid, NullOnlyAfterInvalidConfig
<1>3. PlayerHead' /\ InitFirst'
  BY DEF InitInvalid, PlayerRuns, SetError, clientVars, Runs, PlayerHead, InitFirst,
     Running
<1>4. Starting' /\ ThreadsExist'
  BY DEF InitInvalid, PlayerRuns, SetError, readerVars, decoderVars, fileVars,
     threadVars, Starting, ThreadsExist, Running
<1>5. ClientTypes' /\ ReaderTypes' /\ DecoderTypes' /\ QueueTypes' /\ FaultTypes'
  BY DEF TypeOK, ClientTypes, ReaderTypes, DecoderTypes, QueueTypes, FaultTypes, Reads,
     Packets, InitInvalid, clientVars, readerVars, decoderVars, queueVars, fileVars,
     threadVars, loopVars, renderVars
<1>6. ChecksHold' /\ NoDanglingAccess'
  BY DEF ChecksHold, NoDanglingAccess, InitInvalid, clientVars, readerVars, decoderVars,
     queueVars, fileVars, threadVars, loopVars, renderVars
<1>7. ReaderCalls' /\ DecoderCalls' /\ LoopsAlive' /\ SerialsOrdered' /\ QueueHasRoom'
  BY DEF Running, ReaderCalls, DecoderCalls, LoopsAlive, SerialsOrdered, QueueHasRoom,
     SeekBound, InitInvalid, clientVars, readerVars, decoderVars, queueVars, fileVars,
     threadVars, loopVars, renderVars
<1>. QED
  BY <1>1, <1>2, <1>3, <1>4, <1>5, <1>6, <1>7 DEF IInv, TypeOK, Running

\* InitInternal creates the reader thread and waits for its first task.
LEMMA InitReaderIfNeedKept ==
  ASSUME TypeOK, Running, fault = "none", InitReaderIfNeed
  PROVE  IInv'
<1>1. PlayerTypes'
  BY DEF InitReaderIfNeed, PlayerTypes, PlayerPcs, TypeOK
<1>2. ReaderTypes'
  BY DEF InitReaderIfNeed, PlayerRuns, ReaderTask, clientVars, fileVars, ReaderTypes,
     Threads, ReaderTasks, ReaderOps, TypeOK
<1>3. PlayerHead' /\ InitFirst'
  BY DEF InitReaderIfNeed, PlayerRuns, clientVars, Runs, PlayerHead, InitFirst, PcOp,
     Running
<1>4. ReaderCalls' /\ DecoderCalls'
  BY DEF InitReaderIfNeed, PlayerRuns, ReaderTask, decoderVars, threadVars, ReaderCalls,
     DecoderCalls, DecoderCall, Running
<1>5. Starting' /\ ThreadsExist' /\ LoopsAlive'
  BY DEF InitReaderIfNeed, PlayerRuns, decoderVars, loopVars, Starting, ThreadsExist,
     LoopsAlive, PcOp, Running
<1>6. SerialsOrdered'
  BY DEF InitReaderIfNeed, PlayerRuns, ReaderTask, fileVars, decoderVars, queueVars,
     loopVars, SerialsOrdered, SeekBound, Running
<1>7. ClientTypes' /\ DecoderTypes' /\ QueueTypes' /\ FaultTypes'
  BY DEF TypeOK, ClientTypes, DecoderTypes, QueueTypes, FaultTypes, Packets,
     InitReaderIfNeed, clientVars, fileVars, decoderVars, queueVars, threadVars,
     loopVars, renderVars
<1>8. ChecksHold' /\ NoDanglingAccess' /\ NullOnlyAfterInvalidConfig'
  BY DEF ChecksHold, NoDanglingAccess, NullOnlyAfterInvalidConfig, InitReaderIfNeed,
     clientVars, fileVars, decoderVars, queueVars, threadVars, loopVars, renderVars
<1>9. QueueHasRoom'
  BY DEF Running, QueueHasRoom, InitReaderIfNeed, clientVars, fileVars, decoderVars,
     queueVars, threadVars, loopVars, renderVars
<1>. QED
  BY <1>1, <1>2, <1>3, <1>4, <1>5, <1>6, <1>7, <1>8, <1>9 DEF IInv, TypeOK, Running

\* InitInternal creates the decoder thread, also after a failed open.
LEMMA StartDecoderKept ==
  ASSUME TypeOK, Running, fault = "none", StartDecoder
  PROVE  IInv'
<1>1. PlayerTypes'
  BY DEF StartDecoder, PlayerTypes, PlayerPcs, TypeOK
<1>2. DecoderTypes'
  BY DEF StartDecoder, Task, clientVars, readerVars, loopVars, renderVars, DecoderTypes,
     Threads, DecoderTasks, DecoderOps, TypeOK
<1>3. PlayerHead' /\ InitFirst'
  BY DEF StartDecoder, clientVars, PlayerHead, InitFirst, PcOp, Running
<1>4. ReaderCalls' /\ DecoderCalls'
  BY DEF StartDecoder, Task, readerVars, ReaderCalls, DecoderCalls, Running
<1>5. Starting' /\ ThreadsExist' /\ LoopsAlive'
  BY DEF StartDecoder, loopVars, Starting, ThreadsExist, LoopsAlive, PcOp, Running
<1>6. SerialsOrdered'
  BY DEF StartDecoder, readerVars, loopVars, queueVars, fileVars, SerialsOrdered,
     SeekBound, Running
<1>7. ClientTypes' /\ ReaderTypes' /\ QueueTypes' /\ FaultTypes'
  BY DEF TypeOK, ClientTypes, ReaderTypes, QueueTypes, FaultTypes, Reads, Packets,
     StartDecoder, clientVars, readerVars, loopVars, renderVars, queueVars, fileVars
<1>8. ChecksHold' /\ NoDanglingAccess' /\ NullOnlyAfterInvalidConfig'
  BY DEF ChecksHold, NoDanglingAccess, NullOnlyAfterInvalidConfig, StartDecoder,
     clientVars, readerVars, loopVars, renderVars, queueVars, fileVars
<1>9. QueueHasRoom'
  BY DEF Running, QueueHasRoom, StartDecoder, clientVars, readerVars, loopVars,
     renderVars, queueVars, fileVars
<1>. QED
  BY <1>1, <1>2, <1>3, <1>4, <1>5, <1>6, <1>7, <1>8, <1>9 DEF IInv, TypeOK, Running

\* InitInternal ends in kPrepared, or in the error that was faster.
LEMMA PreparedKept ==
  ASSUME TypeOK, Running, fault = "none", Prepared
  PROVE  IInv'
<1>1. PlayerTypes'
  BY DEF Prepared, SetState, PlayerReturns, clientVars, PlayerTypes, States, Threads,
     PlayerTasks, PlayerPcs, PlayerOps, TypeOK, PlayerHead, DecoderOps, Running
<1>2. NullOnlyAfterInvalidConfig'
  BY DEF Prepared, NullOnlyAfterInvalidConfig
<1>3. PlayerHead' /\ InitFirst'
  BY DEF Prepared, SetState, PlayerReturns, clientVars, CheckState, PlayerHead,
     InitFirst, Running
<1>4. ReaderCalls' /\ DecoderCalls'
  BY DEF Prepared, clientVars, readerVars, decoderVars, threadVars, ReaderCalls,
     DecoderCalls, DecoderCall, Running
<1>5. Starting' /\ ThreadsExist' /\ LoopsAlive'
  BY DEF Prepared, SetState, PlayerReturns, clientVars, readerVars, decoderVars,
     CheckState, fileVars, threadVars, loopVars, renderVars, Starting, ThreadsExist,
     LoopsAlive, Running
<1>6. SerialsOrdered'
  BY DEF Prepared, SetState, PlayerReturns, readerVars, decoderVars, queueVars,
     fileVars, loopVars, SerialsOrdered, SeekBound, Running
<1>7. ClientTypes' /\ ReaderTypes' /\ DecoderTypes' /\ QueueTypes' /\ FaultTypes'
  BY DEF TypeOK, ClientTypes, ReaderTypes, DecoderTypes, QueueTypes, FaultTypes, Reads,
     Packets, Prepared, clientVars, readerVars, decoderVars, queueVars, fileVars,
     threadVars, loopVars, renderVars
<1>8. ChecksHold' /\ NoDanglingAccess'
  BY DEF ChecksHold, NoDanglingAccess, Prepared, clientVars, readerVars, decoderVars,
     queueVars, fileVars, threadVars, loopVars, renderVars
<1>9. QueueHasRoom'
  BY DEF Running, QueueHasRoom, Prepared, clientVars, readerVars, decoderVars,
     queueVars, fileVars, threadVars, loopVars, renderVars
<1>. QED
  BY <1>1, <1>2, <1>3, <1>4, <1>5, <1>6, <1>7, <1>8, <1>9 DEF IInv, TypeOK, Running

\* PlayInternal goes on only where the decoder thread exists.
LEMMA PlayInternalKept ==
  ASSUME TypeOK, Running, fault = "none", PlayInternal
  PROVE  IInv'
<1>1. PlayerTypes'
  BY DEF PlayInternal, PlayerRuns, PlayerReturns, Runs, PlayerTypes, PlayerPcs, TypeOK
<1>2. PlayerHead' /\ InitFirst'
  BY DEF PlayInternal, PlayerRuns, PlayerReturns, clientVars, Runs, PlayerHead, InitFirst,
     PcOp, Running
<1>3. ReaderCalls' /\ DecoderCalls'
  BY DEF PlayInternal, PlayerRuns, PlayerReturns, readerVars, decoderVars, threadVars,
     ReaderCalls, DecoderCalls, DecoderCall, ReaderCall, Running
<1>4. Starting' /\ ThreadsExist' /\ LoopsAlive'
  BY DEF PlayInternal, PlayerRuns, PlayerReturns, readerVars, decoderVars, fileVars,
     threadVars, loopVars, renderVars, Starting, ThreadsExist, LoopsAlive, PcOp, Running
<1>5. SerialsOrdered'
  BY DEF PlayInternal, PlayerRuns, PlayerReturns, readerVars, decoderVars, queueVars,
     fileVars, loopVars, SerialsOrdered, SeekBound, Running
<1>6. ClientTypes' /\ ReaderTypes' /\ DecoderTypes' /\ QueueTypes' /\ FaultTypes'
  BY DEF TypeOK, ClientTypes, ReaderTypes, DecoderTypes, QueueTypes, FaultTypes, Reads,
     Packets, PlayInternal, clientVars, readerVars, decoderVars, queueVars, fileVars,
     threadVars, loopVars, renderVars
<1>7. ChecksHold' /\ NoDanglingAccess' /\ NullOnlyAfterInvalidConfig'
  BY DEF ChecksHold, NoDanglingAccess, NullOnlyAfterInvalidConfig, PlayInternal
<1>8. QueueHasRoom'
  BY DEF Running, QueueHasRoom, PlayInternal, readerVars, queueVars
<1>. QED
  BY <1>1, <1>2, <1>3, <1>4, <1>5, <1>6, <1>7, <1>8 DEF IInv, TypeOK, Running

\* PlayInternal posts Play while the state is as it was.
LEMMA PostPlayKept ==
  ASSUME TypeOK, Running, fault = "none", PostPlay
  PROVE  IInv'
<1>1. PlayerTypes'
  BY DEF PostPlay, PlayerTypes, PlayerPcs, TypeOK
<1>2. Task("Play") \in DecoderTasks /\ Task("Play").op \notin DecoderCallOps
  BY TaskTypes DEF Task, DecoderCallOps
<1>3. decoderQ' \in Seq(DecoderTasks)
  BY <1>2, PostProperties DEF TypeOK, DecoderTypes, PostPlay
<1>4. DecoderTypes'
  BY <1>3 DEF TypeOK, DecoderTypes, PostPlay, loopVars, renderVars
<1>5. PlayerHead' /\ InitFirst'
  BY DEF PostPlay, clientVars, PlayerHead, InitFirst, PcOp, Running
<1>6. ReaderCalls' /\ DecoderCalls'
  BY DEF PostPlay, Post, Task, readerVars, ReaderCalls, DecoderCalls, ReaderCall,
     DecoderCall, Running
<1>7. Starting' /\ ThreadsExist' /\ LoopsAlive'
  BY DEF PostPlay, readerVars, fileVars, loopVars, renderVars, Starting, ThreadsExist,
     LoopsAlive, PcOp, Running
<1>8. SerialsOrdered'
  BY DEF PostPlay, readerVars, fileVars, loopVars, queueVars, SerialsOrdered, SeekBound,
     Running
<1>9. ClientTypes' /\ ReaderTypes' /\ QueueTypes' /\ FaultTypes'
  BY DEF TypeOK, ClientTypes, ReaderTypes, QueueTypes, FaultTypes, Reads, Packets,
     PostPlay, clientVars, readerVars, queueVars, fileVars
<1>10. ChecksHold' /\ NoDanglingAccess' /\ NullOnlyAfterInvalidConfig'
  BY DEF ChecksHold, NoDanglingAccess, NullOnlyAfterInvalidConfig, PostPlay
<1>11. QueueHasRoom'
  BY DEF Running, QueueHasRoom, PostPlay, readerVars, queueVars
<1>. QED
  BY <1>1, <1>4, <1>5, <1>6, <1>7, <1>8, <1>9, <1>10, <1>11 DEF IInv, TypeOK, Running

\* PlayInternal sets the state, or leaves the kError that came between.
LEMMA SetPlayingKept ==
  ASSUME TypeOK, Running, fault = "none", SetPlaying
  PROVE  IInv'
<1>1. PlayerTypes'
  BY DEF SetPlaying, PlayerReturns, SetState, PlayerTypes, PlayerPcs, States, TypeOK,
     PlayerHead, Running
<1>2. NullOnlyAfterInvalidConfig' /\ ChecksHold' /\ NoDanglingAccess'
  BY DEF SetPlaying, NullOnlyAfterInvalidConfig, ChecksHold, NoDanglingAccess
<1>3. Head(playerQ).op = "Play"
  BY DEF SetPlaying, PlayerHead, PcOp, Running
<1>4. PlayerHead' /\ InitFirst'
  BY <1>3 DEF SetPlaying, PlayerReturns, SetState, clientVars, PlayerHead, InitFirst, Running
<1>5. ReaderCalls' /\ DecoderCalls'
  BY DEF SetPlaying, PlayerReturns, readerVars, decoderVars, threadVars, ReaderCalls,
     DecoderCalls, DecoderCall, ReaderCall, Running
<1>6. Starting' /\ ThreadsExist' /\ LoopsAlive'
  BY <1>3 DEF SetPlaying, PlayerReturns, SetState, clientVars, readerVars, decoderVars, fileVars,
     threadVars, loopVars, renderVars, Starting, ThreadsExist, LoopsAlive, InitFirst, Running
<1>7. SerialsOrdered'
  BY DEF SetPlaying, PlayerReturns, readerVars, decoderVars, queueVars, fileVars, loopVars,
     SerialsOrdered, SeekBound, Running
<1>8. ClientTypes' /\ ReaderTypes' /\ DecoderTypes' /\ QueueTypes' /\ FaultTypes'
  BY DEF TypeOK, ClientTypes, ReaderTypes, DecoderTypes, QueueTypes, FaultTypes, Reads,
     Packets, SetPlaying, clientVars, readerVars, decoderVars, queueVars, fileVars,
     threadVars, loopVars, renderVars
<1>9. QueueHasRoom'
  BY DEF Running, QueueHasRoom, SetPlaying, readerVars, queueVars
<1>. QED
  BY <1>1, <1>2, <1>4, <1>5, <1>6, <1>7, <1>8, <1>9 DEF IInv, TypeOK, Running

\* PauseInternal sets the state, or leaves it.
LEMMA PauseInternalKept ==
  ASSUME TypeOK, Running, fault = "none", PauseInternal
  PROVE  IInv'
<1>1. PlayerTypes'
  BY DEF PauseInternal, SetState, PlayerTypes, PlayerPcs, States, TypeOK
<1>2. state # "kIdle" /\ (state \in {"kError", "kEnded"} => state' = state) /\ state' # "kIdle"
  BY DEF PauseInternal, PlayerRuns, Runs, SetState, CheckState, Running, InitFirst
<1>3. ChecksHold' /\ NoDanglingAccess' /\ NullOnlyAfterInvalidConfig'
  BY DEF PauseInternal, ChecksHold, NoDanglingAccess, NullOnlyAfterInvalidConfig
<1>4. PlayerHead' /\ InitFirst'
  BY <1>2 DEF PauseInternal, PlayerRuns, clientVars, Runs, PlayerHead, InitFirst, PcOp,
     Running
<1>5. ReaderCalls' /\ DecoderCalls'
  BY DEF PauseInternal, PlayerRuns, readerVars, decoderVars, threadVars, ReaderCalls,
     DecoderCalls, DecoderCall, ReaderCall, Running
<1>6. Starting' /\ ThreadsExist' /\ LoopsAlive'
  BY <1>2 DEF PauseInternal, PlayerRuns, readerVars, decoderVars, fileVars, threadVars,
     loopVars, renderVars, Starting, ThreadsExist, LoopsAlive, PcOp, Running
<1>7. SerialsOrdered'
  BY DEF PauseInternal, PlayerRuns, readerVars, decoderVars, queueVars, fileVars, loopVars,
     SerialsOrdered, SeekBound, Running
<1>8. ClientTypes' /\ ReaderTypes' /\ DecoderTypes' /\ QueueTypes' /\ FaultTypes'
  BY DEF TypeOK, ClientTypes, ReaderTypes, DecoderTypes, QueueTypes, FaultTypes, Reads,
     Packets, PauseInternal, clientVars, readerVars, decoderVars, queueVars, fileVars,
     threadVars, loopVars, renderVars
<1>9. QueueHasRoom'
  BY DEF Running, QueueHasRoom, PauseInternal, readerVars, queueVars
<1>. QED
  BY <1>1, <1>3, <1>4, <1>5, <1>6, <1>7, <1>8, <1>9 DEF IInv, TypeOK, Running

\* PauseInternal posts Pause: past a valid Init through an existing thread.
LEMMA PostPauseKept ==
  ASSUME TypeOK, Running, fault = "none", PostPause
  PROVE  IInv'
<1>1. PlayerTypes'
  BY DEF PostPause, PlayerReturns, PlayerTypes, PlayerPcs, TypeOK, PlayerHead, Running
<1>2. DecoderTypes'
  <2>1. Task("Pause") \in DecoderTasks
    BY TaskTypes
  <2>2. decoderQ' \in Seq(DecoderTasks)
    BY <2>1, PostProperties DEF TypeOK, DecoderTypes, PostPause
  <2>. QED
    BY <2>2 DEF TypeOK, DecoderTypes, PostPause, loopVars, renderVars
<1>3. ChecksHold' /\ NoDanglingAccess' /\ NullOnlyAfterInvalidConfig'
  <2>1. fault' = IF decoderThread = "null" THEN "null" ELSE "none"
    BY DEF PostPause, NullCheck
  <2>2. decoderThread = "null" => reader = "none" /\ state \in {"kError", "kEnded", "kIdle"}
    BY DEF Running, ThreadsExist, PostPause
  <2>3. state # "kIdle"
    BY DEF PostPause, Running, InitFirst, PlayerHead, PcOp
  <2>. QED
    BY <2>1, <2>2, <2>3 DEF PostPause, readerVars, fileVars, ChecksHold, NoDanglingAccess,
       NullOnlyAfterInvalidConfig
<1>4. state # "kIdle"
  BY DEF PostPause, Running, InitFirst, PlayerHead, PcOp
<1>5. ASSUME fault' = "none" PROVE PlayerHead' /\ InitFirst'
  BY <1>4, <1>5 DEF PostPause, PlayerReturns, clientVars, PlayerHead, InitFirst, Running
<1>6. ASSUME fault' = "none" PROVE ReaderCalls' /\ DecoderCalls'
  BY <1>6 DEF PostPause, PlayerReturns, Post, Task, readerVars, ReaderCalls, DecoderCalls,
     ReaderCall, DecoderCall, Running
<1>7. ASSUME fault' = "none" PROVE Starting' /\ ThreadsExist' /\ LoopsAlive'
  BY <1>4, <1>7 DEF PostPause, PlayerReturns, NullCheck, readerVars, loopVars, renderVars,
     fileVars, Starting, ThreadsExist, LoopsAlive, Running
<1>8. ASSUME fault' = "none" PROVE SerialsOrdered'
  BY <1>8 DEF PostPause, PlayerReturns, readerVars, loopVars, queueVars, fileVars,
     SerialsOrdered, SeekBound, Running
<1>9. FaultTypes'
  BY DEF FaultTypes, PostPause, NullCheck
<1>10. ClientTypes' /\ ReaderTypes' /\ QueueTypes'
  BY DEF TypeOK, ClientTypes, ReaderTypes, QueueTypes, Reads, Packets, PostPause,
     clientVars, readerVars, loopVars, renderVars, queueVars, fileVars
<1>11. QueueHasRoom'
  BY DEF Running, QueueHasRoom, PostPause, readerVars, queueVars
<1>. QED
  BY <1>1, <1>2, <1>3, <1>5, <1>6, <1>7, <1>8, <1>9, <1>10, <1>11 DEF IInv, TypeOK, Running

\* SeekInternal takes the next serial: the loops are one behind until they are told.
LEMMA SeekInternalKept ==
  ASSUME TypeOK, Running, fault = "none", SeekInternal
  PROVE  IInv'
<1>1. PlayerTypes'
  BY DEF SeekInternal, PlayerTypes, PlayerPcs, TypeOK
<1>2. DecoderTypes'
  <2>1. Task("Seek") \in DecoderTasks
    BY TaskTypes
  <2>2. decoderQ' \in Seq(DecoderTasks)
    BY <2>1, PostProperties DEF TypeOK, DecoderTypes, SeekInternal
  <2>. QED
    BY <2>2 DEF TypeOK, DecoderTypes, SeekInternal, loopVars, renderVars
<1>3. ChecksHold' /\ NoDanglingAccess' /\ NullOnlyAfterInvalidConfig'
  BY DEF SeekInternal, PlayerRuns, NullCheck, Post, Task, clientVars, readerVars,
     loopVars, renderVars, queueVars, Runs, fileVars, ChecksHold, NoDanglingAccess,
     NullOnlyAfterInvalidConfig, TypeOK, PlayerHead, InitFirst, Starting, ThreadsExist,
     DecoderOps, Running
<1>4. ASSUME fault' = "none" PROVE PlayerHead' /\ InitFirst'
  BY <1>4 DEF SeekInternal, PlayerRuns, clientVars, Runs, PlayerHead, InitFirst, PcOp,
     Running
<1>5. ASSUME fault' = "none" PROVE ReaderCalls' /\ DecoderCalls'
  BY <1>5 DEF SeekInternal, PlayerRuns, Post, Task, readerVars, ReaderCalls,
     DecoderCalls, DecoderCall, Running
<1>6. ASSUME fault' = "none" PROVE Starting' /\ ThreadsExist' /\ LoopsAlive'
  BY <1>6 DEF SeekInternal, PlayerRuns, NullCheck, readerVars, loopVars, renderVars,
     fileVars, Starting, ThreadsExist, LoopsAlive, PcOp, Running
<1>7. ASSUME fault' = "none" PROVE SerialsOrdered'
  <2>1. seekId \in Nat /\ seekId' = seekId + 1 /\ playerPc = "ready" /\ playerPc' = "seek"
    BY DEF SeekInternal, PlayerRuns, TypeOK, PlayerTypes
  <2>2. SeekBound = seekId /\ SeekBound' = seekId
    BY <2>1 DEF SeekBound
  <2>3. UNCHANGED <<isInit, serial, readerQ, readerSerial, inflight, queue>>
    BY DEF SeekInternal, readerVars, fileVars, loopVars, queueVars
  <2>4. /\ (IF playerPc = "seek" THEN seekId - 1 ELSE seekId) = seekId
        /\ (IF playerPc' = "seek" THEN seekId' - 1 ELSE seekId') = seekId
    BY <2>1
  <2>5. (\A s \in Streams :
           isInit[s] => serial[s] = IF playerPc = "seek" THEN seekId - 1 ELSE seekId)'
    BY <2>3, <2>4, Zenon DEF Running, SerialsOrdered
  <2>. QED
    BY <2>2, <2>3, <2>5, Zenon DEF Running, SerialsOrdered
<1>8. FaultTypes'
  BY DEF FaultTypes, SeekInternal, NullCheck
<1>9. ClientTypes' /\ ReaderTypes' /\ QueueTypes'
  BY DEF TypeOK, ClientTypes, ReaderTypes, QueueTypes, Reads, Packets, SeekInternal,
     clientVars, readerVars, loopVars, renderVars, queueVars, fileVars
<1>10. QueueHasRoom'
  BY DEF Running, QueueHasRoom, SeekInternal, clientVars, readerVars, loopVars,
     renderVars, queueVars, fileVars
<1>. QED
  BY <1>1, <1>2, <1>3, <1>4, <1>5, <1>6, <1>7, <1>8, <1>9, <1>10 DEF IInv, TypeOK, Running

\* The seek reaches the reader's queue after the decode loops know its serial.
LEMMA PostReaderSeekKept ==
  ASSUME TypeOK, Running, fault = "none", PostReaderSeek
  PROVE  IInv'
<1>1. PlayerTypes'
  BY DEF PostReaderSeek, Post, ReaderTask, PlayerReturns, clientVars, fileVars,
     PlayerTypes, States, PlayerPcs, PlayerOps, TypeOK, PlayerHead, DecoderOps, Running
<1>2. ReaderTypes'
  <2>1. ReaderTask("Seek", seekId) \in ReaderTasks
    BY TaskTypes DEF ReaderOps, TypeOK, PlayerTypes
  <2>2. readerQ' \in Seq(ReaderTasks)
    BY <2>1, PostProperties DEF TypeOK, ReaderTypes, PostReaderSeek
  <2>. QED
    BY <2>2 DEF TypeOK, ReaderTypes, PostReaderSeek, fileVars
<1>3. PlayerHead' /\ InitFirst'
  BY DEF PostReaderSeek, PlayerReturns, clientVars, PlayerHead, InitFirst, PcOp, Running
<1>4. ReaderCalls' /\ DecoderCalls'
  BY DEF PostReaderSeek, Post, ReaderTask, decoderVars, threadVars, ReaderCalls,
     DecoderCalls, ReaderCall, DecoderCall, Running
<1>5. Starting' /\ ThreadsExist' /\ LoopsAlive'
  BY DEF PostReaderSeek, Post, ReaderTask, PlayerReturns, clientVars, fileVars,
     decoderVars, queueVars, threadVars, loopVars, renderVars, Starting, ThreadsExist,
     LoopsAlive, PcOp, TypeOK, PlayerHead, InitFirst, DecoderOps, Running
<1>6. SerialsOrdered'
  <2>1. /\ ReaderTask("Seek", seekId) \in ReaderTasks
        /\ ReaderTask("Seek", seekId).op = "Seek" /\ ReaderTask("Seek", seekId).seek = seekId
    BY TaskTypes DEF ReaderTask, ReaderOps, TypeOK, PlayerTypes
  <2>2. readerQ \in Seq(ReaderTasks) /\ seekId \in Nat
    BY DEF TypeOK, ReaderTypes, PlayerTypes
  <2>3. SeekBound = seekId - 1 /\ SeekBound' = seekId
    BY DEF SeekBound, PostReaderSeek, PlayerReturns
  <2>4. ASSUME NEW i \in DOMAIN readerQ', readerQ'[i].op \in SeekOps
        PROVE  readerQ'[i].seek <= SeekBound'
    <3>1. /\ i \in 1 .. Len(readerQ')
          /\ i \in 1 .. Len(readerQ) => readerQ'[i] = readerQ[i]
          /\ i \notin 1 .. Len(readerQ) => readerQ'[i] = ReaderTask("Seek", seekId)
      BY <2>1, <2>2, <2>4, PostProperties, LenProperties DEF PostReaderSeek
    <3>2. CASE i \in 1 .. Len(readerQ)
      <4>1. i \in DOMAIN readerQ /\ readerQ[i].op \in SeekOps /\ readerQ[i] \in ReaderTasks
        BY <3>1, <3>2, <2>2, <2>4, LenProperties, ElementOfSeq
      <4>. QED
        BY <3>1, <3>2, <4>1, <2>2, <2>3 DEF Running, SerialsOrdered, ReaderTasks
    <3>. QED
      BY <3>1, <3>2, <2>1, <2>2, <2>3
  <2>5. playerPc = "seekDone" /\ playerPc' = "ready"
    BY DEF PostReaderSeek, PlayerReturns
  <2>6. UNCHANGED <<seekId, isInit, serial, readerSerial, inflight, queue>>
    BY DEF PostReaderSeek, fileVars, decoderVars, queueVars, loopVars
  <2>7. readerSerial <= SeekBound' /\ inflight.packet.serial <= SeekBound'
    BY <2>2, <2>3 DEF Running, SerialsOrdered, TypeOK, ReaderTypes, Reads, Packets
  <2>8. \A s \in Streams : \A i \in DOMAIN queue[s] : queue[s][i].serial <= SeekBound'
    <3>1. SUFFICES ASSUME NEW s \in Streams, NEW i \in DOMAIN queue[s]
                   PROVE  queue[s][i].serial <= SeekBound'
      OBVIOUS
    <3>2. queue[s][i].serial <= SeekBound
      BY <3>1 DEF Running, SerialsOrdered
    <3>3. queue[s][i].serial \in Nat
      BY <3>1, PacketsTyped DEF Packets
    <3>. QED
      BY <2>2, <2>3, <3>2, <3>3
  <2>9. \A s \in Streams :
          isInit'[s] => serial'[s] = IF playerPc' = "seek" THEN seekId' - 1 ELSE seekId'
    <3>1. \A s \in Streams : isInit[s] => serial[s] = seekId
      BY <2>5 DEF Running, SerialsOrdered
    <3>. QED
      BY <3>1, <2>5, <2>6
  <2>10. readerSerial' <= SeekBound' /\ inflight'.packet.serial <= SeekBound'
    BY <2>6, <2>7
  <2>11. \A s \in Streams : \A i \in DOMAIN queue'[s] : queue'[s][i].serial <= SeekBound'
    BY <2>6, <2>8
  <2>. QED
    BY <2>4, <2>9, <2>10, <2>11, Zenon DEF SerialsOrdered
<1>7. ClientTypes' /\ DecoderTypes' /\ QueueTypes' /\ FaultTypes'
  BY DEF TypeOK, ClientTypes, DecoderTypes, QueueTypes, FaultTypes, Packets,
     PostReaderSeek, clientVars, fileVars, decoderVars, queueVars, threadVars, loopVars,
     renderVars
<1>8. ChecksHold' /\ NoDanglingAccess' /\ NullOnlyAfterInvalidConfig'
  BY DEF ChecksHold, NoDanglingAccess, NullOnlyAfterInvalidConfig, PostReaderSeek,
     clientVars, fileVars, decoderVars, queueVars, threadVars, loopVars, renderVars
<1>9. QueueHasRoom'
  BY DEF Running, QueueHasRoom, PostReaderSeek, clientVars, fileVars, decoderVars,
     queueVars, threadVars, loopVars, renderVars
<1>. QED
  BY <1>1, <1>2, <1>3, <1>4, <1>5, <1>6, <1>7, <1>8, <1>9 DEF IInv, TypeOK, Running

\* UnInitInternal is past kIdle, since Init came first.
LEMMA UnInitInternalKept ==
  ASSUME TypeOK, Running, fault = "none", UnInitInternal
  PROVE  IInv'
<1>1. PlayerTypes'
  BY DEF UnInitInternal, PlayerRuns, SetState, PlayerTypes, States, PlayerPcs, TypeOK
<1>2. DecoderTypes'
  <2>1. Task("UnInitDecoder") \in DecoderTasks
    BY TaskTypes
  <2>2. decoderQ' \in Seq(DecoderTasks)
    BY <2>1, PostProperties DEF TypeOK, DecoderTypes, UnInitInternal
  <2>. QED
    BY <2>2 DEF TypeOK, DecoderTypes, UnInitInternal, loopVars, renderVars
<1>3. ChecksHold' /\ NoDanglingAccess' /\ NullOnlyAfterInvalidConfig'
  BY DEF UnInitInternal, PlayerRuns, SetState, readerVars, loopVars, renderVars,
     queueVars, Runs, CheckState, fileVars, ChecksHold, NoDanglingAccess,
     NullOnlyAfterInvalidConfig, TypeOK, PlayerHead, InitFirst, Starting, ThreadsExist,
     DecoderOps, Running
<1>4. ASSUME fault' = "none" PROVE PlayerHead' /\ InitFirst'
  BY <1>4 DEF UnInitInternal, PlayerRuns, SetState, clientVars, Runs, PlayerHead,
     InitFirst, PcOp, Running
<1>5. ASSUME fault' = "none" PROVE ReaderCalls' /\ DecoderCalls'
  BY <1>5 DEF UnInitInternal, PlayerRuns, SetState, Post, Task, readerVars, ReaderCalls,
     DecoderCalls, DecoderCall, Running
<1>6. ASSUME fault' = "none" PROVE Starting' /\ ThreadsExist' /\ LoopsAlive'
  BY <1>6 DEF UnInitInternal, PlayerRuns, SetState, Post, readerVars, loopVars,
     renderVars, CheckState, fileVars, Starting, ThreadsExist, LoopsAlive, Running
<1>7. ASSUME fault' = "none" PROVE SerialsOrdered'
  BY <1>7 DEF UnInitInternal, PlayerRuns, readerVars, loopVars, queueVars, fileVars,
     SerialsOrdered, SeekBound, Running
<1>8. FaultTypes'
  BY DEF FaultTypes, UnInitInternal
<1>9. ClientTypes' /\ ReaderTypes' /\ QueueTypes'
  BY DEF TypeOK, ClientTypes, ReaderTypes, QueueTypes, Reads, Packets, UnInitInternal,
     clientVars, readerVars, loopVars, renderVars, queueVars, fileVars
<1>10. QueueHasRoom'
  BY DEF Running, QueueHasRoom, UnInitInternal, clientVars, readerVars, loopVars,
     renderVars, queueVars, fileVars
<1>. QED
  BY <1>1, <1>2, <1>3, <1>4, <1>5, <1>6, <1>7, <1>8, <1>9, <1>10 DEF IInv, TypeOK, Running

\* Thread::Stop tells the decoder thread to quit.
LEMMA QuitDecoderKept ==
  ASSUME TypeOK, Running, fault = "none", QuitDecoder
  PROVE  IInv'
<1>1. PlayerTypes'
  BY DEF QuitDecoder, PlayerTypes, PlayerPcs, TypeOK
<1>2. DecoderTypes'
  BY DEF QuitDecoder, ToldToQuit, clientVars, readerVars, loopVars, renderVars,
     DecoderTypes, Threads, TypeOK
<1>3. PlayerHead' /\ InitFirst'
  BY DEF QuitDecoder, clientVars, PlayerHead, InitFirst, PcOp, Running
<1>4. ReaderCalls' /\ DecoderCalls'
  BY DEF QuitDecoder, readerVars, ReaderCalls, DecoderCalls, DecoderCall, Running
<1>5. Starting' /\ ThreadsExist' /\ LoopsAlive'
  BY DEF QuitDecoder, ToldToQuit, readerVars, loopVars, renderVars, fileVars, Starting,
     ThreadsExist, LoopsAlive, PcOp, Running
<1>6. SerialsOrdered'
  BY DEF QuitDecoder, readerVars, loopVars, queueVars, fileVars, SerialsOrdered,
     SeekBound, Running
<1>7. ClientTypes' /\ ReaderTypes' /\ QueueTypes' /\ FaultTypes'
  BY DEF TypeOK, ClientTypes, ReaderTypes, QueueTypes, FaultTypes, Reads, Packets,
     QuitDecoder, clientVars, readerVars, loopVars, renderVars, queueVars, fileVars
<1>8. ChecksHold' /\ NoDanglingAccess' /\ NullOnlyAfterInvalidConfig'
  BY DEF ChecksHold, NoDanglingAccess, NullOnlyAfterInvalidConfig, QuitDecoder,
     clientVars, readerVars, loopVars, renderVars, queueVars, fileVars
<1>9. QueueHasRoom'
  BY DEF Running, QueueHasRoom, QuitDecoder, clientVars, readerVars, loopVars,
     renderVars, queueVars, fileVars
<1>. QED
  BY <1>1, <1>2, <1>3, <1>4, <1>5, <1>6, <1>7, <1>8, <1>9 DEF IInv, TypeOK, Running

\* The decode loops and the renders go together, after their thread.
LEMMA JoinDecoderKept ==
  ASSUME TypeOK, Running, fault = "none", JoinDecoder
  PROVE  IInv'
<1>1. PlayerTypes'
  BY DEF JoinDecoder, PlayerTypes, PlayerPcs, TypeOK
<1>2. ReaderTypes'
  <2>1. ReaderTask("UnInitReader", 0) \in ReaderTasks
    BY TaskTypes DEF ReaderOps, TypeOK, PlayerTypes
  <2>2. readerQ' \in Seq(ReaderTasks)
    BY <2>1, PostProperties DEF TypeOK, ReaderTypes, JoinDecoder
  <2>. QED
    BY <2>2 DEF TypeOK, ReaderTypes, JoinDecoder, fileVars
<1>3. DecoderTypes'
  BY DEF JoinDecoder, DecoderTypes, Threads, TypeOK
<1>4. PlayerHead' /\ InitFirst'
  BY DEF JoinDecoder, clientVars, PlayerHead, InitFirst, PcOp, Running
<1>5. ReaderCalls' /\ DecoderCalls'
  BY DEF JoinDecoder, Post, ReaderTask, ReaderCalls, DecoderCalls, Running
<1>6. Starting' /\ ThreadsExist' /\ LoopsAlive'
  BY DEF JoinDecoder, Starting, ThreadsExist, LoopsAlive, PcOp, Running
<1>7. SerialsOrdered'
  BY DEF JoinDecoder, Post, ReaderTask, fileVars, queueVars, SerialsOrdered, SeekBound,
     Running
<1>8. ClientTypes' /\ QueueTypes' /\ FaultTypes'
  BY DEF TypeOK, ClientTypes, QueueTypes, FaultTypes, Packets, JoinDecoder, clientVars,
     fileVars, queueVars
<1>9. ChecksHold' /\ NoDanglingAccess' /\ NullOnlyAfterInvalidConfig'
  BY DEF ChecksHold, NoDanglingAccess, NullOnlyAfterInvalidConfig, JoinDecoder,
     clientVars, fileVars, queueVars
<1>10. QueueHasRoom'
  BY DEF Running, QueueHasRoom, JoinDecoder, clientVars, fileVars, queueVars
<1>. QED
  BY <1>1, <1>2, <1>3, <1>4, <1>5, <1>6, <1>7, <1>8, <1>9, <1>10 DEF IInv, TypeOK, Running

\* Thread::Stop tells the reader thread to quit.
LEMMA QuitReaderKept ==
  ASSUME TypeOK, Running, fault = "none", QuitReader
  PROVE  IInv'
<1>1. PlayerTypes'
  BY DEF QuitReader, PlayerTypes, PlayerPcs, TypeOK
<1>2. ReaderTypes'
  BY DEF QuitReader, clientVars, fileVars, ReaderTypes, Threads, TypeOK
<1>3. PlayerHead' /\ InitFirst'
  BY DEF QuitReader, clientVars, PlayerHead, InitFirst, PcOp, Running
<1>4. ReaderCalls' /\ DecoderCalls'
  BY DEF QuitReader, decoderVars, threadVars, ReaderCalls, DecoderCalls, DecoderCall,
     Running
<1>5. Starting' /\ ThreadsExist' /\ LoopsAlive'
  BY DEF QuitReader, decoderVars, loopVars, Starting, ThreadsExist, LoopsAlive, PcOp,
     Running
<1>6. SerialsOrdered'
  BY DEF QuitReader, fileVars, decoderVars, queueVars, loopVars, renderVars,
     SerialsOrdered, SeekBound, Running
<1>7. ClientTypes' /\ DecoderTypes' /\ QueueTypes' /\ FaultTypes'
  BY DEF TypeOK, ClientTypes, DecoderTypes, QueueTypes, FaultTypes, Packets, QuitReader,
     clientVars, fileVars, decoderVars, queueVars, threadVars, loopVars, renderVars
<1>8. ChecksHold' /\ NoDanglingAccess' /\ NullOnlyAfterInvalidConfig'
  BY DEF ChecksHold, NoDanglingAccess, NullOnlyAfterInvalidConfig, QuitReader,
     clientVars, fileVars, decoderVars, queueVars, threadVars, loopVars, renderVars
<1>9. QueueHasRoom'
  BY DEF Running, QueueHasRoom, QuitReader, clientVars, fileVars, decoderVars,
     queueVars, threadVars, loopVars, renderVars
<1>. QED
  BY <1>1, <1>2, <1>3, <1>4, <1>5, <1>6, <1>7, <1>8, <1>9 DEF IInv, TypeOK, Running

\* The reader goes when no decode loop is left.
LEMMA JoinReaderKept ==
  ASSUME TypeOK, Running, fault = "none", JoinReader
  PROVE  IInv'
<1>1. ClientTypes'
  BY DEF JoinReader, ClientTypes, TypeOK
<1>2. PlayerTypes'
  BY DEF JoinReader, PlayerReturns, renderVars, PlayerTypes, PlayerTasks, PlayerPcs,
     PlayerOps, TypeOK, PlayerHead, Running
<1>3. ReaderTypes'
  <2>1. readerQ' \in Seq(ReaderTasks)
    BY EmptySeq DEF JoinReader
  <2>2. readerTimer' \in BOOLEAN /\ readerThread' \in Threads
    BY DEF JoinReader, Threads
  <2>. QED
    BY <2>1, <2>2 DEF TypeOK, ReaderTypes, JoinReader
<1>4. NullOnlyAfterInvalidConfig'
  BY DEF JoinReader, NullOnlyAfterInvalidConfig
<1>5. PlayerHead' /\ InitFirst'
  BY DEF JoinReader, PlayerReturns, PlayerHead, InitFirst, PcOp, Running
<1>6. ReaderCalls' /\ DecoderCalls'
  BY DEF JoinReader, decoderVars, threadVars, ReaderCalls, DecoderCalls, DecoderCall,
     Running
<1>7. Starting' /\ ThreadsExist' /\ LoopsAlive'
  BY DEF JoinReader, PlayerReturns, decoderVars, loopVars, Starting, ThreadsExist,
     LoopsAlive, PcOp, Running
<1>8. SerialsOrdered'
  BY DEF JoinReader, PlayerReturns, decoderVars, queueVars, loopVars, renderVars,
     SerialsOrdered, SeekBound, Running
<1>9. DecoderTypes' /\ QueueTypes' /\ FaultTypes'
  BY DEF TypeOK, DecoderTypes, QueueTypes, FaultTypes, Packets, JoinReader, decoderVars,
     queueVars, threadVars, loopVars, renderVars
<1>10. ChecksHold' /\ NoDanglingAccess'
  BY DEF ChecksHold, NoDanglingAccess, JoinReader, decoderVars, queueVars, threadVars,
     loopVars, renderVars
<1>11. QueueHasRoom'
  BY DEF Running, QueueHasRoom, JoinReader, decoderVars, queueVars, threadVars,
     loopVars, renderVars
<1>. QED
  BY <1>1, <1>2, <1>3, <1>4, <1>5, <1>6, <1>7, <1>8, <1>9, <1>10, <1>11 DEF IInv, TypeOK, Running

\* The task of SetError changes nothing but its queue.
LEMMA OnErrorKept ==
  ASSUME TypeOK, Running, fault = "none", OnError
  PROVE  IInv'
<1>1. PlayerTypes'
  BY DEF OnError, PlayerRuns, PlayerReturns, clientVars, queueVars, Runs, PlayerTypes,
     TypeOK
<1>2. PlayerHead' /\ InitFirst'
  BY DEF OnError, PlayerRuns, PlayerReturns, clientVars, Runs, PlayerHead, InitFirst,
     Running
<1>3. ReaderCalls' /\ DecoderCalls'
  BY DEF OnError, PlayerRuns, PlayerReturns, clientVars, readerVars, decoderVars,
     threadVars, ReaderCalls, DecoderCalls, DecoderCall, Running
<1>4. Starting' /\ ThreadsExist' /\ LoopsAlive'
  BY DEF OnError, PlayerRuns, PlayerReturns, clientVars, readerVars, decoderVars,
     fileVars, threadVars, loopVars, renderVars, Starting, ThreadsExist, LoopsAlive,
     Running
<1>5. SerialsOrdered'
  BY DEF OnError, PlayerRuns, PlayerReturns, clientVars, readerVars, decoderVars,
     queueVars, fileVars, loopVars, SerialsOrdered, SeekBound, Running
<1>6. ClientTypes' /\ ReaderTypes' /\ DecoderTypes' /\ QueueTypes' /\ FaultTypes'
  BY DEF TypeOK, ClientTypes, ReaderTypes, DecoderTypes, QueueTypes, FaultTypes, Reads,
     Packets, OnError, clientVars, readerVars, decoderVars, queueVars, fileVars,
     threadVars, loopVars, renderVars
<1>7. ChecksHold' /\ NoDanglingAccess' /\ NullOnlyAfterInvalidConfig'
  BY DEF ChecksHold, NoDanglingAccess, NullOnlyAfterInvalidConfig, OnError, clientVars,
     readerVars, decoderVars, queueVars, fileVars, threadVars, loopVars, renderVars
<1>8. QueueHasRoom'
  BY DEF Running, QueueHasRoom, OnError, clientVars, readerVars, decoderVars, queueVars,
     fileVars, threadVars, loopVars, renderVars
<1>. QED
  BY <1>1, <1>2, <1>3, <1>4, <1>5, <1>6, <1>7, <1>8 DEF IInv, TypeOK, Running

\* The player thread ends with an empty queue.
LEMMA PlayerExitsKept ==
  ASSUME TypeOK, Running, fault = "none", PlayerExits
  PROVE  IInv'
<1>1. PlayerTypes'
  BY DEF PlayerExits, PlayerTypes, Threads, TypeOK
<1>2. InitFirst'
  BY DEF PlayerExits, clientVars, InitFirst, Running
<1>3. ClientTypes' /\ ReaderTypes' /\ DecoderTypes' /\ QueueTypes' /\ FaultTypes'
  BY DEF TypeOK, ClientTypes, ReaderTypes, DecoderTypes, QueueTypes, FaultTypes, Reads,
     Packets, PlayerExits, clientVars, readerVars, decoderVars, queueVars, fileVars,
     threadVars, loopVars, renderVars
<1>4. ChecksHold' /\ NoDanglingAccess' /\ NullOnlyAfterInvalidConfig'
  BY DEF ChecksHold, NoDanglingAccess, NullOnlyAfterInvalidConfig, PlayerExits,
     clientVars, readerVars, decoderVars, queueVars, fileVars, threadVars, loopVars,
     renderVars
<1>5. /\ PlayerHead' /\ ReaderCalls' /\ DecoderCalls' /\ Starting' /\ ThreadsExist'
      /\ LoopsAlive' /\ SerialsOrdered' /\ QueueHasRoom'
  BY DEF Running, PlayerHead, ReaderCalls, DecoderCalls, Starting, ThreadsExist,
     LoopsAlive, SerialsOrdered, QueueHasRoom, SeekBound, PlayerExits, clientVars,
     readerVars, decoderVars, queueVars, fileVars, threadVars, loopVars, renderVars
<1>. QED
  BY <1>1, <1>2, <1>3, <1>4, <1>5 DEF IInv, TypeOK, Running

\* The task of InitReaderIfNeed opens the file; it goes on as the first ReadPacket or
\* answers the player.
LEMMA InitReaderKept ==
  ASSUME TypeOK, Running, fault = "none", InitReader
  PROVE  IInv'
<1>1. PlayerTypes'
  <2>1. /\ playerQ \in Seq(PlayerTasks) /\ state \in States
        /\ Post(playerThread, playerQ, Task("OnError")) \in Seq(PlayerTasks)
    BY PostProperties, TaskTypes DEF TypeOK, PlayerTypes, PlayerOps
  <2>2. state' \in States /\ playerQ' \in Seq(PlayerTasks)
    BY <2>1, SetErrorProperties DEF InitReader, States
  <2>. QED
    BY <2>2 DEF TypeOK, PlayerTypes, InitReader
<1>2. ReaderTypes'
  BY DEF InitReader, Runs, ReaderTask, SetError, ReaderTypes, Threads, ReaderTasks,
     Reads, ReaderOps, TypeOK, PlayerTypes
<1>3. NullOnlyAfterInvalidConfig'
  BY DEF InitReader, NullOnlyAfterInvalidConfig
<1>4. PlayerHead' /\ InitFirst'
  BY DEF InitReader, Runs, SetError, Post, clientVars, PlayerHead, InitFirst, Running
<1>5. ReaderCalls'
  BY DEF InitReader, Runs, ReaderTask, ReaderCalls, ReaderCall, Running
<1>6. Starting' /\ ThreadsExist' /\ LoopsAlive'
  BY DEF InitReader, Runs, ReaderTask, SetError, decoderVars, threadVars, loopVars,
     renderVars, Starting, ThreadsExist, LoopsAlive, Running
<1>7. SerialsOrdered'
  <2>1. readerQ \in Seq(ReaderTasks) /\ readerQ # <<>> /\ Head(readerQ).op = "InitReader"
    BY DEF TypeOK, ReaderTypes, InitReader, Runs
  <2>2. 1 \in DOMAIN readerQ /\ readerQ[1].op = "InitReader"
    BY <2>1, LenProperties, EmptySeq
  <2>3. playerPc = "initReader"
    BY <2>2 DEF Running, ReaderCalls, ReaderCall
  <2>4. seekId \in Nat /\ SeekBound = seekId /\ SeekBound' = seekId
    BY <2>3 DEF TypeOK, PlayerTypes, SeekBound, InitReader
  <2>5. ASSUME NEW i \in DOMAIN readerQ', readerQ'[i].op \in SeekOps
        PROVE  readerQ'[i].seek <= SeekBound'
    BY <2>1, <2>2, <2>4, <2>5 DEF InitReader, ReaderTask, Running, SerialsOrdered, SeekOps
  <2>6. readerSerial' = seekId /\ UNCHANGED <<inflight, queue, isInit, serial, playerPc, seekId>>
    BY DEF InitReader, decoderVars, loopVars, queueVars
  <2>7. readerSerial' <= SeekBound'
    BY <2>4, <2>6
  <2>8. UNCHANGED SeekBound
    BY <2>4
  <2>. QED
    BY <2>5, <2>6, <2>7, <2>8, Zenon DEF Running, SerialsOrdered
<1>8. ClientTypes' /\ DecoderTypes' /\ QueueTypes' /\ FaultTypes'
  BY DEF TypeOK, ClientTypes, DecoderTypes, QueueTypes, FaultTypes, Packets, InitReader,
     clientVars, decoderVars, queueVars, threadVars, loopVars, renderVars
<1>9. ChecksHold' /\ NoDanglingAccess'
  BY DEF ChecksHold, NoDanglingAccess, InitReader, clientVars, decoderVars, queueVars,
     threadVars, loopVars, renderVars
<1>10. DecoderCalls' /\ QueueHasRoom'
  BY DEF Running, DecoderCalls, QueueHasRoom, InitReader, clientVars, decoderVars,
     queueVars, threadVars, loopVars, renderVars
<1>. QED
  BY <1>1, <1>2, <1>3, <1>4, <1>5, <1>6, <1>7, <1>8, <1>9, <1>10 DEF IInv, TypeOK, Running

\* ReadPacket ends its loop in a state past the end.
LEMMA ReadExitKept ==
  ASSUME TypeOK, Running, fault = "none", ReadExit
  PROVE  IInv'
<1>1. PlayerTypes'
  BY DEF ReadExit, Reading, ReadPacketReturns, clientVars, ReaderTask,
     InitAfterFirstRead, renderVars, PlayerTypes, PlayerTasks, PlayerPcs, TypeOK
<1>2. ReaderTypes'
  BY DEF ReadExit, Reading, ReadPacketReturns, clientVars, fileVars, decoderVars,
     queueVars, Runs, ReaderTypes, TypeOK
<1>3. PlayerHead' /\ InitFirst'
  <2>1. playerPc' = playerPc \/ (playerPc = "initReader" /\ playerPc' = "initReaderDone")
    BY FirstReadPc DEF ReadExit, Running
  <2>2. readerThread # "null"
    BY DEF ReadExit, Reading, Runs
  <2>3. UNCHANGED <<clientPc, state, playerThread, playerQ, readerThread, decoderThread>>
    BY DEF ReadExit, clientVars, decoderVars, threadVars
  <2>. QED
    BY <2>1, <2>2, <2>3 DEF Running, PlayerHead, InitFirst, PcOp
<1>4. ReaderCalls' /\ DecoderCalls'
  <2>1. /\ readerQ' \in Seq(ReaderTasks) /\ Moves(readerQ, readerQ', 1, ReaderCallOps)
        /\ readerQ # <<>>
        /\ playerPc' = playerPc \/ Head(readerQ).op \in ReaderCallOps
    BY ReadPacketReturnsMoves DEF ReadExit, ReaderCallOps, Reading, Runs
  <2>2. ReaderCalls'
    BY <2>1, ReaderCallsKept DEF Running
  <2>3. DecoderCalls'
    <3>1. playerPc' = playerPc \/ playerPc = "initReader"
      <4>1. readerQ \in Seq(ReaderTasks)
        BY DEF TypeOK, ReaderTypes
      <4>2. 1 \in DOMAIN readerQ /\ readerQ[1] = Head(readerQ)
        BY <2>1, <4>1, LenProperties, EmptySeq
      <4>3. CASE Head(readerQ).op = "FirstRead"
        BY <4>2, <4>3 DEF Running, ReaderCalls, ReaderCall
      <4>. QED
        BY <4>3 DEF ReadExit, ReadPacketReturns
    <3>2. UNCHANGED decoderQ
      BY DEF ReadExit, decoderVars, threadVars
    <3>3. CASE playerPc = "initReader"
      <4>1. \A i \in DOMAIN decoderQ : ~DecoderCall(decoderQ[i].op)
        BY <3>3 DEF Running, DecoderCalls, DecoderCall
      <4>. QED
        BY <4>1, <3>2 DEF DecoderCalls
    <3>. QED
      BY <3>1, <3>2, <3>3 DEF Running, DecoderCalls
  <2>. QED
    BY <2>2, <2>3
<1>5. Starting' /\ ThreadsExist' /\ LoopsAlive'
  <2>1. playerPc' = playerPc \/ (playerPc = "initReader" /\ playerPc' = "initReaderDone")
    BY FirstReadPc DEF ReadExit, Running
  <2>2. /\ UNCHANGED <<state, seekId, serial, isInit, renderAlive>>
        /\ UNCHANGED <<reader, readerThread, decoderThread>>
    BY DEF ReadExit, fileVars, decoderVars, threadVars, loopVars, renderVars
  <2>3. Starting'
    BY <2>1, <2>2 DEF Running, Starting
  <2>4. ThreadsExist'
    BY <2>1, <2>2 DEF Running, ThreadsExist, PcOp
  <2>5. LoopsAlive'
    BY <2>1, <2>2 DEF Running, LoopsAlive
  <2>. QED
    BY <2>3, <2>4, <2>5
<1>6. SerialsOrdered'
  <2>1. /\ readerQ' \in Seq(ReaderTasks) /\ Moves(readerQ, readerQ', 1, SeekOps)
    BY ReadPacketReturnsMoves DEF ReadExit
  <2>2. \/ playerPc' = playerPc
        \/ playerPc = "initReader" /\ playerPc' = "initReaderDone"
    BY FirstReadPc DEF ReadExit, Running
  <2>3. UNCHANGED <<seekId, SeekBound, isInit, serial, readerSerial, inflight, queue>>
    BY <2>2 DEF ReadExit, SeekBound, fileVars, decoderVars, loopVars, queueVars
  <2>4. \A i \in DOMAIN readerQ' : readerQ'[i].op \in SeekOps => readerQ'[i].seek <= SeekBound'
    BY <2>1, <2>3, SeeksKept DEF Running
  <2>. QED
    BY <2>2, <2>3, <2>4 DEF Running, SerialsOrdered
<1>7. ClientTypes' /\ DecoderTypes' /\ QueueTypes' /\ FaultTypes'
  BY DEF TypeOK, ClientTypes, DecoderTypes, QueueTypes, FaultTypes, Packets, ReadExit,
     clientVars, fileVars, decoderVars, queueVars, threadVars, loopVars, renderVars
<1>8. ChecksHold' /\ NoDanglingAccess' /\ NullOnlyAfterInvalidConfig'
  BY DEF ChecksHold, NoDanglingAccess, NullOnlyAfterInvalidConfig, ReadExit, clientVars,
     fileVars, decoderVars, queueVars, threadVars, loopVars, renderVars
<1>9. QueueHasRoom'
  BY DEF Running, QueueHasRoom, ReadExit, clientVars, fileVars, decoderVars, queueVars,
     threadVars, loopVars, renderVars
<1>. QED
  BY <1>1, <1>2, <1>3, <1>4, <1>5, <1>6, <1>7, <1>8, <1>9 DEF IInv, TypeOK, Running

\* ReadPacket holds back and comes again later.
LEMMA ReadHoldKept ==
  ASSUME TypeOK, Running, fault = "none", ReadHold
  PROVE  IInv'
<1>1. PlayerTypes'
  BY DEF ReadHold, ReadPacketReturns, clientVars, ReaderTask, InitAfterFirstRead,
     renderVars, PlayerTypes, PlayerTasks, PlayerPcs, PlayerOps, TypeOK
<1>2. ReaderTypes'
  BY DEF ReadHold, Reading, NoRead, ReadPacketReturns, clientVars, fileVars,
     decoderVars, queueVars, Runs, renderVars, ReaderTypes, TypeOK
<1>3. PlayerHead' /\ InitFirst'
  <2>1. playerPc' = playerPc \/ (playerPc = "initReader" /\ playerPc' = "initReaderDone")
    BY FirstReadPc DEF ReadHold, Running
  <2>2. readerThread # "null"
    BY DEF ReadHold, Reading, Runs
  <2>3. UNCHANGED <<clientPc, state, playerThread, playerQ, readerThread, decoderThread>>
    BY DEF ReadHold, clientVars, decoderVars, threadVars
  <2>. QED
    BY <2>1, <2>2, <2>3 DEF Running, PlayerHead, InitFirst, PcOp
<1>4. ReaderCalls' /\ DecoderCalls'
  <2>1. /\ readerQ' \in Seq(ReaderTasks) /\ Moves(readerQ, readerQ', 1, ReaderCallOps)
        /\ readerQ # <<>>
        /\ playerPc' = playerPc \/ Head(readerQ).op \in ReaderCallOps
    BY ReadPacketReturnsMoves DEF ReadHold, ReaderCallOps, Reading, Runs
  <2>2. ReaderCalls'
    BY <2>1, ReaderCallsKept DEF Running
  <2>3. DecoderCalls'
    <3>1. playerPc' = playerPc \/ playerPc = "initReader"
      <4>1. readerQ \in Seq(ReaderTasks)
        BY DEF TypeOK, ReaderTypes
      <4>2. 1 \in DOMAIN readerQ /\ readerQ[1] = Head(readerQ)
        BY <2>1, <4>1, LenProperties, EmptySeq
      <4>3. CASE Head(readerQ).op = "FirstRead"
        BY <4>2, <4>3 DEF Running, ReaderCalls, ReaderCall
      <4>. QED
        BY <4>3 DEF ReadHold, ReadPacketReturns
    <3>2. UNCHANGED decoderQ
      BY DEF ReadHold, decoderVars, threadVars
    <3>3. CASE playerPc = "initReader"
      <4>1. \A i \in DOMAIN decoderQ : ~DecoderCall(decoderQ[i].op)
        BY <3>3 DEF Running, DecoderCalls, DecoderCall
      <4>. QED
        BY <4>1, <3>2 DEF DecoderCalls
    <3>. QED
      BY <3>1, <3>2, <3>3 DEF Running, DecoderCalls
  <2>. QED
    BY <2>2, <2>3
<1>5. Starting' /\ ThreadsExist' /\ LoopsAlive'
  <2>1. playerPc' = playerPc \/ (playerPc = "initReader" /\ playerPc' = "initReaderDone")
    BY FirstReadPc DEF ReadHold, Running
  <2>2. /\ UNCHANGED <<state, seekId, serial, isInit, renderAlive>>
        /\ UNCHANGED <<reader, readerThread, decoderThread>>
    BY DEF ReadHold, fileVars, decoderVars, threadVars, loopVars, renderVars
  <2>3. Starting'
    BY <2>1, <2>2 DEF Running, Starting
  <2>4. ThreadsExist'
    BY <2>1, <2>2 DEF Running, ThreadsExist, PcOp
  <2>5. LoopsAlive'
    BY <2>1, <2>2 DEF Running, LoopsAlive
  <2>. QED
    BY <2>3, <2>4, <2>5
<1>6. SerialsOrdered'
  <2>1. /\ readerQ' \in Seq(ReaderTasks) /\ Moves(readerQ, readerQ', 1, SeekOps)
    BY ReadPacketReturnsMoves DEF ReadHold
  <2>2. \/ playerPc' = playerPc
        \/ playerPc = "initReader" /\ playerPc' = "initReaderDone"
    BY FirstReadPc DEF ReadHold, Running
  <2>3. UNCHANGED <<seekId, SeekBound, isInit, serial, readerSerial, inflight, queue>>
    BY <2>2 DEF ReadHold, SeekBound, fileVars, decoderVars, loopVars, queueVars
  <2>4. \A i \in DOMAIN readerQ' : readerQ'[i].op \in SeekOps => readerQ'[i].seek <= SeekBound'
    BY <2>1, <2>3, SeeksKept DEF Running
  <2>. QED
    BY <2>2, <2>3, <2>4 DEF Running, SerialsOrdered
<1>7. ClientTypes' /\ DecoderTypes' /\ QueueTypes' /\ FaultTypes'
  BY DEF TypeOK, ClientTypes, DecoderTypes, QueueTypes, FaultTypes, Packets, ReadHold,
     clientVars, fileVars, decoderVars, queueVars, threadVars, loopVars, renderVars
<1>8. ChecksHold' /\ NoDanglingAccess' /\ NullOnlyAfterInvalidConfig'
  BY DEF ChecksHold, NoDanglingAccess, NullOnlyAfterInvalidConfig, ReadHold, clientVars,
     fileVars, decoderVars, queueVars, threadVars, loopVars, renderVars
<1>9. QueueHasRoom'
  BY DEF Running, QueueHasRoom, ReadHold, clientVars, fileVars, decoderVars, queueVars,
     threadVars, loopVars, renderVars
<1>. QED
  BY <1>1, <1>2, <1>3, <1>4, <1>5, <1>6, <1>7, <1>8, <1>9 DEF IInv, TypeOK, Running

\* ReadPacket reads with room in both queues.
LEMMA ReadFrameKept ==
  ASSUME TypeOK, Running, fault = "none", ReadFrame
  PROVE  IInv'
<1>1. ReaderTypes'
  <2>1. readerSerial \in Nat /\ filePos \in Nat
    BY DEF TypeOK, ReaderTypes
  <2>2. NoRead \in Reads
    BY DEF NoRead, Reads, Packet, Packets
  <2>3. ReadResults \subseteq Reads
    BY <2>1, <2>2 DEF ReadResults, NoRead, Reads, Packet, Packets
  <2>4. inflight' \in Reads /\ atEnd' \in BOOLEAN
    BY <2>3 DEF ReadFrame
  <2>. QED
    BY <2>4 DEF TypeOK, ReaderTypes, ReadFrame
<1>2. SerialsOrdered' /\ QueueHasRoom'
  <2>1. readerSerial \in Nat /\ filePos \in Nat
    BY DEF TypeOK, ReaderTypes
  <2>2. \A r \in ReadResults : r.packet.serial \in {0, readerSerial}
    BY <2>1 DEF ReadResults, NoRead, Packet
  <2>3. inflight'.packet.serial <= SeekBound
    <3>1. readerSerial <= SeekBound /\ SeekBound \in Int
      BY DEF Running, SerialsOrdered, SeekBound, TypeOK, PlayerTypes
    <3>. QED
      BY <2>1, <2>2, <3>1 DEF ReadFrame
  <2>4. UNCHANGED <<isInit, serial, seekId, playerPc, readerQ, readerSerial, queue>>
    BY DEF ReadFrame, playerVars, decoderVars, loopVars, queueVars
  <2>5. SerialsOrdered'
    BY <2>3, <2>4 DEF Running, SerialsOrdered, SeekBound
  <2>6. QueueHasRoom'
    BY <2>4 DEF ReadFrame, MayRead, QueueHasRoom
  <2>. QED
    BY <2>5, <2>6
<1>3. ClientTypes' /\ PlayerTypes' /\ DecoderTypes' /\ QueueTypes' /\ FaultTypes'
  BY DEF TypeOK, ClientTypes, PlayerTypes, DecoderTypes, QueueTypes, FaultTypes,
     Packets, ReadFrame, clientVars, playerVars, decoderVars, queueVars, threadVars,
     loopVars, renderVars
<1>4. ChecksHold' /\ NoDanglingAccess' /\ NullOnlyAfterInvalidConfig'
  BY DEF ChecksHold, NoDanglingAccess, NullOnlyAfterInvalidConfig, ReadFrame,
     clientVars, playerVars, decoderVars, queueVars, threadVars, loopVars, renderVars
<1>5. /\ PlayerHead' /\ InitFirst' /\ ReaderCalls' /\ DecoderCalls' /\ Starting'
      /\ ThreadsExist' /\ LoopsAlive'
  BY DEF Running, PlayerHead, InitFirst, ReaderCalls, DecoderCalls, Starting,
     ThreadsExist, LoopsAlive, ReadFrame, clientVars, playerVars, decoderVars,
     queueVars, threadVars, loopVars, renderVars
<1>. QED
  BY <1>1, <1>2, <1>3, <1>4, <1>5 DEF IInv, TypeOK, Running

\* ReadPacket pushes a packet no loop is behind of, or reports.
LEMMA HandOverKept ==
  ASSUME TypeOK, Running, fault = "none", HandOver
  PROVE  IInv'
<1>1. PlayerTypes'
  <2>1. state' \in States /\ playerQ' \in Seq(PlayerTasks)
    BY SetErrorProperties DEF HandOver, TypeOK, PlayerTypes, States
  <2>. QED
    BY <2>1 DEF HandOver, TypeOK, PlayerTypes, ReadPacketReturns, InitAfterFirstRead, PlayerPcs
<1>2. ReaderTypes'
  <2>1. readerQ' \in Seq(ReaderTasks) /\ readerTimer' \in BOOLEAN
    BY ReadPacketReturnsMoves DEF HandOver
  <2>2. inflight' \in Reads
    BY DEF HandOver, NoRead, Reads, Packets, Packet
  <2>. QED
    BY <2>1, <2>2 DEF HandOver, ReaderTypes, TypeOK, fileVars
<1>3. QueueTypes'
  <2>1. queue \in [Streams -> Seq(Packets)] /\ Stamped \in Packets
    BY DEF TypeOK, QueueTypes, ReaderTypes, Reads, Stamped
  <2>2. ASSUME NEW s \in Streams
        PROVE  queue'[s] \in Seq(Packets) /\ Len(queue'[s]) <= QueueBound
    <3>1. CASE s = inflight.stream
      <4>1. /\ queue'[s] = Append(queue[s], Stamped) /\ queue[s] \in Seq(Packets)
            /\ Len(queue[s]) < QueueBound
        BY <3>1, <2>1 DEF HandOver, Running, QueueHasRoom
      <4>. QED
        BY <4>1, <2>1, AppendProperties, LenProperties
    <3>2. CASE s # inflight.stream
      BY <3>2, <2>1 DEF HandOver, TypeOK, QueueTypes
    <3>. QED
      BY <3>1, <3>2
  <2>3. queue' \in [Streams -> Seq(Packets)]
    BY <2>1, <2>2 DEF HandOver
  <2>4. eof' \in BOOLEAN
    BY DEF HandOver, TypeOK, QueueTypes
  <2>. QED
    BY <2>2, <2>3, <2>4 DEF QueueTypes
<1>4. NullOnlyAfterInvalidConfig'
  BY DEF HandOver, NullOnlyAfterInvalidConfig
<1>5. PlayerHead' /\ InitFirst'
  <2>1. playerQ \in Seq(PlayerTasks)
    BY DEF TypeOK, PlayerTypes
  <2>2. /\ playerQ # <<>> => playerQ' # <<>> /\ Head(playerQ') = Head(playerQ)
        /\ (state' = state /\ playerQ' = playerQ) \/ state' = "kError"
    BY <2>1, SetErrorProperties DEF HandOver
  <2>3. \/ playerPc' = playerPc
        \/ playerPc = "initReader" /\ playerPc' = "initReaderDone"
    BY FirstReadPc DEF HandOver, Running
  <2>4. PlayerHead'
    BY <2>2, <2>3 DEF Running, PlayerHead, PcOp
  <2>5. clientPc # "new"
    BY DEF HandOver, Running, InitFirst, Reading, Runs
  <2>6. InitFirst'
    BY <2>2, <2>5 DEF Running, InitFirst, HandOver, clientVars
  <2>. QED
    BY <2>4, <2>6
<1>6. ReaderCalls' /\ DecoderCalls'
  <2>1. /\ readerQ' \in Seq(ReaderTasks) /\ Moves(readerQ, readerQ', 1, ReaderCallOps)
        /\ readerQ # <<>>
        /\ playerPc' = playerPc \/ Head(readerQ).op \in ReaderCallOps
    BY ReadPacketReturnsMoves DEF HandOver, ReaderCallOps, Reading, Runs
  <2>2. ReaderCalls'
    BY <2>1, ReaderCallsKept DEF Running
  <2>3. DecoderCalls'
    <3>1. playerPc' = playerPc \/ playerPc = "initReader"
      <4>1. readerQ \in Seq(ReaderTasks)
        BY DEF TypeOK, ReaderTypes
      <4>2. 1 \in DOMAIN readerQ /\ readerQ[1] = Head(readerQ)
        BY <2>1, <4>1, LenProperties, EmptySeq
      <4>3. CASE Head(readerQ).op = "FirstRead"
        BY <4>2, <4>3 DEF Running, ReaderCalls, ReaderCall
      <4>. QED
        BY <4>3 DEF HandOver, ReadPacketReturns
    <3>2. UNCHANGED decoderQ
      BY DEF HandOver, decoderVars, threadVars
    <3>3. CASE playerPc = "initReader"
      <4>1. \A i \in DOMAIN decoderQ : ~DecoderCall(decoderQ[i].op)
        BY <3>3 DEF Running, DecoderCalls, DecoderCall
      <4>. QED
        BY <4>1, <3>2 DEF DecoderCalls
    <3>. QED
      BY <3>1, <3>2, <3>3 DEF Running, DecoderCalls
  <2>. QED
    BY <2>2, <2>3
<1>7. Starting' /\ ThreadsExist' /\ LoopsAlive'
  <2>1. /\ playerPc' = playerPc \/ (playerPc = "initReader" /\ playerPc' = "initReaderDone")
        /\ state' = state \/ state' = "kError"
    BY FirstReadPc DEF HandOver, SetError, Running
  <2>2. /\ UNCHANGED <<seekId, serial, isInit, renderAlive>>
        /\ UNCHANGED <<reader, readerThread, decoderThread>>
    BY DEF HandOver, fileVars, decoderVars, threadVars, loopVars, renderVars
  <2>3. Starting'
    BY <2>1, <2>2 DEF Running, Starting
  <2>4. ThreadsExist'
    BY <2>1, <2>2 DEF Running, ThreadsExist, PcOp
  <2>5. LoopsAlive'
    BY <2>1, <2>2 DEF Running, LoopsAlive
  <2>. QED
    BY <2>3, <2>4, <2>5
<1>8. SerialsOrdered' /\ QueueHasRoom'
  <2>1. /\ readerQ' \in Seq(ReaderTasks) /\ Moves(readerQ, readerQ', 1, SeekOps)
    BY ReadPacketReturnsMoves DEF HandOver
  <2>2. \/ playerPc' = playerPc
        \/ playerPc = "initReader" /\ playerPc' = "initReaderDone"
    BY FirstReadPc DEF HandOver, Running
  <2>3. UNCHANGED <<seekId, SeekBound, isInit, serial, readerSerial>>
    BY <2>2 DEF HandOver, SeekBound, fileVars, decoderVars, loopVars
  <2>4. \A i \in DOMAIN readerQ' : readerQ'[i].op \in SeekOps => readerQ'[i].seek <= SeekBound'
    BY <2>1, <2>3, SeeksKept DEF Running
  <2>5. queue \in [Streams -> Seq(Packets)] /\ Stamped \in Packets /\ Stamped.serial <= SeekBound
    BY DEF TypeOK, QueueTypes, ReaderTypes, Reads, Stamped, Running, SerialsOrdered
  <2>6. ASSUME NEW s \in Streams, NEW i \in DOMAIN queue'[s]
        PROVE  queue'[s][i].serial <= SeekBound
    <3>1. CASE s = inflight.stream
      <4>1. queue'[s] = Append(queue[s], Stamped) /\ queue[s] \in Seq(Packets)
        BY <3>1, <2>5 DEF HandOver
      <4>2. /\ DOMAIN queue'[s] = 1 .. Len(queue[s]) + 1 /\ Len(queue[s]) \in Nat
            /\ DOMAIN queue[s] = 1 .. Len(queue[s])
            /\ \A j \in 1 .. Len(queue[s]) : queue'[s][j] = queue[s][j]
            /\ queue'[s][Len(queue[s]) + 1] = Stamped
        BY <4>1, <2>5, AppendProperties, LenProperties
      <4>. QED
        BY <4>2, <2>5 DEF Running, SerialsOrdered
    <3>2. CASE s # inflight.stream
      BY <3>2, <2>5 DEF HandOver, Running, SerialsOrdered
    <3>. QED
      BY <3>1, <3>2
  <2>7. inflight'.packet.serial <= SeekBound /\ inflight'.stream \notin Streams
    BY DEF HandOver, NoRead, Packet, TypeOK, ReaderTypes, PlayerTypes, SeekBound, Running,
       SerialsOrdered
  <2>8. SerialsOrdered'
    BY <2>2, <2>3, <2>4, <2>6, <2>7 DEF Running, SerialsOrdered
  <2>. QED
    BY <2>7, <2>8 DEF QueueHasRoom
<1>9. ClientTypes' /\ DecoderTypes' /\ FaultTypes'
  BY DEF TypeOK, ClientTypes, DecoderTypes, FaultTypes, HandOver, clientVars, fileVars,
     decoderVars, threadVars, loopVars, renderVars
<1>10. ChecksHold' /\ NoDanglingAccess'
  BY DEF ChecksHold, NoDanglingAccess, HandOver, clientVars, fileVars, decoderVars,
     threadVars, loopVars, renderVars
<1>. QED
  BY <1>1, <1>2, <1>3, <1>4, <1>5, <1>6, <1>7, <1>8, <1>9, <1>10 DEF IInv, TypeOK, Running

\* The seek task of the newest seek becomes its second half; an overtaken one ends.
LEMMA ReaderSeekKept ==
  ASSUME TypeOK, Running, fault = "none", ReaderSeek
  PROVE  IInv'
<1> DEFINE n == Head(readerQ).seek
<1>1. /\ readerQ \in Seq(ReaderTasks) /\ readerQ # <<>> /\ Head(readerQ).op = "Seek"
      /\ 1 \in DOMAIN readerQ /\ readerQ[1] = Head(readerQ)
  BY ReaderHead DEF TypeOK, ReaderTypes, ReaderSeek, Runs
<1>2. /\ ReaderTask("SeekTo", n) \in ReaderTasks /\ ReaderTask("SeekTo", n).seek = n
      /\ ReaderTask("SeekTo", n).op = "SeekTo"
  <2>1. Head(readerQ) \in ReaderTasks
    BY <1>1, HeadTailProperties
  <2>2. n \in Nat
    BY <2>1 DEF ReaderTasks
  <2>. QED
    BY <2>2, TaskTypes DEF ReaderOps, ReaderTask
<1>3. \/ readerQ' = [readerQ EXCEPT ![1] = ReaderTask("SeekTo", n)]
      \/ readerQ' = Tail(readerQ)
  BY DEF ReaderSeek
<1>4. UNCHANGED <<seekId, playerPc, isInit, serial, readerSerial, inflight, queue>>
  BY DEF ReaderSeek, fileVars, playerVars, decoderVars, loopVars, queueVars
<1>5. ASSUME readerQ' = [readerQ EXCEPT ![1] = ReaderTask("SeekTo", n)]
      PROVE  /\ readerQ' \in Seq(ReaderTasks) /\ ReaderCalls'
             /\ \A i \in DOMAIN readerQ' :
                    readerQ'[i].op \in SeekOps => readerQ'[i].seek <= SeekBound'
  <2>1. readerQ' \in Seq(ReaderTasks) /\ Moves(readerQ, readerQ', 0, ReaderCallOps)
    BY <1>1, <1>2, <1>5, HeadMoves DEF ReaderCallOps
  <2>2. ReaderCalls'
    BY <1>4, <2>1, ReaderCallsKept DEF Running
  <2>3. n <= SeekBound /\ SeekBound' = SeekBound
    BY <1>1, <1>4 DEF Running, SerialsOrdered, SeekOps, SeekBound
  <2>4. ASSUME NEW i \in DOMAIN readerQ', readerQ'[i].op \in SeekOps
        PROVE  readerQ'[i].seek <= SeekBound'
    <3>1. i \in DOMAIN readerQ
      BY <1>5
    <3>2. CASE i = 1
      BY <1>1, <1>2, <1>5, <2>3, <3>2
    <3>3. CASE i # 1
      BY <1>5, <2>3, <2>4, <3>1, <3>3 DEF Running, SerialsOrdered
    <3>. QED
      BY <3>2, <3>3
  <2>. QED
    BY <2>1, <2>2, <2>4
<1>6. ASSUME readerQ' = Tail(readerQ)
      PROVE  /\ readerQ' \in Seq(ReaderTasks) /\ ReaderCalls'
             /\ \A i \in DOMAIN readerQ' :
                    readerQ'[i].op \in SeekOps => readerQ'[i].seek <= SeekBound'
  <2>1. /\ readerQ' \in Seq(ReaderTasks) /\ Moves(readerQ, readerQ', 1, ReaderCallOps)
        /\ Moves(readerQ, readerQ', 1, SeekOps)
    BY <1>1, <1>6, TailMoves
  <2>2. ReaderCalls'
    BY <1>4, <2>1, ReaderCallsKept DEF Running
  <2>3. UNCHANGED SeekBound
    BY <1>4 DEF SeekBound
  <2>4. \A i \in DOMAIN readerQ' : readerQ'[i].op \in SeekOps => readerQ'[i].seek <= SeekBound'
    BY <1>4, <2>1, <2>3, SeeksKept DEF Running
  <2>. QED
    BY <2>1, <2>2, <2>4
<1>7. /\ readerQ' \in Seq(ReaderTasks) /\ ReaderCalls'
      /\ \A i \in DOMAIN readerQ' : readerQ'[i].op \in SeekOps => readerQ'[i].seek <= SeekBound'
  BY <1>3, <1>5, <1>6
<1>8. ReaderTypes'
  BY <1>7 DEF TypeOK, ReaderTypes, ReaderSeek, fileVars
<1>9. SerialsOrdered'
  BY <1>4, <1>7 DEF Running, SerialsOrdered, SeekBound
<1>10. ClientTypes' /\ PlayerTypes' /\ DecoderTypes' /\ QueueTypes' /\ FaultTypes'
  BY DEF TypeOK, ClientTypes, PlayerTypes, DecoderTypes, QueueTypes, FaultTypes,
     Packets, ReaderSeek, clientVars, playerVars, decoderVars, queueVars, threadVars,
     loopVars, renderVars
<1>11. ChecksHold' /\ NoDanglingAccess' /\ NullOnlyAfterInvalidConfig'
  BY DEF ChecksHold, NoDanglingAccess, NullOnlyAfterInvalidConfig, ReaderSeek
<1>12. /\ PlayerHead' /\ InitFirst' /\ DecoderCalls' /\ Starting' /\ ThreadsExist'
       /\ LoopsAlive' /\ QueueHasRoom'
  BY DEF Running, PlayerHead, InitFirst, DecoderCalls, Starting, ThreadsExist,
     LoopsAlive, QueueHasRoom, ReaderSeek, clientVars, playerVars, fileVars, decoderVars,
     queueVars, threadVars, loopVars, renderVars
<1>. QED
  BY <1>7, <1>8, <1>9, <1>10, <1>11, <1>12 DEF IInv, TypeOK, Running

\* The second half of the seek task takes a serial the player has begun.
LEMMA SeekToKept ==
  ASSUME TypeOK, Running, fault = "none", SeekTo
  PROVE  IInv'
<1>1. /\ readerQ \in Seq(ReaderTasks) /\ readerQ # <<>> /\ Head(readerQ).op = "SeekTo"
      /\ 1 \in DOMAIN readerQ /\ readerQ[1] = Head(readerQ)
  BY ReaderHead DEF TypeOK, ReaderTypes, SeekTo, Runs
<1>2. Head(readerQ).seek \in Nat
  <2>1. Head(readerQ) \in ReaderTasks
    BY <1>1, HeadTailProperties
  <2>. QED
    BY <2>1 DEF ReaderTasks
<1>3. /\ readerQ' \in Seq(ReaderTasks) /\ Moves(readerQ, readerQ', 1, ReaderCallOps)
      /\ Moves(readerQ, readerQ', 1, SeekOps)
  BY <1>1, TailMoves DEF SeekTo
<1>4. ReaderTypes'
  BY <1>2, <1>3 DEF TypeOK, ReaderTypes, SeekTo, SerialOf
<1>5. ReaderCalls'
  BY <1>3, ReaderCallsKept DEF SeekTo, playerVars, Running
<1>6. SerialsOrdered'
  <2>1. UNCHANGED <<seekId, SeekBound, playerPc, isInit, serial, inflight, queue>>
    BY DEF SeekTo, SeekBound, playerVars, decoderVars, loopVars, queueVars
  <2>2. \A i \in DOMAIN readerQ' : readerQ'[i].op \in SeekOps => readerQ'[i].seek <= SeekBound'
    BY <1>3, <2>1, SeeksKept DEF Running
  <2>3. readerSerial' <= SeekBound'
    BY <1>1, <2>1 DEF SeekTo, SerialOf, Running, SerialsOrdered, SeekOps
  <2>. QED
    BY <2>1, <2>2, <2>3 DEF Running, SerialsOrdered
<1>7. ClientTypes' /\ PlayerTypes' /\ DecoderTypes' /\ QueueTypes' /\ FaultTypes'
  BY DEF TypeOK, ClientTypes, PlayerTypes, DecoderTypes, QueueTypes, FaultTypes,
     Packets, SeekTo, clientVars, playerVars, decoderVars, queueVars, threadVars,
     loopVars, renderVars
<1>8. ChecksHold' /\ NoDanglingAccess' /\ NullOnlyAfterInvalidConfig'
  BY DEF ChecksHold, NoDanglingAccess, NullOnlyAfterInvalidConfig, SeekTo,
     clientVars, playerVars, decoderVars, queueVars, threadVars, loopVars, renderVars
<1>9. /\ PlayerHead' /\ InitFirst' /\ DecoderCalls' /\ Starting' /\ ThreadsExist'
      /\ LoopsAlive' /\ QueueHasRoom'
  BY DEF Running, PlayerHead, InitFirst, DecoderCalls, Starting, ThreadsExist,
     LoopsAlive, QueueHasRoom, SeekTo, clientVars, playerVars, decoderVars,
     queueVars, threadVars, loopVars, renderVars
<1>. QED
  BY <1>4, <1>5, <1>6, <1>7, <1>8, <1>9 DEF IInv, TypeOK, Running

\* The task of UnInitReader answers the player.
LEMMA UnInitReaderKept ==
  ASSUME TypeOK, Running, fault = "none", UnInitReader
  PROVE  IInv'
<1>1. PlayerTypes'
  BY DEF UnInitReader, PlayerTypes, PlayerPcs, TypeOK
<1>2. ReaderTypes'
  BY DEF UnInitReader, Runs, fileVars, ReaderTypes, TypeOK
<1>3. PlayerHead' /\ InitFirst'
  BY DEF UnInitReader, Runs, clientVars, fileVars, renderVars, PlayerHead, InitFirst,
     PcOp, TypeOK, ReaderCalls, PlayerTypes, ReaderTypes, ReaderCall, DecoderCall,
     DecoderOps, Running
<1>4. ReaderCalls' /\ DecoderCalls'
  BY DEF UnInitReader, Runs, decoderVars, threadVars, renderVars, ReaderCalls,
     DecoderCalls, ReaderCall, DecoderCall, Running
<1>5. Starting' /\ ThreadsExist' /\ LoopsAlive'
  <2>1. playerPc = "uninitReader" /\ playerPc' = "uninitReaderDone"
    BY ReaderHead DEF UnInitReader, Running, ReaderCalls, ReaderCall
  <2>2. UNCHANGED <<state, seekId, serial, isInit, renderAlive, reader, readerThread, decoderThread>>
    BY DEF UnInitReader, fileVars, decoderVars, threadVars, loopVars, renderVars
  <2>. QED
    BY <2>1, <2>2 DEF Running, Starting, ThreadsExist, LoopsAlive, PcOp
<1>6. SerialsOrdered'
  <2>1. /\ readerQ \in Seq(ReaderTasks) /\ readerQ # <<>> /\ Head(readerQ).op = "UnInitReader"
        /\ readerQ' = Tail(readerQ)
    BY DEF UnInitReader, Runs, TypeOK, ReaderTypes
  <2>2. playerPc = "uninitReader" /\ playerPc' = "uninitReaderDone"
    BY ReaderHead DEF UnInitReader, Running, ReaderCalls, ReaderCall
  <2>3. UNCHANGED <<seekId, SeekBound, isInit, serial, readerSerial, inflight, queue>>
    BY <2>2 DEF UnInitReader, SeekBound, fileVars, decoderVars, queueVars, threadVars, loopVars
  <2>4. readerQ' \in Seq(ReaderTasks) /\ Moves(readerQ, readerQ', 1, SeekOps)
    BY <2>1, TailMoves
  <2>5. \A i \in DOMAIN readerQ' : readerQ'[i].op \in SeekOps => readerQ'[i].seek <= SeekBound'
    BY <2>3, <2>4, SeeksKept DEF Running
  <2>. QED
    BY <2>2, <2>3, <2>5, Zenon DEF Running, SerialsOrdered
<1>7. ClientTypes' /\ DecoderTypes' /\ QueueTypes' /\ FaultTypes'
  BY DEF TypeOK, ClientTypes, DecoderTypes, QueueTypes, FaultTypes, Packets,
     UnInitReader, clientVars, fileVars, decoderVars, queueVars, threadVars, loopVars,
     renderVars
<1>8. ChecksHold' /\ NoDanglingAccess' /\ NullOnlyAfterInvalidConfig'
  BY DEF ChecksHold, NoDanglingAccess, NullOnlyAfterInvalidConfig, UnInitReader,
     clientVars, fileVars, decoderVars, queueVars, threadVars, loopVars, renderVars
<1>9. QueueHasRoom'
  BY DEF Running, QueueHasRoom, UnInitReader, clientVars, fileVars, decoderVars,
     queueVars, threadVars, loopVars, renderVars
<1>. QED
  BY <1>1, <1>2, <1>3, <1>4, <1>5, <1>6, <1>7, <1>8, <1>9 DEF IInv, TypeOK, Running

\* The reader thread ends with an empty queue.
LEMMA ReaderExitsKept ==
  ASSUME TypeOK, Running, fault = "none", ReaderExits
  PROVE  IInv'
<1>1. ReaderTypes'
  BY DEF ReaderExits, fileVars, ReaderTypes, Threads, TypeOK
<1>2. InitFirst'
  BY DEF ReaderExits, clientVars, playerVars, InitFirst, Running
<1>3. ThreadsExist'
  BY DEF ReaderExits, playerVars, decoderVars, threadVars, ThreadsExist, Running
<1>4. ClientTypes' /\ PlayerTypes' /\ DecoderTypes' /\ QueueTypes' /\ FaultTypes'
  BY DEF TypeOK, ClientTypes, PlayerTypes, DecoderTypes, QueueTypes, FaultTypes,
     Packets, ReaderExits, clientVars, playerVars, fileVars, decoderVars, queueVars,
     threadVars, loopVars, renderVars
<1>5. ChecksHold' /\ NoDanglingAccess' /\ NullOnlyAfterInvalidConfig'
  BY DEF ChecksHold, NoDanglingAccess, NullOnlyAfterInvalidConfig, ReaderExits,
     clientVars, playerVars, fileVars, decoderVars, queueVars, threadVars, loopVars,
     renderVars
<1>6. /\ PlayerHead' /\ ReaderCalls' /\ DecoderCalls' /\ Starting' /\ LoopsAlive'
      /\ SerialsOrdered' /\ QueueHasRoom'
  BY DEF Running, PlayerHead, ReaderCalls, DecoderCalls, Starting, LoopsAlive,
     SerialsOrdered, QueueHasRoom, SeekBound, ReaderExits, clientVars, playerVars,
     fileVars, decoderVars, queueVars, threadVars, loopVars, renderVars
<1>. QED
  BY <1>1, <1>2, <1>3, <1>4, <1>5, <1>6 DEF IInv, TypeOK, Running

\* A delayed ReadPacket becomes due.
LEMMA ReaderTimerFiresKept ==
  ASSUME TypeOK, Running, fault = "none", ReaderTimerFires
  PROVE  IInv'
<1>1. ReaderTypes'
  <2>1. ReaderTask("ReadPacket", 0) \in ReaderTasks
    BY TaskTypes DEF ReaderOps, TypeOK, PlayerTypes
  <2>2. readerQ' \in Seq(ReaderTasks)
    BY <2>1, AppendProperties DEF TypeOK, ReaderTypes, ReaderTimerFires
  <2>. QED
    BY <2>2 DEF TypeOK, ReaderTypes, ReaderTimerFires, fileVars
<1>2. ReaderCalls'
  BY DEF ReaderTimerFires, ReaderTask, playerVars, ReaderCalls, ReaderCall, Running
<1>3. SerialsOrdered'
  <2>1. /\ readerQ' = Post("running", readerQ, ReaderTask("ReadPacket", 0))
        /\ UNCHANGED <<seekId, playerPc, isInit, serial, readerSerial, inflight, queue>>
    BY DEF ReaderTimerFires, Post, playerVars, fileVars, decoderVars, queueVars, loopVars
  <2>2. readerQ \in Seq(ReaderTasks) /\ ReaderTask("ReadPacket", 0) \in ReaderTasks
    BY TaskTypes DEF ReaderOps, TypeOK, ReaderTypes
  <2>3. readerQ' \in Seq(ReaderTasks) /\ Moves(readerQ, readerQ', 0, SeekOps)
    BY <2>1, <2>2, SameMoves, PostMoves DEF ReaderTask, SeekOps
  <2>4. \A i \in DOMAIN readerQ' :
          readerQ'[i].op \in SeekOps => readerQ'[i].seek <= SeekBound'
    BY <2>1, <2>3, SeeksKept DEF Running, SeekBound
  <2>. QED
    BY <2>1, <2>4 DEF SerialsOrdered, SeekBound, Running
<1>4. ClientTypes' /\ PlayerTypes' /\ DecoderTypes' /\ QueueTypes' /\ FaultTypes'
  BY DEF TypeOK, ClientTypes, PlayerTypes, DecoderTypes, QueueTypes, FaultTypes,
     Packets, ReaderTimerFires, clientVars, playerVars, fileVars, decoderVars,
     queueVars, threadVars, loopVars, renderVars
<1>5. ChecksHold' /\ NoDanglingAccess' /\ NullOnlyAfterInvalidConfig'
  BY DEF ChecksHold, NoDanglingAccess, NullOnlyAfterInvalidConfig, ReaderTimerFires,
     clientVars, playerVars, fileVars, decoderVars, queueVars, threadVars, loopVars,
     renderVars
<1>6. /\ PlayerHead' /\ InitFirst' /\ DecoderCalls' /\ Starting' /\ ThreadsExist'
      /\ LoopsAlive' /\ QueueHasRoom'
  BY DEF Running, PlayerHead, InitFirst, DecoderCalls, Starting, ThreadsExist,
     LoopsAlive, QueueHasRoom, ReaderTimerFires, clientVars, playerVars, fileVars,
     decoderVars, queueVars, threadVars, loopVars, renderVars
<1>. QED
  BY <1>1, <1>2, <1>3, <1>4, <1>5, <1>6 DEF IInv, TypeOK, Running

\* The task of InitDecoder starts loops that have a reader and a render, at serial 0.
LEMMA InitDecoderKept ==
  ASSUME TypeOK, Running, fault = "none", InitDecoder
  PROVE  IInv'
<1>1. PlayerTypes'
  BY DEF InitDecoder, PlayerTypes, PlayerPcs, TypeOK
<1>2. DecoderTypes'
  <2>1. /\ decoderQ \in Seq(DecoderTasks) /\ decoderQ # <<>>
        /\ Tail(decoderQ) \in Seq(DecoderTasks)
    BY HeadTailProperties DEF TypeOK, DecoderTypes, InitDecoder, DecoderRuns, Runs
  <2>2. PostLoops(Tail(decoderQ)) \in Seq(DecoderTasks)
    BY <2>1, TaskTypes, AppendProperties DEF PostLoops
  <2>3. decoderQ' \in Seq(DecoderTasks)
    BY <2>1, <2>2 DEF InitDecoder
  <2>4. /\ isInit' \in [Streams -> BOOLEAN] /\ renderAlive' \in [Streams -> BOOLEAN]
        /\ rendering' \in BOOLEAN
    BY DEF InitDecoder, TypeOK, DecoderTypes
  <2>. QED
    BY <2>3, <2>4 DEF InitDecoder, TypeOK, DecoderTypes
<1>3. PlayerHead' /\ InitFirst'
  <2>1. playerPc = "initDecoder" /\ playerPc' = "initDecoderDone"
    BY DecoderHead DEF InitDecoder, DecoderRuns, Running, DecoderCalls, DecoderCall
  <2>2. UNCHANGED <<clientPc, state, playerThread, playerQ, readerThread, decoderThread>>
    BY DEF InitDecoder, clientVars, readerVars
  <2>. QED
    BY <2>1, <2>2 DEF Running, PlayerHead, InitFirst, PcOp
<1>4. ReaderCalls' /\ DecoderCalls'
  <2>1. /\ 1 \in DOMAIN decoderQ /\ decoderQ[1].op = "InitDecoder" /\ Head(decoderQ) = decoderQ[1]
        /\ decoderQ # <<>> /\ decoderQ \in Seq(DecoderTasks)
    BY DecoderHead DEF InitDecoder, DecoderRuns, Runs, TypeOK, DecoderTypes
  <2>2. playerPc = "initDecoder"
    BY <2>1 DEF Running, DecoderCalls, DecoderCall
  <2>3. /\ Tail(decoderQ) \in Seq(DecoderTasks)
        /\ Moves(decoderQ, Tail(decoderQ), 1, DecoderCallOps)
    BY <2>1, TailMoves
  <2>4. ASSUME NEW q \in Seq(DecoderTasks), Moves(decoderQ, q, 1, DecoderCallOps),
               NEW s \in Streams
        PROVE  /\ Append(q, Process(s)) \in Seq(DecoderTasks)
               /\ Moves(decoderQ, Append(q, Process(s)), 1, DecoderCallOps)
    <3>1. Process(s) \in DecoderTasks /\ Process(s).op \notin DecoderCallOps
      BY TaskTypes DEF Process, DecoderCallOps
    <3>2. Append(q, Process(s)) = Post("running", q, Process(s))
      BY DEF Post
    <3>. QED
      BY <2>1, <2>4, <3>1, <3>2, PostMoves
  <2>5. /\ PostLoops(Tail(decoderQ)) \in Seq(DecoderTasks)
        /\ Moves(decoderQ, PostLoops(Tail(decoderQ)), 1, DecoderCallOps)
    BY <2>3, <2>4 DEF PostLoops
  <2>6. decoderQ' \in Seq(DecoderTasks) /\ Moves(decoderQ, decoderQ', 1, DecoderCallOps)
    BY <2>3, <2>5 DEF InitDecoder
  <2>7. DecoderCalls'
    BY <2>1, <2>6, DecoderCallsKept DEF Running, DecoderCallOps
  <2>8. \A i \in DOMAIN readerQ : ~ReaderCall(readerQ[i].op)
    BY <2>2 DEF Running, ReaderCalls, ReaderCall
  <2>9. ReaderCalls'
    BY <2>8 DEF InitDecoder, readerVars, ReaderCalls
  <2>. QED
    BY <2>7, <2>9
<1>5. Starting' /\ ThreadsExist' /\ LoopsAlive'
  BY DEF InitDecoder, DecoderRuns, readerVars, Runs, fileVars, Starting, ThreadsExist,
     LoopsAlive, PcOp, Running
<1>6. SerialsOrdered'
  <2>1. playerPc = "initDecoder" /\ playerPc' = "initDecoderDone"
    BY DecoderHead DEF InitDecoder, DecoderRuns, Running, DecoderCalls, DecoderCall
  <2>2. /\ UNCHANGED <<seekId, serial, readerQ, readerSerial, inflight, queue>>
        /\ SeekBound' = SeekBound
    BY <2>1 DEF InitDecoder, readerVars, fileVars, queueVars, SeekBound
  <2>3. \A s \in Streams : serial[s] = seekId
    BY <2>1 DEF Running, Starting
  <2>. QED
    BY <2>1, <2>2, <2>3 DEF SerialsOrdered, Running
<1>7. ClientTypes' /\ ReaderTypes' /\ QueueTypes' /\ FaultTypes'
  BY DEF TypeOK, ClientTypes, ReaderTypes, QueueTypes, FaultTypes, Reads, Packets,
     InitDecoder, clientVars, readerVars, queueVars, fileVars
<1>8. ChecksHold' /\ NoDanglingAccess' /\ NullOnlyAfterInvalidConfig'
  BY DEF ChecksHold, NoDanglingAccess, NullOnlyAfterInvalidConfig, InitDecoder,
     clientVars, readerVars, queueVars, fileVars
<1>9. QueueHasRoom'
  BY DEF Running, QueueHasRoom, InitDecoder, clientVars, readerVars, queueVars, fileVars
<1>. QED
  BY <1>1, <1>2, <1>3, <1>4, <1>5, <1>6, <1>7, <1>8, <1>9 DEF IInv, TypeOK, Running

\* The tasks of PlayInternal and PauseInternal reach the renders.
LEMMA SetRenderingKept ==
  ASSUME TypeOK, Running, fault = "none",
     NEW op \in {"Play", "Pause"}, NEW on \in BOOLEAN, SetRendering(op, on)
  PROVE  IInv'
<1>1. DecoderTypes'
  BY DEF SetRendering, DecoderRuns, loopVars, Runs, DecoderTypes, TypeOK
<1>2. DecoderCalls'
  <2>1. /\ decoderQ' \in Seq(DecoderTasks) /\ Moves(decoderQ, decoderQ', 1, DecoderCallOps)
    BY TailMoves DEF SetRendering, DecoderRuns, Runs, TypeOK, DecoderTypes
  <2>. QED
    BY <2>1, DecoderCallsKept DEF SetRendering, playerVars, Running
<1>3. ClientTypes' /\ PlayerTypes' /\ ReaderTypes' /\ QueueTypes' /\ FaultTypes'
  BY DEF TypeOK, ClientTypes, PlayerTypes, ReaderTypes, QueueTypes, FaultTypes, Reads,
     Packets, SetRendering, clientVars, playerVars, readerVars, loopVars, queueVars,
     fileVars
<1>4. ChecksHold' /\ NoDanglingAccess' /\ NullOnlyAfterInvalidConfig'
  BY DEF ChecksHold, NoDanglingAccess, NullOnlyAfterInvalidConfig, SetRendering,
     clientVars, playerVars, readerVars, loopVars, queueVars, fileVars
<1>5. /\ PlayerHead' /\ InitFirst' /\ ReaderCalls' /\ Starting' /\ ThreadsExist'
      /\ LoopsAlive' /\ SerialsOrdered' /\ QueueHasRoom'
  BY DEF Running, PlayerHead, InitFirst, ReaderCalls, Starting, ThreadsExist,
     LoopsAlive, SerialsOrdered, QueueHasRoom, SeekBound, SetRendering, clientVars,
     playerVars, readerVars, loopVars, queueVars, fileVars
<1>. QED
  BY <1>1, <1>2, <1>3, <1>4, <1>5 DEF IInv, TypeOK, Running

\* The loops are told a serial that is greater than theirs.
LEMMA DecoderSeekKept ==
  ASSUME TypeOK, Running, fault = "none", DecoderSeek
  PROVE  IInv'
<1>1. PlayerTypes'
  BY DEF DecoderSeek, PlayerTypes, PlayerPcs, TypeOK
<1>2. ReaderTypes'
  BY DEF DecoderSeek, readerVars, fileVars, ReaderTypes, TypeOK
<1>3. DecoderTypes'
  BY DEF DecoderSeek, DecoderRuns, Runs, DecoderTypes, TypeOK, PlayerTypes
<1>4. QueueTypes'
  BY DEF DecoderSeek, QueueTypes, TypeOK
<1>5. ChecksHold' /\ NoDanglingAccess' /\ NullOnlyAfterInvalidConfig'
  <2>1. playerPc = "seek"
    BY DecoderHead DEF DecoderSeek, DecoderRuns, Running, DecoderCalls, DecoderCall
  <2>2. \A s \in Streams : isInit[s] => serial[s] = seekId - 1
    BY <2>1 DEF Running, SerialsOrdered
  <2>3. ~ \E s \in Streams : isInit[s] /\ seekId <= serial[s]
    BY <2>2 DEF TypeOK, PlayerTypes
  <2>. QED
    BY <2>3 DEF DecoderSeek, ChecksHold, NoDanglingAccess, NullOnlyAfterInvalidConfig
<1>6. ASSUME fault' = "none" PROVE PlayerHead' /\ InitFirst'
  <2>1. playerPc = "seek" /\ playerPc' = "seekDone"
    BY DecoderHead DEF DecoderSeek, DecoderRuns, Running, DecoderCalls, DecoderCall
  <2>2. UNCHANGED <<clientPc, state, playerThread, playerQ, readerThread, decoderThread>>
    BY DEF DecoderSeek, clientVars, readerVars
  <2>. QED
    BY <2>1, <2>2 DEF Running, PlayerHead, InitFirst, PcOp
<1>7. ASSUME fault' = "none" PROVE ReaderCalls' /\ DecoderCalls'
  <2>1. /\ decoderQ' \in Seq(DecoderTasks) /\ Moves(decoderQ, decoderQ', 1, DecoderCallOps)
    BY TailMoves DEF DecoderSeek, DecoderRuns, Runs, TypeOK, DecoderTypes
  <2>2. /\ 1 \in DOMAIN decoderQ /\ decoderQ[1].op = "Seek" /\ Head(decoderQ) = decoderQ[1]
        /\ decoderQ # <<>>
    BY DecoderHead DEF DecoderSeek, DecoderRuns, Runs
  <2>3. DecoderCalls'
    BY <2>1, <2>2, DecoderCallsKept DEF Running, DecoderCallOps
  <2>4. playerPc = "seek"
    BY <2>2 DEF Running, DecoderCalls, DecoderCall
  <2>5. \A i \in DOMAIN readerQ : ~ReaderCall(readerQ[i].op)
    BY <2>4 DEF Running, ReaderCalls, ReaderCall
  <2>6. ReaderCalls'
    BY <2>5 DEF DecoderSeek, readerVars, ReaderCalls
  <2>. QED
    BY <2>3, <2>6
<1>8. ASSUME fault' = "none" PROVE Starting' /\ ThreadsExist' /\ LoopsAlive'
  BY <1>8 DEF DecoderSeek, DecoderRuns, readerVars, Runs, fileVars, Starting,
     ThreadsExist, LoopsAlive, PcOp, Running
<1>9. ASSUME fault' = "none" PROVE SerialsOrdered' /\ QueueHasRoom'
  <2>1. playerPc = "seek"
    <3>1. 1 \in DOMAIN decoderQ /\ decoderQ[1].op = "Seek"
      BY DecoderHead DEF DecoderSeek, DecoderRuns
    <3>. QED
      BY <3>1 DEF Running, DecoderCalls, DecoderCall
  <2>2. playerPc' = "seekDone" /\ UNCHANGED <<seekId, isInit, readerQ, readerSerial, inflight>>
    BY DEF DecoderSeek, readerVars, fileVars
  <2>3. SeekBound' = SeekBound
    BY <2>1, <2>2 DEF SeekBound
  <2>4. ASSUME NEW s \in Streams
        PROVE  queue'[s] = <<>> /\ DOMAIN queue'[s] = {} /\ Len(queue'[s]) = 0
    BY DEF DecoderSeek
  <2>5. ASSUME NEW s \in Streams, isInit'[s]
        PROVE  serial'[s] = seekId
    BY <2>2, <2>5 DEF DecoderSeek
  <2>6. SerialsOrdered'
    BY <2>2, <2>3, <2>4, <2>5 DEF Running, SerialsOrdered
  <2>7. QueueHasRoom'
    BY <2>4 DEF QueueHasRoom
  <2>. QED
    BY <2>6, <2>7
<1>10. FaultTypes'
  BY DEF FaultTypes, DecoderSeek
<1>11. ClientTypes'
  BY DEF TypeOK, ClientTypes, DecoderSeek, clientVars, readerVars, fileVars
<1>. QED
  BY <1>1, <1>2, <1>3, <1>4, <1>5, <1>6, <1>7, <1>8, <1>9, <1>10, <1>11 DEF IInv, TypeOK, Running

\* A loop that goes on after UnInitDecoder keeps its render.
LEMMA UnInitDecoderKept ==
  ASSUME TypeOK, Running, fault = "none", UnInitDecoder
  PROVE  IInv'
<1>1. PlayerTypes'
  BY DEF UnInitDecoder, PlayerTypes, PlayerPcs, TypeOK
<1>2. ReaderTypes'
  BY DEF UnInitDecoder, readerVars, fileVars, ReaderTypes, TypeOK
<1>3. DecoderTypes'
  <2>1. decoderQ' \in Seq(DecoderTasks)
    BY HeadTailProperties DEF TypeOK, DecoderTypes, UnInitDecoder, DecoderRuns, Runs
  <2>2. isInit' \in [Streams -> BOOLEAN] /\ renderAlive' \in [Streams -> BOOLEAN]
    BY DEF UnInitDecoder, RendersLeft, TypeOK, DecoderTypes
  <2>3. serial' \in [Streams -> Nat]
    BY DEF UnInitDecoder, TypeOK, DecoderTypes
  <2>. QED
    BY <2>1, <2>2, <2>3 DEF UnInitDecoder, TypeOK, DecoderTypes
<1>4. QueueTypes'
  BY DEF UnInitDecoder, queueVars, QueueTypes, TypeOK
<1>5. PlayerHead' /\ InitFirst'
  BY DEF UnInitDecoder, DecoderRuns, RendersLeft, clientVars, readerVars, queueVars,
     Runs, fileVars, PlayerHead, InitFirst, PcOp, TypeOK, ReaderCalls, DecoderCalls,
     ClientTypes, DecoderTypes, QueueTypes, ReaderCall, DecoderCall, DecoderOps, Running
<1>6. ReaderCalls' /\ DecoderCalls'
  <2>1. /\ decoderQ \in Seq(DecoderTasks) /\ decoderQ # <<>> /\ decoderQ' = Tail(decoderQ)
        /\ Head(decoderQ).op = "UnInitDecoder"
    BY DEF UnInitDecoder, DecoderRuns, Runs, TypeOK, DecoderTypes
  <2>2. playerPc = "uninitDecoder" /\ UNCHANGED readerQ
    BY DecoderHead DEF UnInitDecoder, DecoderRuns, Running, DecoderCalls, DecoderCall, readerVars
  <2>3. Moves(decoderQ, decoderQ', 1, DecoderCallOps) /\ decoderQ' \in Seq(DecoderTasks)
    BY <2>1, TailMoves
  <2>4. DecoderCalls'
    BY <2>1, <2>3, DecoderCallsKept DEF Running, DecoderCallOps
  <2>5. ReaderCalls'
    BY <2>2 DEF Running, ReaderCalls, ReaderCall
  <2>. QED
    BY <2>4, <2>5
<1>7. Starting' /\ ThreadsExist' /\ LoopsAlive'
  <2>1. playerPc = "uninitDecoder" /\ playerPc' = "uninitDecoderDone"
    BY DecoderHead DEF UnInitDecoder, DecoderRuns, Running, DecoderCalls, DecoderCall
  <2>2. UNCHANGED <<state, reader, readerThread, decoderThread>>
    BY DEF UnInitDecoder, readerVars, fileVars
  <2>3. \A s \in Streams : isInit'[s] => isInit[s] /\ s = "audio"
    BY DEF UnInitDecoder
  <2>4. \A s \in Streams : s = "audio" => renderAlive'[s] = renderAlive[s]
    BY DEF UnInitDecoder, RendersLeft, TypeOK, DecoderTypes
  <2>5. LoopsAlive'
    BY <2>1, <2>2, <2>3, <2>4 DEF Running, LoopsAlive
  <2>. QED
    BY <2>1, <2>2, <2>5 DEF Running, Starting, ThreadsExist, PcOp
<1>8. SerialsOrdered'
  <2>1. playerPc = "uninitDecoder" /\ playerPc' = "uninitDecoderDone"
    <3>1. 1 \in DOMAIN decoderQ /\ decoderQ[1].op = "UnInitDecoder"
      BY DecoderHead DEF UnInitDecoder, DecoderRuns
    <3>. QED
      BY <3>1 DEF Running, DecoderCalls, DecoderCall, UnInitDecoder
  <2>2. UNCHANGED <<seekId, SeekBound, readerQ, readerSerial, inflight, queue>>
    BY <2>1 DEF UnInitDecoder, SeekBound, readerVars, fileVars, queueVars
  <2>3. ASSUME NEW s \in Streams, isInit'[s]
        PROVE  serial'[s] = seekId
    BY <2>1, <2>3 DEF UnInitDecoder, Running, SerialsOrdered
  <2>. QED
    BY <2>1, <2>2, <2>3 DEF Running, SerialsOrdered
<1>9. ClientTypes' /\ FaultTypes'
  BY DEF TypeOK, ClientTypes, FaultTypes, UnInitDecoder, clientVars, readerVars,
     queueVars, fileVars
<1>10. ChecksHold' /\ NoDanglingAccess' /\ NullOnlyAfterInvalidConfig'
  BY DEF ChecksHold, NoDanglingAccess, NullOnlyAfterInvalidConfig, UnInitDecoder,
     clientVars, readerVars, queueVars, fileVars
<1>11. QueueHasRoom'
  BY DEF Running, QueueHasRoom, UnInitDecoder, clientVars, readerVars, queueVars,
     fileVars
<1>. QED
  BY <1>1, <1>2, <1>3, <1>4, <1>5, <1>6, <1>7, <1>8, <1>9, <1>10, <1>11 DEF IInv, TypeOK, Running

\* The decoder thread ends with an empty queue.
LEMMA DecoderExitsKept ==
  ASSUME TypeOK, Running, fault = "none", DecoderExits
  PROVE  IInv'
<1>1. DecoderTypes'
  BY DEF DecoderExits, loopVars, renderVars, DecoderTypes, Threads, TypeOK
<1>2. InitFirst'
  BY DEF DecoderExits, clientVars, playerVars, InitFirst, Running
<1>3. ThreadsExist'
  BY DEF DecoderExits, playerVars, ThreadsExist, Running
<1>4. ClientTypes' /\ PlayerTypes' /\ ReaderTypes' /\ QueueTypes' /\ FaultTypes'
  BY DEF TypeOK, ClientTypes, PlayerTypes, ReaderTypes, QueueTypes, FaultTypes, Reads,
     Packets, DecoderExits, clientVars, playerVars, readerVars, loopVars, renderVars,
     queueVars, fileVars
<1>5. ChecksHold' /\ NoDanglingAccess' /\ NullOnlyAfterInvalidConfig'
  BY DEF ChecksHold, NoDanglingAccess, NullOnlyAfterInvalidConfig, DecoderExits,
     clientVars, playerVars, readerVars, loopVars, renderVars, queueVars, fileVars
<1>6. /\ PlayerHead' /\ ReaderCalls' /\ DecoderCalls' /\ Starting' /\ LoopsAlive'
      /\ SerialsOrdered' /\ QueueHasRoom'
  BY DEF Running, PlayerHead, ReaderCalls, DecoderCalls, Starting, LoopsAlive,
     SerialsOrdered, QueueHasRoom, SeekBound, DecoderExits, clientVars, playerVars,
     readerVars, loopVars, renderVars, queueVars, fileVars
<1>. QED
  BY <1>1, <1>2, <1>3, <1>4, <1>5, <1>6 DEF IInv, TypeOK, Running

\* A loop that was uninitialised ends.
LEMMA ProcessExitKept ==
  ASSUME TypeOK, Running, fault = "none", NEW s \in Streams, ProcessExit(s)
  PROVE  IInv'
<1>1. DecoderTypes'
  BY DEF ProcessExit, Processes, ProcessReturns, clientVars, loopVars, renderVars,
     queueVars, DecoderRuns, fileVars, Runs, DecoderTypes, TypeOK
<1>2. DecoderCalls'
  <2>1. decoderQ' \in Seq(DecoderTasks) /\ Moves(decoderQ, decoderQ', 1, DecoderCallOps)
    BY ProcessReturnsMoves DEF ProcessExit
  <2>. QED
    BY <2>1, DecoderCallsKept DEF ProcessExit, playerVars, Running
<1>3. ClientTypes' /\ PlayerTypes' /\ ReaderTypes' /\ QueueTypes' /\ FaultTypes'
  BY DEF TypeOK, ClientTypes, PlayerTypes, ReaderTypes, QueueTypes, FaultTypes, Reads,
     Packets, ProcessExit, clientVars, playerVars, readerVars, loopVars, renderVars,
     queueVars, fileVars
<1>4. ChecksHold' /\ NoDanglingAccess' /\ NullOnlyAfterInvalidConfig'
  BY DEF ChecksHold, NoDanglingAccess, NullOnlyAfterInvalidConfig, ProcessExit,
     clientVars, playerVars, readerVars, loopVars, renderVars, queueVars, fileVars
<1>5. /\ PlayerHead' /\ InitFirst' /\ ReaderCalls' /\ Starting' /\ ThreadsExist'
      /\ LoopsAlive' /\ SerialsOrdered' /\ QueueHasRoom'
  BY DEF Running, PlayerHead, InitFirst, ReaderCalls, Starting, ThreadsExist,
     LoopsAlive, SerialsOrdered, QueueHasRoom, SeekBound, ProcessExit, clientVars,
     playerVars, readerVars, loopVars, renderVars, queueVars, fileVars
<1>. QED
  BY <1>1, <1>2, <1>3, <1>4, <1>5 DEF IInv, TypeOK, Running

\* A frame goes to a render that exists.
LEMMA SendFrameKept ==
  ASSUME TypeOK, Running, fault = "none", NEW s \in Streams, SendFrame(s)
  PROVE  IInv'
<1>1. DecoderTypes'
  <2>1. decoderQ' \in Seq(DecoderTasks) /\ decoderTimer' \in SUBSET Streams
    BY ProcessReturnsMoves DEF SendFrame
  <2>2. /\ codec' \in [Streams -> {"empty", "holding", "draining"}]
        /\ pending' \in [Streams -> BOOLEAN]
    BY DEF SendFrame, DecoderTypes, TypeOK
  <2>. QED
    BY <2>1, <2>2 DEF SendFrame, DecoderTypes, TypeOK, renderVars
<1>2. ChecksHold' /\ NoDanglingAccess' /\ NullOnlyAfterInvalidConfig'
  <2>1. fault' = "none"
    BY DEF SendFrame, Running, LoopsAlive
  <2>. QED
    BY <2>1 DEF ChecksHold, NoDanglingAccess, NullOnlyAfterInvalidConfig
<1>3. ASSUME fault' = "none" PROVE DecoderCalls'
  <2>1. /\ decoderQ' \in Seq(DecoderTasks) /\ Moves(decoderQ, decoderQ', 1, DecoderCallOps)
        /\ decoderQ # <<>>
    BY ProcessReturnsMoves DEF SendFrame, Processes, DecoderRuns, Runs
  <2>2. UNCHANGED playerPc
    BY DEF SendFrame, playerVars
  <2>. QED
    BY <2>1, <2>2, DecoderCallsKept DEF Running
<1>4. FaultTypes'
  BY DEF FaultTypes, SendFrame
<1>5. ClientTypes' /\ PlayerTypes' /\ ReaderTypes' /\ QueueTypes'
  BY DEF TypeOK, ClientTypes, PlayerTypes, ReaderTypes, QueueTypes, Reads, Packets,
     SendFrame, clientVars, playerVars, readerVars, renderVars, queueVars, fileVars
<1>6. /\ PlayerHead' /\ InitFirst' /\ ReaderCalls' /\ Starting' /\ ThreadsExist'
      /\ LoopsAlive' /\ SerialsOrdered' /\ QueueHasRoom'
  BY DEF Running, PlayerHead, InitFirst, ReaderCalls, Starting, ThreadsExist,
     LoopsAlive, SerialsOrdered, QueueHasRoom, SeekBound, SendFrame, clientVars,
     playerVars, readerVars, renderVars, queueVars, fileVars
<1>. QED
  BY <1>1, <1>2, <1>3, <1>4, <1>5, <1>6 DEF IInv, TypeOK, Running

\* A dropped packet leaves a shorter queue.
LEMMA DropPacketKept ==
  ASSUME TypeOK, Running, fault = "none", NEW s \in Streams, DropPacket(s)
  PROVE  IInv'
<1>1. QueueTypes'
  <2>1. /\ queue \in [Streams -> Seq(Packets)] /\ \A t \in Streams : Len(queue[t]) <= QueueBound
        /\ eof \in BOOLEAN
    BY DEF TypeOK, QueueTypes
  <2>2. queue' = [queue EXCEPT ![s] = Tail(@)] /\ queue[s] # <<>> /\ UNCHANGED eof
    BY DEF DropPacket
  <2>3. Tail(queue[s]) \in Seq(Packets) /\ Len(Tail(queue[s])) <= QueueBound
    BY <2>1, <2>2, HeadPacket
  <2>. QED
    BY <2>1, <2>2, <2>3 DEF QueueTypes
<1>2. ChecksHold' /\ NoDanglingAccess' /\ NullOnlyAfterInvalidConfig'
  BY AskingIsSafe DEF DropPacket, ChecksHold, NoDanglingAccess,
     NullOnlyAfterInvalidConfig
<1>3. ASSUME fault' = "none" PROVE SerialsOrdered' /\ QueueHasRoom'
  <2>1. /\ queue' = [queue EXCEPT ![s] = Tail(@)] /\ queue[s] # <<>>
        /\ UNCHANGED <<isInit, serial, seekId, playerPc, readerQ, readerSerial, inflight>>
    BY DEF DropPacket, playerVars, readerVars, loopVars, fileVars
  <2>. QED
    BY <2>1, PacketTaken DEF Running
<1>4. FaultTypes'
  BY AskingIsSafe DEF FaultTypes, DropPacket
<1>5. ClientTypes' /\ PlayerTypes' /\ ReaderTypes' /\ DecoderTypes'
  BY DEF TypeOK, ClientTypes, PlayerTypes, ReaderTypes, DecoderTypes, Reads, Packets,
     DropPacket, clientVars, playerVars, readerVars, threadVars, loopVars, renderVars,
     fileVars
<1>6. /\ PlayerHead' /\ InitFirst' /\ ReaderCalls' /\ DecoderCalls' /\ Starting'
      /\ ThreadsExist' /\ LoopsAlive'
  BY DEF Running, PlayerHead, InitFirst, ReaderCalls, DecoderCalls, Starting,
     ThreadsExist, LoopsAlive, DropPacket, clientVars, playerVars, readerVars,
     threadVars, loopVars, renderVars, fileVars
<1>. QED
  BY <1>1, <1>2, <1>3, <1>4, <1>5, <1>6 DEF IInv, TypeOK, Running

\* A packet goes to the codec.
LEMMA SendPacketKept ==
  ASSUME TypeOK, Running, fault = "none", NEW s \in Streams, SendPacket(s)
  PROVE  IInv'
<1>1. DecoderTypes'
  BY DEF SendPacket, threadVars, renderVars, DecoderTypes, TypeOK
<1>2. QueueTypes'
  <2>1. /\ queue \in [Streams -> Seq(Packets)] /\ \A t \in Streams : Len(queue[t]) <= QueueBound
        /\ eof \in BOOLEAN
    BY DEF TypeOK, QueueTypes
  <2>2. queue' = [queue EXCEPT ![s] = Tail(@)] /\ queue[s] # <<>> /\ UNCHANGED eof
    BY DEF SendPacket
  <2>3. Tail(queue[s]) \in Seq(Packets) /\ Len(Tail(queue[s])) <= QueueBound
    BY <2>1, <2>2, HeadPacket
  <2>. QED
    BY <2>1, <2>2, <2>3 DEF QueueTypes
<1>3. ChecksHold' /\ NoDanglingAccess' /\ NullOnlyAfterInvalidConfig'
  BY AskingIsSafe DEF SendPacket, ChecksHold, NoDanglingAccess,
     NullOnlyAfterInvalidConfig
<1>4. ASSUME fault' = "none" PROVE SerialsOrdered' /\ QueueHasRoom'
  BY PacketTaken DEF SendPacket, Running, playerVars, readerVars, fileVars, threadVars
<1>5. FaultTypes'
  BY AskingIsSafe DEF FaultTypes, SendPacket
<1>6. ClientTypes' /\ PlayerTypes' /\ ReaderTypes'
  BY DEF TypeOK, ClientTypes, PlayerTypes, ReaderTypes, Reads, Packets, SendPacket,
     clientVars, playerVars, readerVars, threadVars, renderVars, fileVars
<1>7. /\ PlayerHead' /\ InitFirst' /\ ReaderCalls' /\ DecoderCalls' /\ Starting'
      /\ ThreadsExist' /\ LoopsAlive'
  BY DEF Running, PlayerHead, InitFirst, ReaderCalls, DecoderCalls, Starting,
     ThreadsExist, LoopsAlive, SendPacket, clientVars, playerVars, readerVars,
     threadVars, renderVars, fileVars
<1>. QED
  BY <1>1, <1>2, <1>3, <1>4, <1>5, <1>6, <1>7 DEF IInv, TypeOK, Running

\* A refused packet is reported and the loop ends.
LEMMA CodecErrorKept ==
  ASSUME TypeOK, Running, fault = "none", NEW s \in Streams, CodecError(s)
  PROVE  IInv'
<1>1. PlayerTypes'
  <2>1. state' \in States /\ playerQ' \in Seq(PlayerTasks)
    BY SetErrorProperties DEF CodecError, TypeOK, PlayerTypes, States
  <2>. QED
    BY <2>1 DEF CodecError, TypeOK, PlayerTypes
<1>2. DecoderTypes'
  BY DEF CodecError, AsksForPacket, SetError, ProcessReturns, loopVars, renderVars,
     Processes, Post, fileVars, DecoderRuns, Runs, DecoderTypes, TypeOK
<1>3. QueueTypes'
  BY DEF CodecError, AsksForPacket, QueueTypes, TypeOK
<1>4. ChecksHold' /\ NoDanglingAccess' /\ NullOnlyAfterInvalidConfig'
  BY AskingIsSafe DEF CodecError, ChecksHold, NoDanglingAccess,
     NullOnlyAfterInvalidConfig
<1>5. ASSUME fault' = "none" PROVE PlayerHead' /\ InitFirst'
  BY <1>5 DEF CodecError, AsksForPacket, SetError, ProcessReturns, clientVars,
     Processes, Post, DecoderRuns, Runs, PlayerHead, InitFirst, Running
<1>6. ASSUME fault' = "none" PROVE DecoderCalls'
  <2>1. decoderQ' \in Seq(DecoderTasks) /\ Moves(decoderQ, decoderQ', 1, DecoderCallOps)
    BY ProcessReturnsMoves DEF CodecError, AsksForPacket
  <2>. QED
    BY <2>1, DecoderCallsKept DEF CodecError, Running
<1>7. ASSUME fault' = "none" PROVE Starting' /\ ThreadsExist'
  BY <1>7 DEF CodecError, AsksForPacket, SetError, Starting, ThreadsExist, Running
<1>8. ASSUME fault' = "none" PROVE SerialsOrdered' /\ QueueHasRoom'
  BY PacketTaken DEF CodecError, Running, readerVars, fileVars, loopVars
<1>9. FaultTypes'
  BY AskingIsSafe DEF FaultTypes, CodecError
<1>10. ClientTypes' /\ ReaderTypes'
  BY DEF TypeOK, ClientTypes, ReaderTypes, Reads, Packets, CodecError, clientVars,
     readerVars, loopVars, renderVars, fileVars
<1>11. ReaderCalls' /\ LoopsAlive'
  BY DEF Running, ReaderCalls, LoopsAlive, CodecError, clientVars, readerVars, loopVars,
     renderVars, fileVars
<1>. QED
  BY <1>1, <1>2, <1>3, <1>4, <1>5, <1>6, <1>7, <1>8, <1>9, <1>10, <1>11 DEF IInv, TypeOK, Running

\* A loop that found no packet comes again later.
LEMMA NoPacketYetKept ==
  ASSUME TypeOK, Running, fault = "none", NEW s \in Streams, NoPacketYet(s)
  PROVE  IInv'
<1>1. DecoderTypes'
  <2>1. decoderQ' \in Seq(DecoderTasks) /\ decoderTimer' \in SUBSET Streams
    BY ProcessReturnsMoves DEF NoPacketYet, AsksForPacket
  <2>. QED
    BY <2>1 DEF NoPacketYet, DecoderTypes, TypeOK, loopVars, renderVars
<1>2. ChecksHold' /\ NoDanglingAccess' /\ NullOnlyAfterInvalidConfig'
  BY AskingIsSafe DEF NoPacketYet, ChecksHold, NoDanglingAccess,
     NullOnlyAfterInvalidConfig
<1>3. ASSUME fault' = "none" PROVE DecoderCalls'
  BY <1>3 DEF NoPacketYet, AsksForPacket, ProcessReturns, clientVars, playerVars,
     readerVars, loopVars, renderVars, Processes, Post, Process, fileVars, DecoderRuns,
     Runs, DecoderCalls, DecoderCall, Running
<1>4. FaultTypes'
  BY AskingIsSafe DEF FaultTypes, NoPacketYet
<1>5. ClientTypes' /\ PlayerTypes' /\ ReaderTypes' /\ QueueTypes'
  BY DEF TypeOK, ClientTypes, PlayerTypes, ReaderTypes, QueueTypes, Reads, Packets,
     NoPacketYet, clientVars, playerVars, readerVars, loopVars, renderVars, queueVars,
     fileVars
<1>6. /\ PlayerHead' /\ InitFirst' /\ ReaderCalls' /\ Starting' /\ ThreadsExist'
      /\ LoopsAlive' /\ SerialsOrdered' /\ QueueHasRoom'
  BY DEF Running, PlayerHead, InitFirst, ReaderCalls, Starting, ThreadsExist,
     LoopsAlive, SerialsOrdered, QueueHasRoom, SeekBound, NoPacketYet, clientVars,
     playerVars, readerVars, loopVars, renderVars, queueVars, fileVars
<1>. QED
  BY <1>1, <1>2, <1>3, <1>4, <1>5, <1>6 DEF IInv, TypeOK, Running

\* The loop begins to drain its codec.
LEMMA DrainKept ==
  ASSUME TypeOK, Running, fault = "none", NEW s \in Streams, Drain(s)
  PROVE  IInv'
<1>1. DecoderTypes'
  BY DEF Drain, AsksForPacket, readerVars, threadVars, renderVars, DecoderTypes, TypeOK
<1>2. ChecksHold' /\ NoDanglingAccess' /\ NullOnlyAfterInvalidConfig'
  BY AskingIsSafe DEF Drain, ChecksHold, NoDanglingAccess, NullOnlyAfterInvalidConfig
<1>3. FaultTypes'
  BY AskingIsSafe DEF FaultTypes, Drain
<1>4. ClientTypes' /\ PlayerTypes' /\ ReaderTypes' /\ QueueTypes'
  BY DEF TypeOK, ClientTypes, PlayerTypes, ReaderTypes, QueueTypes, Reads, Packets,
     Drain, clientVars, playerVars, readerVars, threadVars, renderVars, queueVars,
     fileVars
<1>5. PlayerHead' /\ InitFirst' /\ ReaderCalls' /\ DecoderCalls'
  BY DEF Running, PlayerHead, InitFirst, ReaderCalls, DecoderCalls, Drain, clientVars,
     playerVars, readerVars, threadVars
<1>6. Starting' /\ ThreadsExist' /\ LoopsAlive'
  BY DEF Running, Starting, ThreadsExist, LoopsAlive, Drain, clientVars, playerVars,
     readerVars, threadVars, renderVars, queueVars, fileVars
<1>7. SerialsOrdered' /\ QueueHasRoom'
  BY DEF Running, SerialsOrdered, QueueHasRoom, SeekBound, Drain, playerVars,
     readerVars, threadVars, queueVars, fileVars
<1>. QED
  BY <1>1, <1>2, <1>3, <1>4, <1>5, <1>6, <1>7 DEF IInv, TypeOK, Running

\* A loop whose codec is drained ends.
LEMMA CompletedKept ==
  ASSUME TypeOK, Running, fault = "none", NEW s \in Streams, Completed(s)
  PROVE  IInv'
<1>1. DecoderTypes'
  <2>1. decoderQ' \in Seq(DecoderTasks) /\ decoderTimer' \in SUBSET Streams
    BY ProcessReturnsMoves DEF Completed
  <2>. QED
    BY <2>1 DEF Completed, DecoderTypes, TypeOK, loopVars, renderVars
<1>2. DecoderCalls'
  BY DEF Completed, Processes, ProcessReturns, clientVars, playerVars, DecoderRuns,
     Runs, DecoderCalls, DecoderCall, Running
<1>3. ClientTypes' /\ PlayerTypes' /\ ReaderTypes' /\ QueueTypes' /\ FaultTypes'
  BY DEF TypeOK, ClientTypes, PlayerTypes, ReaderTypes, QueueTypes, FaultTypes, Reads,
     Packets, Completed, clientVars, playerVars, readerVars, loopVars, renderVars,
     queueVars, fileVars
<1>4. ChecksHold' /\ NoDanglingAccess' /\ NullOnlyAfterInvalidConfig'
  BY DEF ChecksHold, NoDanglingAccess, NullOnlyAfterInvalidConfig, Completed,
     clientVars, playerVars, readerVars, loopVars, renderVars, queueVars, fileVars
<1>5. /\ PlayerHead' /\ InitFirst' /\ ReaderCalls' /\ Starting' /\ ThreadsExist'
      /\ LoopsAlive' /\ SerialsOrdered' /\ QueueHasRoom'
  BY DEF Running, PlayerHead, InitFirst, ReaderCalls, Starting, ThreadsExist,
     LoopsAlive, SerialsOrdered, QueueHasRoom, SeekBound, Completed, clientVars,
     playerVars, readerVars, loopVars, renderVars, queueVars, fileVars
<1>. QED
  BY <1>1, <1>2, <1>3, <1>4, <1>5 DEF IInv, TypeOK, Running

\* A delayed loop becomes due.
LEMMA DecoderTimerFiresKept ==
  ASSUME TypeOK, Running, fault = "none", NEW s \in Streams, DecoderTimerFires(s)
  PROVE  IInv'
<1>1. DecoderTypes'
  BY DEF DecoderTimerFires, Process, loopVars, renderVars, DecoderTypes, DecoderTasks,
     DecoderOps, TypeOK
<1>2. DecoderCalls'
  BY DEF DecoderTimerFires, Process, playerVars, DecoderCalls, DecoderCall, Running
<1>3. ClientTypes' /\ PlayerTypes' /\ ReaderTypes' /\ QueueTypes' /\ FaultTypes'
  BY DEF TypeOK, ClientTypes, PlayerTypes, ReaderTypes, QueueTypes, FaultTypes, Reads,
     Packets, DecoderTimerFires, clientVars, playerVars, readerVars, loopVars,
     renderVars, queueVars, fileVars
<1>4. ChecksHold' /\ NoDanglingAccess' /\ NullOnlyAfterInvalidConfig'
  BY DEF ChecksHold, NoDanglingAccess, NullOnlyAfterInvalidConfig, DecoderTimerFires,
     clientVars, playerVars, readerVars, loopVars, renderVars, queueVars, fileVars
<1>5. /\ PlayerHead' /\ InitFirst' /\ ReaderCalls' /\ Starting' /\ ThreadsExist'
      /\ LoopsAlive' /\ SerialsOrdered' /\ QueueHasRoom'
  BY DEF Running, PlayerHead, InitFirst, ReaderCalls, Starting, ThreadsExist,
     LoopsAlive, SerialsOrdered, QueueHasRoom, SeekBound, DecoderTimerFires, clientVars,
     playerVars, readerVars, loopVars, renderVars, queueVars, fileVars
<1>. QED
  BY <1>1, <1>2, <1>3, <1>4, <1>5 DEF IInv, TypeOK, Running

--------------------------------------------------------------------------------

\* The initial state: no thread but the player's, and nothing queued.
LEMMA InitIInv == Init => IInv
<1>. SUFFICES ASSUME Init PROVE IInv
  OBVIOUS
<1>1. /\ playerQ \in Seq(PlayerTasks) /\ readerQ \in Seq(ReaderTasks)
      /\ decoderQ \in Seq(DecoderTasks)
  BY EmptySeq DEF Init
<1>2. /\ queue \in [Streams -> Seq(Packets)]
      /\ \A s \in Streams : DOMAIN queue[s] = {} /\ Len(queue[s]) = 0
  BY EmptySeq DEF Init
<1>3. DOMAIN readerQ = {} /\ DOMAIN decoderQ = {}
  BY DEF Init
<1>4. inflight \in Reads /\ inflight.packet.serial = 0 /\ inflight.stream \notin Streams
  BY DEF Init, NoRead, Reads, Packet, Packets
<1>5. ClientTypes /\ PlayerTypes
  BY <1>1 DEF Init, ClientTypes, PlayerTypes, States, Threads, PlayerPcs
<1>6. ReaderTypes
  BY <1>1, <1>4 DEF Init, ReaderTypes, Threads
<1>7. DecoderTypes
  BY <1>1 DEF Init, DecoderTypes, Threads
<1>8. QueueTypes /\ FaultTypes
  <2>1. ASSUME NEW s \in Streams
        PROVE  Len(queue[s]) <= QueueBound
    <3>1. Len(queue[s]) = 0
      BY <1>2
    <3>. QED
      BY <3>1
  <2>2. eof \in BOOLEAN /\ FaultTypes
    BY DEF Init, FaultTypes
  <2>. QED
    BY <1>2, <2>1, <2>2 DEF QueueTypes
<1>9. ChecksHold /\ NoDanglingAccess /\ NullOnlyAfterInvalidConfig
  BY DEF Init, ChecksHold, NoDanglingAccess, NullOnlyAfterInvalidConfig
<1>10. PlayerHead /\ InitFirst
  BY DEF Init, PlayerHead, InitFirst
<1>11. ReaderCalls /\ DecoderCalls
  BY <1>3 DEF ReaderCalls, DecoderCalls
<1>12. Starting /\ ThreadsExist /\ LoopsAlive
  BY DEF Init, Starting, ThreadsExist, LoopsAlive
<1>13. SerialsOrdered /\ QueueHasRoom
  BY <1>2, <1>3, <1>4 DEF Init, SerialsOrdered, SeekBound, QueueHasRoom
<1>. QED
  BY <1>5, <1>6, <1>7, <1>8, <1>9, <1>10, <1>11, <1>12, <1>13 DEF IInv, TypeOK, Running

\* A step that changes nothing, which is all the program does after a fault.
LEMMA StutterKept ==
  ASSUME IInv, UNCHANGED vars
  PROVE  IInv'
<1>1. UNCHANGED <<clientVars, state, seekId, playerVars, readerVars, decoderVars, queueVars, fault>>
  BY DEF vars
<1>2. /\ UNCHANGED <<clientPc, calls, state, seekId, playerThread, playerQ, playerPc>>
      /\ UNCHANGED <<readerThread, readerQ, readerTimer, inflight>>
      /\ UNCHANGED <<reader, readerSerial, filePos, atEnd, refused>>
  BY <1>1 DEF clientVars, playerVars, readerVars, fileVars
<1>3. /\ UNCHANGED <<decoderThread, decoderQ, decoderTimer, isInit, serial, pending, codec>>
      /\ UNCHANGED <<renderAlive, rendering, timerSeekId, queue, eof, fault>>
  BY <1>1 DEF decoderVars, threadVars, loopVars, renderVars, queueVars
<1>4. TypeOK'
  BY <1>2, <1>3 DEF IInv, TypeOK, ClientTypes, PlayerTypes, ReaderTypes, DecoderTypes,
     QueueTypes, FaultTypes
<1>5. ChecksHold' /\ NoDanglingAccess' /\ NullOnlyAfterInvalidConfig'
  BY <1>2, <1>3 DEF IInv, ChecksHold, NoDanglingAccess, NullOnlyAfterInvalidConfig
<1>6. ASSUME Running PROVE Running'
  <2>1. PlayerHead' /\ InitFirst' /\ ReaderCalls' /\ DecoderCalls'
    BY <1>2, <1>3, <1>6 DEF Running, PlayerHead, InitFirst, ReaderCalls, DecoderCalls
  <2>2. Starting' /\ ThreadsExist' /\ LoopsAlive'
    BY <1>2, <1>3, <1>6 DEF Running, Starting, ThreadsExist, LoopsAlive
  <2>3. SerialsOrdered' /\ QueueHasRoom'
    BY <1>2, <1>3, <1>6 DEF Running, SerialsOrdered, SeekBound, QueueHasRoom
  <2>. QED
    BY <2>1, <2>2, <2>3 DEF Running
<1>. QED
  BY <1>3, <1>4, <1>5, <1>6 DEF IInv

\* Every step keeps the inductive invariant.
LEMMA NextIInv ==
  ASSUME IInv, [Next]_vars
  PROVE  IInv'
<1>1. CASE UNCHANGED vars
  BY <1>1, StutterKept
<1>2. CASE Ended
  BY <1>2, StutterKept DEF Ended
<1>3. CASE fault = "none" /\ ~UNCHANGED vars /\ ~Ended
  <2>. TypeOK /\ Running /\ fault = "none"
    BY <1>3 DEF IInv
  <2>1. CASE Client
    BY <2>1, CallInitKept, CallKept, CallUnInitKept, StopPlayerKept, JoinPlayerKept DEF Client
  <2>2. CASE PlayerStep
    BY <2>2, InitIgnoredKept, InitInvalidKept, InitReaderIfNeedKept, StartDecoderKept,
       PreparedKept, PlayInternalKept, PostPlayKept, SetPlayingKept, PauseInternalKept,
       PostPauseKept, SeekInternalKept, PostReaderSeekKept, UnInitInternalKept,
       QuitDecoderKept, JoinDecoderKept, QuitReaderKept, JoinReaderKept, OnErrorKept, PlayerExitsKept DEF PlayerStep
  <2>3. CASE ReaderStep
    BY <2>3, InitReaderKept, ReadExitKept, ReadHoldKept, ReadFrameKept, HandOverKept,
       ReaderSeekKept, SeekToKept, UnInitReaderKept, ReaderExitsKept DEF ReaderStep
  <2>4. CASE ReaderTimerFires
    BY <2>4, ReaderTimerFiresKept
  <2>5. CASE DecoderStep
    <3>1. CASE InitDecoder \/ DecoderSeek \/ UnInitDecoder \/ DecoderExits
      BY <3>1, InitDecoderKept, DecoderSeekKept, UnInitDecoderKept, DecoderExitsKept
    <3>2. CASE SetRendering("Play", TRUE) \/ SetRendering("Pause", FALSE)
      BY <3>2, SetRenderingKept
    <3>3. ASSUME NEW s \in Streams, ProcessInternal(s)
          PROVE  IInv'
      BY <3>3, ProcessExitKept, SendFrameKept, DropPacketKept, SendPacketKept,
         CodecErrorKept, NoPacketYetKept, DrainKept, CompletedKept DEF ProcessInternal
    <3>. QED
      BY <2>5, <3>1, <3>2, <3>3 DEF DecoderStep
  <2>6. ASSUME NEW s \in Streams, DecoderTimerFires(s)
        PROVE  IInv'
    BY <2>6, DecoderTimerFiresKept
  <2>. QED
    BY <1>3, <2>1, <2>2, <2>3, <2>4, <2>5, <2>6 DEF Next
<1>. QED
  BY <1>1, <1>2, <1>3 DEF Next

\* The invariant holds of every behaviour of the player, for any number of calls.
THEOREM SpecIInv == Spec => []IInv
  BY InitIInv, NextIInv, PTL DEF Spec

\* Every variable keeps its type, and no packet queue of a player outgrows its bound.
THEOREM SpecTypeOK == Spec => []TypeOK
<1>1. IInv => TypeOK
  BY DEF IInv
<1>. QED
  BY <1>1, SpecIInv, PTL

\* No packet ever overtakes the seek that reaches its decode loop: the assertions of
\* GetPacket, SetSerial and UnInitInternal hold.
THEOREM SpecChecksHold == Spec => []ChecksHold
<1>1. IInv => ChecksHold
  BY DEF IInv
<1>. QED
  BY <1>1, SpecIInv, PTL

\* No decode loop outlives the reader or the render it uses.
THEOREM SpecNoDanglingAccess == Spec => []NoDanglingAccess
<1>1. IInv => NoDanglingAccess
  BY DEF IInv
<1>. QED
  BY <1>1, SpecIInv, PTL

\* A call goes through a null task queue only after Init refused its config.
THEOREM SpecNullOnlyAfterInvalidConfig == Spec => []NullOnlyAfterInvalidConfig
<1>1. IInv => NullOnlyAfterInvalidConfig
  BY DEF IInv
<1>. QED
  BY <1>1, SpecIInv, PTL

-----------------------------------------------------------------------------
(* What the inductive invariant leaves to prove: where the packets come    *)
(* from, which seeks the reader follows, whether the renders play, and     *)
(* what is left when UnInit has returned.  Each has an invariant of its    *)
(* own that stands on IInv, and most actions leave its variables alone.    *)

HIDE StreamsAssumption
HIDE QueueBoundAssumption
HIDE MaxCallsAssumption
HIDE DEF SeekOps

\* A packet is from where its serial says, unless the seek of that number was refused.
IsPlaced(p) == p.origin = p.serial \/ p.serial \in refused

OriginInv ==
  /\ filePos = readerSerial \/ readerSerial \in refused
  /\ IsPlaced(inflight.packet)
  /\ \A s \in Streams : \A i \in DOMAIN queue[s] : IsPlaced(queue[s][i])

\* The clock and the loops count the same seeks.
ClockCounts ==
  /\ fault = "none" => timerSeekId = IF playerPc = "seek" THEN seekId - 1 ELSE seekId
  /\ \A s \in Streams : isInit[s] => serial[s] = timerSeekId

\* The seeks that the reader has still to look at come in their order, behind the one it followed.
SeeksAscend ==
  \A i \in DOMAIN readerQ : readerQ[i].op \in SeekOps =>
    /\ readerSerial < readerQ[i].seek
    /\ \A j \in DOMAIN readerQ :
         i < j /\ readerQ[j].op \in SeekOps => readerQ[i].seek < readerQ[j].seek

\* The reader thread takes the seeks as long as there is a decoder thread to tell of them.
ReaderAlive ==
  /\ decoderThread # "null" \/ playerPc \in {"initReader", "initReaderDone"} =>
       readerThread = "running"
  /\ readerThread = "exited" => readerQ = <<>>

\* So the newest seek is followed or not lost.
FollowInv ==
  /\ SeeksAscend /\ ReaderAlive
  /\ readerSerial = seekId \/ NewestIsOnItsWay

Switches == {"Play", "Pause"}

\* What the player says the renders do, outside the steps where the state is behind or ahead
SaysPlay  == state = "kPlaying" \/ playerPc = "played"
SaysPause == state = "kPaused" /\ playerPc \notin {"played", "paused"}

\* The last switch that is queued is to what the player says it does.
LastSwitch ==
  \A i \in DOMAIN decoderQ :
    /\ decoderQ[i].op \in Switches
    /\ \A j \in DOMAIN decoderQ : i < j => decoderQ[j].op \notin Switches
    => /\ SaysPlay => decoderQ[i].op = "Play"
       /\ SaysPause => decoderQ[i].op = "Pause"

\* Who says that it plays or stands still has a decoder thread that takes the switches.
SwitchInv ==
  /\ LastSwitch /\ RenderingFollowsState
  /\ decoderThread \in {"quitting", "exited"} => playerPc = "joinDecoder"
  /\ state \in {"kPrepared", "kPlaying", "kPaused"} \/ playerPc \in {"play", "played"} =>
       decoderThread = "running"
  /\ playerPc = "paused" => state # "kPlaying"
  /\ playerPc \in {"initReader", "initReaderDone", "initDecoder", "initDecoderDone"} =>
       state \in {"kIdle", "kError"}

\* UnInit is the last task of the client; behind it come only the reports of errors.
QuietInv ==
  /\ clientPc \in {"new", "using"} => \A i \in DOMAIN playerQ : playerQ[i].op # "UnInit"
  /\ \A i, j \in DOMAIN playerQ : playerQ[i].op = "UnInit" /\ i < j => playerQ[j].op = "OnError"
  /\ playerPc \in {"uninitReader", "uninitReaderDone", "joinReader"} => decoderThread = "null"
  /\ clientPc \in {"stop", "join", "released"} =>
       /\ \A i \in DOMAIN playerQ : playerQ[i].op = "OnError"
       /\ playerPc = "ready" /\ readerThread = "null" /\ decoderThread = "null"
  /\ playerThread = "exited" => playerQ = <<>>
  /\ clientPc = "released" => playerThread = "exited"

-----------------------------------------------------------------------------
(* What is left of a player.                                                 *)

\* All but the report of an error
Tasks == PlayerOps \ {"OnError"}

\* The end of a task of the player moves the others up by one.
LEMMA PlayerReturnsMoves ==
  ASSUME TypeOK, playerQ # <<>>, playerQ' = Tail(playerQ)
  PROVE  Moves(playerQ, playerQ', 1, Tasks)
<1>1. playerQ \in Seq(PlayerTasks)
  BY DEF TypeOK, PlayerTypes
<1>. QED
  BY <1>1, TailMoves

\* An error is reported behind what is queued.
LEMMA SetErrorMoves ==
  ASSUME NEW q \in Seq(PlayerTasks), NEW r \in Seq(PlayerTasks), NEW k \in {0, 1},
         Moves(q, r, k, Tasks), SetError(r)
  PROVE  Moves(q, playerQ', k, Tasks)
<1>1. Task("OnError") \in PlayerTasks /\ Task("OnError").op \notin Tasks
  BY TaskTypes DEF PlayerOps, Task, Tasks
<1>2. LET p == Post(playerThread, r, Task("OnError"))
      IN  p \in Seq(PlayerTasks) /\ Moves(q, p, k, Tasks)
  BY <1>1, PostMoves
<1>. QED
  BY <1>2 DEF SetError

\* Nobody but the client posts anything else to the player.
LEMMA PlayerQueueMoves ==
  ASSUME TypeOK, Running,
         \/ PlayerStep \/ ReaderStep \/ ReaderTimerFires \/ DecoderStep
         \/ \E s \in Streams : DecoderTimerFires(s)
  PROVE  \E k \in {0, 1} : Moves(playerQ, playerQ', k, Tasks)
<1>1. playerQ \in Seq(PlayerTasks)
  BY DEF TypeOK, PlayerTypes
<1>2. Moves(playerQ, playerQ, 0, Tasks)
  BY <1>1, SameMoves
<1>3. CASE PlayerStep
  <2>1. CASE InitInvalid
    <3>1. playerQ # <<>> /\ SetError(Tail(playerQ))
      BY <2>1 DEF InitInvalid, PlayerRuns, Runs
    <3>2. Tail(playerQ) \in Seq(PlayerTasks) /\ Moves(playerQ, Tail(playerQ), 1, Tasks)
      BY <1>1, <3>1, TailMoves
    <3>. QED
      BY <1>1, <3>1, <3>2, SetErrorMoves
  <2>2. CASE \/ InitIgnored \/ Prepared \/ SetPlaying \/ PostPause \/ PostReaderSeek
             \/ JoinReader \/ OnError
    <3>1. playerQ # <<>> /\ playerQ' = Tail(playerQ)
      BY <2>2 DEF InitIgnored, Prepared, SetPlaying, PostPause, PostReaderSeek, JoinReader,
         OnError, PlayerReturns, PlayerRuns, Runs, Running, PlayerHead
    <3>. QED
      BY <3>1, PlayerReturnsMoves
  <2>3. CASE \/ InitReaderIfNeed \/ StartDecoder \/ PostPlay \/ PauseInternal \/ SeekInternal
             \/ UnInitInternal \/ QuitDecoder \/ JoinDecoder \/ QuitReader \/ PlayerExits
    <3>1. playerQ' = playerQ
      BY <2>3 DEF InitReaderIfNeed, StartDecoder, PostPlay, PauseInternal, SeekInternal,
         UnInitInternal, QuitDecoder, JoinDecoder, QuitReader, PlayerExits
    <3>. QED
      BY <1>2, <3>1
  <2>4. CASE PlayInternal
    <3>1. playerQ # <<>> /\ (playerQ' = playerQ \/ playerQ' = Tail(playerQ))
      BY <2>4 DEF PlayInternal, PlayerReturns, PlayerRuns, Runs
    <3>. QED
      BY <1>2, <3>1, PlayerReturnsMoves
  <2>. QED
    BY <1>3, <2>1, <2>2, <2>3, <2>4 DEF PlayerStep
<1>4. CASE ReaderStep \/ ReaderTimerFires
  <2>1. CASE playerQ' = playerQ \/ SetError(playerQ)
    BY <1>1, <1>2, <2>1, SetErrorMoves
  <2>2. CASE SetError(Post(playerThread, playerQ, Task("OnError")))
    <3>1. Task("OnError") \in PlayerTasks /\ Task("OnError").op \notin Tasks
      BY TaskTypes DEF PlayerOps, Task, Tasks
    <3>2. LET p == Post(playerThread, playerQ, Task("OnError"))
          IN  p \in Seq(PlayerTasks) /\ Moves(playerQ, p, 0, Tasks)
      BY <1>1, <1>2, <3>1, PostMoves
    <3>. QED
      BY <1>1, <2>2, <3>2, SetErrorMoves
  <2>3. \/ playerQ' = playerQ \/ SetError(playerQ)
        \/ SetError(Post(playerThread, playerQ, Task("OnError")))
    BY <1>4 DEF ReaderStep, ReaderTimerFires, InitReader, ReadExit, ReadHold, ReadFrame, HandOver,
       ReaderSeek, SeekTo, UnInitReader, ReaderExits, playerVars
  <2>. QED
    BY <2>1, <2>2, <2>3
<1>5. CASE DecoderStep \/ \E s \in Streams : DecoderTimerFires(s)
  <2>1. playerQ' = playerQ \/ SetError(playerQ)
    BY <1>5 DEF DecoderStep, DecoderTimerFires, InitDecoder, SetRendering, DecoderSeek,
       UnInitDecoder, ProcessInternal, ProcessExit, SendFrame, DropPacket, SendPacket, CodecError,
       NoPacketYet, Drain, Completed, DecoderExits, playerVars
  <2>. QED
    BY <1>1, <1>2, <2>1, SetErrorMoves
<1>. QED
  BY <1>3, <1>4, <1>5

\* A step of the threads that does not come from the client
Inside ==
  \/ PlayerStep \/ ReaderStep \/ ReaderTimerFires \/ DecoderStep
  \/ \E s \in Streams : DecoderTimerFires(s)

\* Past UnInitInternal the player only delivers what errors it still has.
LEMMA GoneSteps ==
  ASSUME TypeOK, QuietInv, clientPc \in {"stop", "join", "released"}, Inside
  PROVE  OnError \/ PlayerExits
<1>1. playerPc = "ready" /\ readerThread = "null" /\ decoderThread = "null"
  BY DEF QuietInv
<1>2. ASSUME playerQ # <<>> PROVE Head(playerQ).op = "OnError"
  <2>1. playerQ \in Seq(PlayerTasks)
    BY DEF TypeOK, PlayerTypes
  <2>2. 1 \in DOMAIN playerQ /\ Head(playerQ) = playerQ[1]
    BY <1>2, <2>1, LenProperties, EmptySeq
  <2>. QED
    BY <2>2 DEF QuietInv
<1>3. ~ReaderStep /\ ~ReaderTimerFires
  BY <1>1 DEF ReaderStep, ReaderTimerFires, InitReader, ReadExit, ReadHold, ReadFrame, HandOver,
     ReaderSeek, SeekTo, UnInitReader, ReaderExits, Reading, Runs
<1>4. ~DecoderStep /\ \A s \in Streams : ~DecoderTimerFires(s)
  BY <1>1 DEF DecoderStep, DecoderTimerFires, InitDecoder, SetRendering, DecoderSeek,
     UnInitDecoder, ProcessInternal, ProcessExit, SendFrame, DropPacket, SendPacket, CodecError,
     NoPacketYet, Drain, Completed, DecoderExits, AsksForPacket, Processes, DecoderRuns, Runs
<1>5. PlayerStep
  BY <1>3, <1>4 DEF Inside
<1>. QED
  BY <1>1, <1>2, <1>5 DEF PlayerStep, InitIgnored, InitInvalid, InitReaderIfNeed, StartDecoder,
     Prepared, PlayInternal, PostPlay, SetPlaying, PauseInternal, PostPause, SeekInternal,
     PostReaderSeek, UnInitInternal, QuitDecoder, JoinDecoder, QuitReader, JoinReader,
     PlayerRuns, Runs

\* UnInit stays the last task while the player works.
LEMMA InsideKeepsQuiet ==
  ASSUME TypeOK, TypeOK', Running, QuietInv, Inside
  PROVE  QuietInv'
<1>1. PICK k \in {0, 1} : Moves(playerQ, playerQ', k, Tasks)
  BY PlayerQueueMoves DEF Inside
<1>2. /\ playerQ \in Seq(PlayerTasks) /\ playerQ' \in Seq(PlayerTasks)
      /\ DOMAIN playerQ \subseteq Nat /\ DOMAIN playerQ' \subseteq Nat
  <2>1. playerQ \in Seq(PlayerTasks) /\ playerQ' \in Seq(PlayerTasks)
    BY DEF TypeOK, PlayerTypes
  <2>. QED
    BY <2>1, LenProperties
<1>3. \/ UNCHANGED clientPc
      \/ JoinReader
  BY DEF Inside, PlayerStep, InitIgnored, InitInvalid, InitReaderIfNeed, StartDecoder,
     Prepared, PlayInternal, PostPlay, SetPlaying, PauseInternal, PostPause, SeekInternal,
     PostReaderSeek, UnInitInternal, QuitDecoder, JoinDecoder, QuitReader, OnError, PlayerExits,
     ReaderStep, ReaderTimerFires, InitReader, ReadExit, ReadHold, ReadFrame, HandOver,
     ReaderSeek, SeekTo, UnInitReader, ReaderExits, DecoderStep, DecoderTimerFires, InitDecoder,
     SetRendering, DecoderSeek, UnInitDecoder, ProcessInternal, ProcessExit, SendFrame,
     DropPacket, SendPacket, CodecError, NoPacketYet, Drain, Completed, DecoderExits, clientVars
<1>4. clientPc' \in {"new", "using"} => \A i \in DOMAIN playerQ' : playerQ'[i].op # "UnInit"
  BY <1>1, <1>3 DEF QuietInv, Moves, Tasks, PlayerOps, JoinReader
<1>5. \A i, j \in DOMAIN playerQ' : playerQ'[i].op = "UnInit" /\ i < j => playerQ'[j].op = "OnError"
  <2>. SUFFICES ASSUME NEW i \in DOMAIN playerQ', NEW j \in DOMAIN playerQ',
                       playerQ'[i].op = "UnInit", i < j
                PROVE  playerQ'[j].op = "OnError"
    OBVIOUS
  <2>1. i + k \in DOMAIN playerQ /\ playerQ[i + k].op = "UnInit"
    BY <1>1 DEF Moves, Tasks, PlayerOps
  <2>2. CASE j + k \in DOMAIN playerQ /\ playerQ'[j] = playerQ[j + k]
    <3>1. i + k < j + k
      BY <1>2
    <3>. QED
      BY <2>1, <2>2, <3>1 DEF QuietInv
  <2>3. CASE playerQ'[j].op \notin Tasks
    <3>1. playerQ'[j] \in PlayerTasks
      BY <1>2, LenProperties, ElementOfSeq
    <3>. QED
      BY <2>3, <3>1 DEF PlayerTasks, Tasks
  <2>. QED
    BY <1>1, <2>2, <2>3 DEF Moves
<1>6. playerPc' \in {"uninitReader", "uninitReaderDone", "joinReader"} => decoderThread' = "null"
  <2>1. CASE PlayerStep
    BY <2>1 DEF QuietInv, PlayerStep, InitIgnored, InitInvalid, InitReaderIfNeed, StartDecoder,
       Prepared, PlayInternal, PostPlay, SetPlaying, PauseInternal, PostPause, SeekInternal,
       PostReaderSeek, UnInitInternal, QuitDecoder, JoinDecoder, QuitReader, JoinReader,
       OnError, PlayerExits, PlayerReturns, PlayerRuns, decoderVars, threadVars
  <2>2. CASE ReaderStep \/ ReaderTimerFires
    <3>1. CASE UnInitReader
      BY <3>1, ReaderHead DEF UnInitReader, Running, ReaderCalls, ReaderCall, QuietInv,
         decoderVars, threadVars
    <3>2. CASE ~UnInitReader
      BY <2>2, <3>2 DEF ReaderStep, ReaderTimerFires, InitReader, ReadExit, ReadHold, ReadFrame,
         HandOver, ReaderSeek, SeekTo, ReaderExits, ReadPacketReturns, InitAfterFirstRead,
         QuietInv, playerVars, decoderVars, threadVars
    <3>. QED
      BY <3>1, <3>2
  <2>3. CASE DecoderStep \/ \E s \in Streams : DecoderTimerFires(s)
    BY <2>3 DEF QuietInv, DecoderStep, DecoderTimerFires, InitDecoder, SetRendering, DecoderSeek,
       UnInitDecoder, ProcessInternal, ProcessExit, SendFrame, DropPacket, SendPacket,
       CodecError, NoPacketYet, Drain, Completed, DecoderExits, playerVars, threadVars
  <2>. QED
    BY <2>1, <2>2, <2>3 DEF Inside
<1>7. clientPc' \in {"stop", "join", "released"} =>
        /\ \A i \in DOMAIN playerQ' : playerQ'[i].op = "OnError"
        /\ playerPc' = "ready" /\ readerThread' = "null" /\ decoderThread' = "null"
  <2>1. CASE JoinReader
    <3>1. playerQ # <<>> /\ Head(playerQ).op = "UnInit" /\ playerQ' = Tail(playerQ)
      BY <2>1 DEF JoinReader, PlayerReturns, Running, PlayerHead, PcOp
    <3>2. /\ 1 \in DOMAIN playerQ /\ Head(playerQ) = playerQ[1]
          /\ \A i \in DOMAIN playerQ' : i >= 1 /\ i + 1 \in DOMAIN playerQ /\ playerQ'[i] = playerQ[i + 1]
      BY <1>2, <3>1, HeadTailProperties, LenProperties, EmptySeq
    <3>3. ASSUME NEW i \in DOMAIN playerQ' PROVE playerQ'[i].op = "OnError"
      <4>1. 1 < i + 1
        BY <1>2, <3>2
      <4>. QED
        BY <3>1, <3>2, <4>1 DEF QuietInv
    <3>4. playerPc' = "ready" /\ readerThread' = "null" /\ decoderThread' = "null"
      BY <2>1 DEF JoinReader, PlayerReturns, QuietInv, decoderVars, threadVars
    <3>. QED
      BY <3>3, <3>4
  <2>2. CASE clientPc \in {"stop", "join", "released"}
    <3>1. OnError \/ PlayerExits
      BY <2>2, GoneSteps
    <3>2. playerPc' = "ready" /\ readerThread' = "null" /\ decoderThread' = "null"
      BY <2>2, <3>1 DEF QuietInv, OnError, PlayerExits, PlayerReturns, readerVars, decoderVars,
         threadVars
    <3>3. CASE OnError
      <4>1. playerQ # <<>> /\ playerQ' = Tail(playerQ)
        BY <3>3 DEF OnError, PlayerRuns, Runs, PlayerReturns
      <4>2. \A i \in DOMAIN playerQ' : i + 1 \in DOMAIN playerQ /\ playerQ'[i] = playerQ[i + 1]
        BY <1>2, <4>1, HeadTailProperties, LenProperties, EmptySeq
      <4>. QED
        BY <2>2, <3>2, <4>2 DEF QuietInv
    <3>4. CASE PlayerExits
      BY <2>2, <3>2, <3>4 DEF QuietInv, PlayerExits
    <3>. QED
      BY <3>1, <3>3, <3>4
  <2>. QED
    BY <1>3, <2>1, <2>2
<1>8. playerThread' = "exited" => playerQ' = <<>>
  <2>1. CASE playerThread \in {"quitting", "exited"}
    <3>1. clientPc \in {"stop", "join", "released"}
      BY <2>1 DEF Running, InitFirst, TypeOK, ClientTypes
    <3>2. OnError \/ PlayerExits
      BY <3>1, GoneSteps
    <3>. QED
      BY <2>1, <3>2 DEF QuietInv, OnError, PlayerExits, PlayerRuns, Runs
  <2>2. CASE playerThread \notin {"quitting", "exited"}
    <3>1. playerThread' = playerThread
      BY <2>2 DEF Inside, PlayerStep, InitIgnored, InitInvalid, InitReaderIfNeed, StartDecoder,
         Prepared, PlayInternal, PostPlay, SetPlaying, PauseInternal, PostPause, SeekInternal,
         PostReaderSeek, UnInitInternal, QuitDecoder, JoinDecoder, QuitReader, JoinReader,
         OnError, PlayerExits, ReaderStep, ReaderTimerFires,
         InitReader, ReadExit, ReadHold, ReadFrame, HandOver, ReaderSeek, SeekTo, UnInitReader,
         ReaderExits, DecoderStep, DecoderTimerFires, InitDecoder, SetRendering, DecoderSeek,
         UnInitDecoder, ProcessInternal, ProcessExit, SendFrame, DropPacket, SendPacket,
         CodecError, NoPacketYet, Drain, Completed, DecoderExits, playerVars
    <3>. QED
      BY <2>2, <3>1
  <2>. QED
    BY <2>1, <2>2
<1>9. clientPc' = "released" => playerThread' = "exited"
  <2>1. ASSUME clientPc' = "released" PROVE playerThread' = "exited"
    <3>1. clientPc = "released"
      BY <1>3, <2>1 DEF JoinReader
    <3>2. playerThread = "exited"
      BY <3>1 DEF QuietInv
    <3>. QED
      BY <3>1, <3>2, GoneSteps DEF OnError, PlayerExits
  <2>. QED
    BY <2>1
<1>. QED
  BY <1>4, <1>5, <1>6, <1>7, <1>8, <1>9 DEF QuietInv

\* The client posts UnInit once, and last.
LEMMA ClientKeepsQuiet ==
  ASSUME TypeOK, TypeOK', Running, QuietInv, Client
  PROVE  QuietInv'
<1>1. /\ playerQ \in Seq(PlayerTasks) /\ playerQ' \in Seq(PlayerTasks)
      /\ DOMAIN playerQ = 1 .. Len(playerQ) /\ Len(playerQ) \in Nat
  <2>1. playerQ \in Seq(PlayerTasks) /\ playerQ' \in Seq(PlayerTasks)
    BY DEF TypeOK, PlayerTypes
  <2>. QED
    BY <2>1, LenProperties
<1>2. ASSUME NEW op \in PlayerOps, playerQ' = Post(playerThread, playerQ, Task(op)),
             clientPc \in {"new", "using"}
      PROVE  \A i \in DOMAIN playerQ' :
               \/ i \in DOMAIN playerQ /\ playerQ'[i] = playerQ[i]
               \/ i = Len(playerQ) + 1 /\ playerQ'[i].op = op
  <2>1. playerThread = "running"
    BY <1>2 DEF Running, InitFirst
  <2>2. playerQ' = Append(playerQ, Task(op))
    BY <1>2, <2>1 DEF Post
  <2>3. Task(op) \in PlayerTasks /\ Task(op).op = op
    BY <1>2, TaskTypes DEF Task
  <2>4. /\ Len(playerQ') = Len(playerQ) + 1
        /\ \A i \in 1 .. Len(playerQ) : playerQ'[i] = playerQ[i]
        /\ playerQ'[Len(playerQ) + 1] = Task(op)
    BY <1>1, <2>2, <2>3, AppendProperties
  <2>5. DOMAIN playerQ' = 1 .. Len(playerQ) + 1
    BY <1>1, <2>4, LenProperties
  <2>. QED
    BY <1>1, <2>3, <2>4, <2>5
<1>3. CASE CallInit \/ \E op \in {"Init", "Play", "Pause", "Seek"} : Call(op)
  <2>1. PICK op \in {"Init", "Play", "Pause", "Seek"} :
          playerQ' = Post(playerThread, playerQ, Task(op))
    BY <1>3 DEF CallInit, Call, ClientPosts
  <2>2. clientPc \in {"new", "using"} /\ clientPc' = "using"
    BY <1>3 DEF CallInit, Call
  <2>3. \A i \in DOMAIN playerQ' : playerQ'[i].op # "UnInit"
    BY <2>1, <2>2, <1>2 DEF QuietInv, PlayerOps
  <2>4. UNCHANGED <<playerPc, decoderThread, playerThread>> /\ playerThread = "running"
    BY <1>3, <2>2 DEF CallInit, Call, ClientPosts, decoderVars, threadVars, Running, InitFirst
  <2>. QED
    BY <2>2, <2>3, <2>4 DEF QuietInv
<1>4. CASE CallUnInit
  <2>1. clientPc = "using" /\ clientPc' = "uninit"
    BY <1>4 DEF CallUnInit
  <2>2. \A i \in DOMAIN playerQ' :
          \/ i \in 1 .. Len(playerQ) /\ playerQ'[i].op # "UnInit"
          \/ i = Len(playerQ) + 1
    BY <1>1, <1>2, <1>4, <2>1 DEF CallUnInit, ClientPosts, QuietInv, PlayerOps
  <2>3. \A i, j \in DOMAIN playerQ' : playerQ'[i].op = "UnInit" => ~(i < j)
    BY <1>1, <2>2
  <2>4. UNCHANGED <<playerPc, decoderThread, playerThread>> /\ playerThread = "running"
    BY <1>4, <2>1 DEF CallUnInit, ClientPosts, decoderVars, threadVars, Running, InitFirst
  <2>. QED
    BY <2>1, <2>3, <2>4 DEF QuietInv
<1>5. CASE StopPlayer \/ JoinPlayer
  <2>1. UNCHANGED <<playerQ, playerPc, readerThread, decoderThread>>
    BY <1>5 DEF StopPlayer, JoinPlayer, playerVars, readerVars, decoderVars, threadVars
  <2>2. clientPc \in {"stop", "join"} /\ clientPc' \in {"join", "released"}
    BY <1>5 DEF StopPlayer, JoinPlayer
  <2>3. \/ playerThread' = "quitting" /\ clientPc' = "join"
        \/ playerThread' = "exited" /\ playerThread = "exited"
    BY <1>5 DEF StopPlayer, JoinPlayer, PlayerHasExited, playerVars
  <2>. QED
    BY <2>1, <2>2, <2>3 DEF QuietInv
<1>. QED
  BY <1>3, <1>4, <1>5 DEF Client

\* At first nothing is queued.
LEMMA InitQuiet == Init => QuietInv
  BY DEF Init, QuietInv

\* Every step keeps it.
LEMMA NextQuiet ==
  ASSUME IInv, IInv', QuietInv, [Next]_vars
  PROVE  QuietInv'
<1>1. CASE UNCHANGED vars
  BY <1>1 DEF vars, clientVars, playerVars, readerVars, decoderVars, threadVars, QuietInv
<1>2. CASE Ended
  BY <1>2, <1>1 DEF Ended
<1>3. ASSUME fault = "none", Client \/ Inside
      PROVE  QuietInv'
  <2>1. TypeOK /\ TypeOK' /\ Running
    BY <1>3 DEF IInv
  <2>. QED
    BY <1>3, <2>1, ClientKeepsQuiet, InsideKeepsQuiet
<1>4. Next => (fault = "none" /\ (Client \/ Inside)) \/ Ended
  BY DEF Next, Inside
<1>. QED
  BY <1>1, <1>2, <1>3, <1>4

\* UnInit is the client's last task in every behaviour.
LEMMA SpecQuiet == Spec => []QuietInv
  BY InitQuiet, NextQuiet, SpecIInv, PTL DEF Spec

\* When UnInit has returned, no thread and no callback of the player is left.
THEOREM SpecReleasedIsQuiet == Spec => []ReleasedIsQuiet
<1>1. QuietInv => ReleasedIsQuiet
  BY DEF QuietInv, ReleasedIsQuiet
<1>. QED
  BY <1>1, SpecQuiet, PTL

-----------------------------------------------------------------------------
(* Where the packets come from.                                              *)

\* InitReader takes over a seek_id_ that nobody has changed yet.
LEMMA InitReaderKeepsSerial ==
  ASSUME TypeOK, Running, InitReader
  PROVE  readerSerial' = readerSerial
<1>1. playerPc = "initReader"
  BY ReaderHead DEF InitReader, Running, ReaderCalls, ReaderCall
<1>. QED
  BY <1>1 DEF InitReader, Running, Starting, SerialsOrdered, SeekBound, TypeOK, ReaderTypes

\* What is taken from the front of a queue leaves the others as they were.
LEMMA TakenKeepsOrigin ==
  ASSUME TypeOK, OriginInv, NEW s \in Streams, queue[s] # <<>>,
         queue' = [queue EXCEPT ![s] = Tail(@)],
         UNCHANGED <<filePos, readerSerial, refused, inflight>>
  PROVE  OriginInv'
<1>1. queue \in [Streams -> Seq(Packets)]
  BY DEF TypeOK, QueueTypes
<1>2. ASSUME NEW t \in Streams, NEW i \in DOMAIN queue'[t]
      PROVE  IsPlaced(queue'[t][i])
  <2>1. CASE t = s
    BY <1>1, <1>2, <2>1, HeadPacket DEF OriginInv, IsPlaced
  <2>2. CASE t # s
    BY <1>1, <1>2, <2>2 DEF OriginInv, IsPlaced
  <2>. QED
    BY <2>1, <2>2
<1>. QED
  BY <1>2 DEF OriginInv, IsPlaced

\* A packet is from where the file was, until the queue has given it away.
LEMMA InsideKeepsOrigin ==
  ASSUME TypeOK, Running, OriginInv, Inside
  PROVE  OriginInv'
<1>1. CASE UNCHANGED <<filePos, readerSerial, refused, inflight, queue>>
  BY <1>1 DEF OriginInv, IsPlaced
<1>2. CASE InitReader
  BY <1>1, <1>2, InitReaderKeepsSerial DEF InitReader, queueVars
<1>3. CASE ReadFrame
  <2>1. UNCHANGED <<filePos, readerSerial, refused, queue>>
    BY <1>3 DEF ReadFrame, queueVars
  <2>2. \/ inflight'.packet = Packet(0, 0)
        \/ inflight'.packet = Packet(readerSerial, filePos)
    BY <1>3 DEF ReadFrame, ReadResults, NoRead
  <2>3. IsPlaced(Packet(0, 0)) /\ IsPlaced(Packet(readerSerial, filePos))
    BY DEF OriginInv, IsPlaced, Packet
  <2>. QED
    BY <2>1, <2>2, <2>3 DEF OriginInv, IsPlaced
<1>4. CASE HandOver
  <2>1. UNCHANGED <<filePos, readerSerial, refused>> /\ inflight' = NoRead
    BY <1>4 DEF HandOver, fileVars
  <2>2. IsPlaced(NoRead.packet)
    BY DEF NoRead, Packet, IsPlaced
  <2>3. queue \in [Streams -> Seq(Packets)] /\ inflight.packet \in Packets
    BY DEF TypeOK, QueueTypes, ReaderTypes, Reads
  <2>4. ASSUME NEW t \in Streams, NEW i \in DOMAIN queue'[t]
        PROVE  IsPlaced(queue'[t][i])
    <3>1. CASE queue'[t] = queue[t]
      BY <2>4, <3>1 DEF OriginInv
    <3>2. CASE queue'[t] # queue[t]
      <4>1. queue'[t] = Append(queue[t], inflight.packet)
        BY <1>4, <2>3, <3>2 DEF HandOver, Stamped
      <4>2. DOMAIN queue[t] = 1 .. Len(queue[t]) /\ Len(queue[t]) \in Nat
        BY <2>3, LenProperties
      <4>3. /\ i \in 1 .. Len(queue[t]) + 1
            /\ i \in 1 .. Len(queue[t]) => queue'[t][i] = queue[t][i]
            /\ i = Len(queue[t]) + 1 => queue'[t][i] = inflight.packet
        BY <2>3, <2>4, <4>1, AppendProperties, LenProperties
      <4>. QED
        BY <4>2, <4>3 DEF OriginInv
    <3>. QED
      BY <3>1, <3>2
  <2>. QED
    BY <2>1, <2>2, <2>4 DEF OriginInv, IsPlaced
<1>5. CASE SeekTo
  <2>1. UNCHANGED <<inflight, queue>> /\ refused \subseteq refused'
    BY <1>5 DEF SeekTo, queueVars
  <2>2. filePos' = readerSerial' \/ readerSerial' \in refused'
    BY <1>5 DEF SeekTo, SerialOf, OriginInv
  <2>. QED
    BY <2>1, <2>2 DEF OriginInv, IsPlaced
<1>6. CASE DecoderSeek
  BY <1>6 DEF DecoderSeek, readerVars, fileVars, OriginInv, IsPlaced
<1>7. CASE \E s \in Streams : DropPacket(s) \/ SendPacket(s) \/ CodecError(s)
  BY <1>7, TakenKeepsOrigin DEF DropPacket, SendPacket, CodecError, readerVars, fileVars
<1>8. \/ UNCHANGED <<filePos, readerSerial, refused, inflight, queue>>
      \/ InitReader \/ ReadFrame \/ HandOver \/ SeekTo \/ DecoderSeek
      \/ \E s \in Streams : DropPacket(s) \/ SendPacket(s) \/ CodecError(s)
  BY DEF Inside, PlayerStep, InitIgnored, InitInvalid, InitReaderIfNeed, StartDecoder,
     Prepared, PlayInternal, PostPlay, SetPlaying, PauseInternal, PostPause, SeekInternal,
     PostReaderSeek, UnInitInternal, QuitDecoder, JoinDecoder, QuitReader, JoinReader, OnError,
     PlayerExits, ReaderStep, ReaderTimerFires, ReadExit, ReadHold, ReaderSeek, UnInitReader,
     ReaderExits, DecoderStep, DecoderTimerFires, InitDecoder, SetRendering,
     UnInitDecoder, ProcessInternal, ProcessExit, SendFrame,
     NoPacketYet, Drain, Completed, DecoderExits, readerVars, fileVars, queueVars
<1>. QED
  BY <1>1, <1>2, <1>3, <1>4, <1>5, <1>6, <1>7, <1>8

\* The clock hears of a seek in the step the loops do.
LEMMA InsideKeepsClock ==
  ASSUME TypeOK, Running, fault = "none", ClockCounts, Inside
  PROVE  ClockCounts'
<1>. /\ seekId \in Nat /\ timerSeekId \in Nat
     /\ isInit \in [Streams -> BOOLEAN] /\ serial \in [Streams -> Nat]
  BY DEF TypeOK, PlayerTypes, DecoderTypes
<1>1. CASE /\ UNCHANGED <<timerSeekId, seekId, isInit, serial>>
           /\ playerPc' = playerPc \/ (playerPc # "seek" /\ playerPc' # "seek")
  BY <1>1 DEF ClockCounts
<1>2. CASE SeekInternal
  BY <1>2 DEF SeekInternal, PlayerRuns, NullCheck, loopVars, renderVars, ClockCounts
<1>3. CASE DecoderSeek
  <2>1. playerPc = "seek"
    BY <1>3, DecoderHead DEF DecoderSeek, DecoderRuns, Running, DecoderCalls, DecoderCall
  <2>2. timerSeekId' = seekId /\ playerPc' = "seekDone" /\ seekId' = seekId
    BY <1>3, <2>1 DEF DecoderSeek, ClockCounts
  <2>3. isInit' = isInit /\ \A s \in Streams : isInit[s] => serial'[s] = seekId
    BY <1>3 DEF DecoderSeek
  <2>. QED
    BY <2>2, <2>3 DEF ClockCounts
<1>4. CASE InitDecoder
  <2>1. playerPc = "initDecoder"
    BY <1>4, DecoderHead DEF InitDecoder, DecoderRuns, Running, DecoderCalls, DecoderCall
  <2>2. seekId = 0 /\ \A s \in Streams : serial[s] = 0
    BY <2>1 DEF Running, Starting
  <2>3. UNCHANGED <<timerSeekId, seekId, serial>> /\ playerPc' = "initDecoderDone"
    BY <1>4 DEF InitDecoder
  <2>. QED
    BY <2>1, <2>2, <2>3 DEF ClockCounts
<1>5. CASE UnInitDecoder
  <2>1. playerPc = "uninitDecoder"
    BY <1>5, DecoderHead DEF UnInitDecoder, DecoderRuns, Running, DecoderCalls, DecoderCall
  <2>2. UNCHANGED <<timerSeekId, seekId>> /\ playerPc' = "uninitDecoderDone"
    BY <1>5 DEF UnInitDecoder
  <2>3. \A s \in Streams : isInit'[s] => isInit[s] /\ serial'[s] = serial[s]
    BY <1>5 DEF UnInitDecoder
  <2>. QED
    BY <2>1, <2>2, <2>3 DEF ClockCounts
<1>6. CASE JoinDecoder
  BY <1>6 DEF JoinDecoder, ClockCounts
<1>7. CASE \/ InitReader \/ ReadExit \/ ReadHold \/ ReadFrame \/ HandOver \/ ReaderSeek
           \/ SeekTo \/ UnInitReader \/ ReaderExits \/ ReaderTimerFires
  <2>1. playerPc' = playerPc \/ (playerPc # "seek" /\ playerPc' # "seek")
    <3>1. CASE ReadExit \/ ReadHold \/ HandOver
      BY <3>1, FirstReadPc DEF ReadExit, ReadHold, HandOver, Running
    <3>2. CASE UnInitReader
      BY <3>2, ReaderHead DEF UnInitReader, Running, ReaderCalls, ReaderCall
    <3>3. CASE \/ InitReader \/ ReadFrame \/ ReaderSeek \/ SeekTo
               \/ ReaderExits \/ ReaderTimerFires
      BY <3>3 DEF InitReader, ReadFrame, ReaderSeek, SeekTo, ReaderExits, ReaderTimerFires,
         playerVars
    <3>. QED
      BY <1>7, <3>1, <3>2, <3>3
  <2>2. UNCHANGED <<timerSeekId, seekId, isInit, serial>>
    BY <1>7 DEF InitReader, ReadExit, ReadHold, ReadFrame, HandOver, ReaderSeek, SeekTo,
       UnInitReader, ReaderExits, ReaderTimerFires, decoderVars, loopVars, renderVars
  <2>. QED
    BY <1>1, <2>1, <2>2
<1>8. CASE \/ InitIgnored \/ InitInvalid \/ InitReaderIfNeed \/ StartDecoder \/ Prepared
           \/ PlayInternal \/ PostPlay \/ SetPlaying \/ PauseInternal \/ PostPause
           \/ PostReaderSeek \/ UnInitInternal
           \/ QuitDecoder \/ QuitReader \/ JoinReader \/ OnError \/ PlayerExits
  <2>1. playerPc' = playerPc \/ (playerPc # "seek" /\ playerPc' # "seek")
    BY <1>8 DEF InitIgnored, InitInvalid, InitReaderIfNeed, StartDecoder, Prepared,
       PlayInternal, PostPlay, SetPlaying, PauseInternal, PostPause, PostReaderSeek,
       UnInitInternal, QuitDecoder, QuitReader, JoinReader, OnError, PlayerExits, PlayerReturns,
       PlayerRuns
  <2>2. UNCHANGED <<timerSeekId, seekId, isInit, serial>>
    BY <1>8 DEF InitIgnored, InitInvalid, InitReaderIfNeed, StartDecoder, Prepared,
       PlayInternal, PostPlay, SetPlaying, PauseInternal, PostPause, PostReaderSeek,
       UnInitInternal, QuitDecoder, QuitReader, JoinReader, OnError, PlayerExits, decoderVars,
       loopVars, renderVars
  <2>. QED
    BY <1>1, <2>1, <2>2
<1>9. CASE \/ SetRendering("Play", TRUE) \/ SetRendering("Pause", FALSE) \/ DecoderExits
           \/ \E s \in Streams : ProcessInternal(s) \/ DecoderTimerFires(s)
  BY <1>1, <1>9 DEF SetRendering, DecoderExits, ProcessInternal, DecoderTimerFires, ProcessExit,
     SendFrame, DropPacket, SendPacket, CodecError, NoPacketYet, Drain, Completed, playerVars,
     loopVars, renderVars
<1>. QED
  BY <1>2, <1>3, <1>4, <1>5, <1>6, <1>7, <1>8, <1>9
  DEF Inside, PlayerStep, ReaderStep, DecoderStep

\* At first nothing was read and nothing seeked.
LEMMA InitOrigin == Init => OriginInv /\ ClockCounts
  BY DEF Init, OriginInv, ClockCounts, IsPlaced, NoRead, Packet

\* Every step keeps where packets come from and what the clock counts.
LEMMA NextOrigin ==
  ASSUME IInv, OriginInv, ClockCounts, [Next]_vars
  PROVE  OriginInv' /\ ClockCounts'
<1>1. CASE UNCHANGED <<readerVars, queue, playerPc, seekId, decoderVars, fault>>
  BY <1>1 DEF readerVars, fileVars, decoderVars, loopVars, renderVars, OriginInv, ClockCounts,
     IsPlaced
<1>2. CASE UNCHANGED vars \/ Ended \/ Client
  BY <1>1, <1>2 DEF vars, Ended, playerVars, queueVars, Client, CallInit, Call, CallUnInit,
     StopPlayer, JoinPlayer, ClientPosts
<1>3. CASE fault = "none" /\ Inside
  BY <1>3, InsideKeepsOrigin, InsideKeepsClock DEF IInv
<1>. QED
  BY <1>2, <1>3 DEF Next, Inside

\* No decode loop accepts a packet that was read before the newest seek it was told of,
\* unless the file refused that seek.
THEOREM SpecAcceptedPacketsAreCurrent == Spec => []AcceptedPacketsAreCurrent
<1>1. OriginInv /\ ClockCounts => AcceptedPacketsAreCurrent
  BY DEF OriginInv, ClockCounts, AcceptedPacketsAreCurrent, IsPlaced
<1>. QED
  BY <1>1, InitOrigin, NextOrigin, SpecIInv, PTL DEF Spec

-----------------------------------------------------------------------------
(* Which seeks the reader follows.                                           *)

\* q becomes r by losing its first k tasks: all the others are there still.
Keeps(q, r, k) == \A j \in DOMAIN q : j > k => j - k \in DOMAIN r /\ r[j - k] = q[j]

\* A task that ends
LEMMA TailKeeps ==
  ASSUME NEW S, NEW q \in Seq(S), q # <<>>
  PROVE  Keeps(q, Tail(q), 1)
<1>1. /\ Tail(q) \in Seq(S) /\ Len(Tail(q)) = Len(q) - 1 /\ Len(q) \in Nat
      /\ \A i \in 1 .. Len(Tail(q)) : Tail(q)[i] = q[i + 1]
      /\ DOMAIN Tail(q) = 1 .. Len(Tail(q)) /\ DOMAIN q = 1 .. Len(q)
  BY HeadTailProperties, LenProperties
<1>2. ASSUME NEW j \in DOMAIN q, j > 1
      PROVE  j - 1 \in DOMAIN Tail(q) /\ Tail(q)[j - 1] = q[j]
  <2>1. j - 1 \in 1 .. Len(Tail(q)) /\ (j - 1) + 1 = j
    BY <1>1, <1>2
  <2>. QED
    BY <1>1, <2>1
<1>. QED
  BY <1>2 DEF Keeps

\* A task that is posted behind them
LEMMA PostKeeps ==
  ASSUME NEW S, NEW q \in Seq(S), NEW r \in Seq(S), NEW k \in {0, 1},
         NEW t \in S, NEW thread, Keeps(q, r, k)
  PROVE  Keeps(q, Post(thread, r, t), k)
<1>1. /\ Post(thread, r, t) \in Seq(S)
      /\ Len(Post(thread, r, t)) \in {Len(r), Len(r) + 1}
      /\ \A i \in 1 .. Len(r) : Post(thread, r, t)[i] = r[i]
  BY PostProperties
<1>2. /\ DOMAIN r = 1 .. Len(r) /\ Len(r) \in Nat
      /\ DOMAIN Post(thread, r, t) = 1 .. Len(Post(thread, r, t))
  BY <1>1, LenProperties
<1>3. DOMAIN r \subseteq DOMAIN Post(thread, r, t)
  <2>1. \A m \in Nat : \A n \in {m, m + 1} : 1 .. m \subseteq 1 .. n
    OBVIOUS
  <2>. QED
    BY <1>1, <1>2, <2>1
<1>. QED
  BY <1>1, <1>2, <1>3 DEF Keeps

\* A queue that nobody touches
LEMMA SameKeeps ==
  ASSUME NEW S, NEW q \in Seq(S)
  PROVE  Keeps(q, q, 0)
<1>1. DOMAIN q \subseteq Nat
  BY LenProperties
<1>. QED
  BY <1>1 DEF Keeps

\* A queue that only moves keeps its seeks in their order.
LEMMA MovedSeeksAscend ==
  ASSUME TypeOK, SeeksAscend, readerSerial' = readerSerial, readerQ' \in Seq(ReaderTasks),
         NEW k \in {0, 1}, Moves(readerQ, readerQ', k, SeekOps)
  PROVE  SeeksAscend'
<1>1. DOMAIN readerQ' \subseteq Nat
  BY LenProperties
<1>2. \A i \in DOMAIN readerQ' : readerQ'[i].op \in SeekOps =>
        i + k \in DOMAIN readerQ /\ readerQ'[i] = readerQ[i + k]
  BY DEF Moves
<1>3. \A i, j \in DOMAIN readerQ' : i < j => i + k < j + k
  BY <1>1
<1>. QED
  BY <1>2, <1>3 DEF SeeksAscend

\* The newest seek is still on its way while nothing but another task is served.
LEMMA KeptNewest ==
  ASSUME TypeOK, NewestIsOnItsWay, UNCHANGED seekId,
         playerPc' = playerPc \/ playerPc \notin {"seek", "seekDone"},
         NEW k \in {0, 1}, Keeps(readerQ, readerQ', k),
         k = 1 => readerQ[1].op \notin SeekOps \/ readerQ[1].seek # seekId
  PROVE  NewestIsOnItsWay'
<1>1. DOMAIN readerQ \subseteq Nat \ {0}
  BY LenProperties DEF TypeOK, ReaderTypes
<1>2. ASSUME NEW j \in DOMAIN readerQ, readerQ[j].op \in SeekOps, readerQ[j].seek = seekId
      PROVE  \E i \in DOMAIN readerQ' : readerQ'[i].op \in SeekOps /\ readerQ'[i].seek = seekId
  <2>1. j > k
    <3>1. ASSUME k = 1 PROVE j # 1
      BY <1>2, <3>1
    <3>. QED
      BY <1>1, <3>1
  <2>. QED
    BY <1>2, <2>1 DEF Keeps
<1>. QED
  BY <1>2 DEF NewestIsOnItsWay

\* A seek that is posted is beyond every seek the reader may have heard of.
LEMMA PostedSeekAscends ==
  ASSUME TypeOK, Running, SeeksAscend, PostReaderSeek
  PROVE  SeeksAscend'
<1>1. /\ readerQ \in Seq(ReaderTasks) /\ seekId \in Nat /\ readerSerial \in Nat
      /\ DOMAIN readerQ = 1 .. Len(readerQ) /\ Len(readerQ) \in Nat
  <2>1. readerQ \in Seq(ReaderTasks) /\ seekId \in Nat /\ readerSerial \in Nat
    BY DEF TypeOK, PlayerTypes, ReaderTypes
  <2>. QED
    BY <2>1, LenProperties
<1>2. readerSerial' = readerSerial /\ readerSerial < seekId
  BY <1>1 DEF PostReaderSeek, fileVars, Running, SerialsOrdered, SeekBound
<1>3. \A i \in DOMAIN readerQ : readerQ[i].op \in SeekOps => readerQ[i].seek < seekId
  <2>1. ASSUME NEW i \in DOMAIN readerQ, readerQ[i].op \in SeekOps
        PROVE  readerQ[i].seek < seekId
    <3>1. readerQ[i] \in ReaderTasks
      BY <1>1, ElementOfSeq
    <3>2. readerQ[i].seek \in Nat /\ readerQ[i].seek <= seekId - 1
      BY <2>1, <3>1 DEF PostReaderSeek, Running, SerialsOrdered, SeekBound, ReaderTasks
    <3>. QED
      BY <1>1, <3>2
  <2>. QED
    BY <2>1
<1>4. CASE readerThread = "running"
  <2>1. ReaderTask("Seek", seekId) \in ReaderTasks
    BY <1>1, TaskTypes DEF ReaderOps
  <2>2. readerQ' = Append(readerQ, ReaderTask("Seek", seekId))
    BY <1>4 DEF PostReaderSeek, Post
  <2>3. \A i \in DOMAIN readerQ' :
          \/ i \in DOMAIN readerQ /\ readerQ'[i] = readerQ[i]
          \/ i = Len(readerQ) + 1 /\ readerQ'[i].seek = seekId
    BY <1>1, <2>1, <2>2, AppendProperties, LenProperties DEF ReaderTask
  <2>. QED
    BY <1>1, <1>2, <1>3, <2>3 DEF SeeksAscend
<1>5. CASE readerThread # "running"
  BY <1>2, <1>5 DEF PostReaderSeek, Post, SeeksAscend
<1>. QED
  BY <1>4, <1>5

\* The reader is there to take it, behind what is queued.
LEMMA PostedSeekIsNewest ==
  ASSUME TypeOK, Running, ReaderAlive, PostReaderSeek
  PROVE  NewestIsOnItsWay'
<1>1. readerThread = "running"
  BY DEF PostReaderSeek, Running, ThreadsExist, ReaderAlive
<1>2. readerQ \in Seq(ReaderTasks) /\ ReaderTask("Seek", seekId) \in ReaderTasks
  BY TaskTypes DEF TypeOK, PlayerTypes, ReaderTypes, ReaderOps
<1>3. readerQ' = Append(readerQ, ReaderTask("Seek", seekId)) /\ seekId' = seekId
  BY <1>1 DEF PostReaderSeek, Post
<1>4. /\ Len(readerQ) + 1 \in DOMAIN readerQ'
      /\ readerQ'[Len(readerQ) + 1] = ReaderTask("Seek", seekId)
  BY <1>2, <1>3, AppendProperties, LenProperties
<1>. QED
  BY <1>3, <1>4 DEF NewestIsOnItsWay, ReaderTask, SeekOps

\* A seek that is found to be the newest keeps its place, one that was overtaken leaves it.
LEMMA CheckedSeek ==
  ASSUME TypeOK, FollowInv, ReaderSeek
  PROVE  SeeksAscend' /\ (readerSerial' = seekId' \/ NewestIsOnItsWay')
<1>1. /\ readerQ \in Seq(ReaderTasks) /\ readerQ # <<>>
      /\ UNCHANGED <<seekId, playerPc, readerSerial>>
  BY DEF TypeOK, ReaderTypes, ReaderSeek, Runs, fileVars, playerVars
<1>2. 1 \in DOMAIN readerQ /\ readerQ[1] = Head(readerQ) /\ readerQ[1].op = "Seek"
  BY ReaderHead DEF ReaderSeek
<1>3. CASE readerQ' = [readerQ EXCEPT ![1] = ReaderTask("SeekTo", Head(readerQ).seek)]
  <2>1. DOMAIN readerQ' = DOMAIN readerQ
    BY <1>3
  <2>2. ASSUME NEW i \in DOMAIN readerQ
        PROVE  /\ readerQ'[i].op \in SeekOps <=> readerQ[i].op \in SeekOps
               /\ readerQ[i].op \in SeekOps => readerQ'[i].seek = readerQ[i].seek
    BY <1>2, <1>3 DEF SeekOps, ReaderTask
  <2>. QED
    BY <1>1, <2>1, <2>2 DEF FollowInv, SeeksAscend, NewestIsOnItsWay
<1>4. CASE readerQ' = Tail(readerQ) /\ Head(readerQ).seek # seekId
  <2>1. /\ readerQ' \in Seq(ReaderTasks) /\ Moves(readerQ, readerQ', 1, SeekOps)
        /\ Keeps(readerQ, readerQ', 1)
    BY <1>1, <1>4, TailMoves, TailKeeps
  <2>2. SeeksAscend'
    BY <1>1, <2>1, MovedSeeksAscend DEF FollowInv
  <2>3. readerSerial' = seekId' \/ NewestIsOnItsWay'
    BY <1>1, <1>2, <1>4, <2>1, KeptNewest DEF FollowInv
  <2>. QED
    BY <2>2, <2>3
<1>. QED
  BY <1>3, <1>4 DEF ReaderSeek, IsNewest

\* The seek that the reader follows is before those it leaves in the queue, and the newest
\* unless the newest is on its way.
LEMMA ServedSeek ==
  ASSUME TypeOK, Running, FollowInv, SeekTo
  PROVE  SeeksAscend' /\ (readerSerial' = seekId' \/ NewestIsOnItsWay')
<1>1. /\ readerQ \in Seq(ReaderTasks) /\ readerQ # <<>> /\ readerQ' = Tail(readerQ)
      /\ UNCHANGED <<seekId, playerPc>>
  BY DEF TypeOK, ReaderTypes, SeekTo, Runs, playerVars
<1>2. 1 \in DOMAIN readerQ /\ readerQ[1] = Head(readerQ) /\ readerQ[1].op \in SeekOps
  BY ReaderHead DEF SeekTo, SeekOps
<1>3. \A i \in DOMAIN readerQ' :
        i \in Nat /\ i >= 1 /\ i + 1 \in DOMAIN readerQ /\ readerQ'[i] = readerQ[i + 1]
  BY <1>1, HeadTailProperties, LenProperties, EmptySeq
<1>4. readerSerial' = readerQ[1].seek
  BY <1>2 DEF SeekTo, SerialOf
<1>5. \A i \in DOMAIN readerQ' : readerQ'[i].op \in SeekOps => readerSerial' < readerQ'[i].seek
  <2>1. ASSUME NEW i \in DOMAIN readerQ', readerQ'[i].op \in SeekOps
        PROVE  readerSerial' < readerQ'[i].seek
    <3>1. 1 < i + 1
      BY <1>3
    <3>. QED
      BY <1>2, <1>3, <1>4, <2>1, <3>1 DEF FollowInv, SeeksAscend
  <2>. QED
    BY <2>1
<1>6. \A i, j \in DOMAIN readerQ' : i < j => i + 1 < j + 1
  BY <1>3
<1>7. SeeksAscend'
  BY <1>3, <1>5, <1>6 DEF FollowInv, SeeksAscend
<1>8. CASE readerQ[1].seek = seekId
  BY <1>1, <1>4, <1>7, <1>8
<1>9. CASE readerQ[1].seek # seekId
  <2>1. readerQ[1].seek \in Nat /\ seekId \in Nat /\ readerSerial \in Nat
    <3>1. 1 \in 1 .. Len(readerQ)
      BY <1>1, <1>2, LenProperties
    <3>2. readerQ[1] \in ReaderTasks
      BY <1>1, <3>1, ElementOfSeq
    <3>. QED
      BY <3>2 DEF ReaderTasks, TypeOK, PlayerTypes, ReaderTypes
  <2>2. readerSerial < readerQ[1].seek /\ readerQ[1].seek <= SeekBound
    BY <1>2 DEF FollowInv, SeeksAscend, Running, SerialsOrdered
  <2>3. SeekBound \in {seekId - 1, seekId}
    BY DEF SeekBound
  <2>4. readerSerial # seekId
    BY <2>1, <2>2, <2>3
  <2>5. NewestIsOnItsWay
    BY <2>4 DEF FollowInv
  <2>6. Keeps(readerQ, readerQ', 1)
    BY <1>1, TailKeeps
  <2>. QED
    BY <1>1, <1>7, <1>9, <2>5, <2>6, KeptNewest
<1>. QED
  BY <1>8, <1>9

\* The reader thread is there as long as the decoder thread, and leaves nothing queued.
LEMMA InsideKeepsReader ==
  ASSUME TypeOK, Running, QuietInv, ReaderAlive, Inside
  PROVE  ReaderAlive'
<1>1. CASE PlayerStep
  <2>1. CASE InitReaderIfNeed \/ StartDecoder
    BY <2>1 DEF InitReaderIfNeed, StartDecoder, ReaderAlive, readerVars
  <2>2. CASE QuitDecoder
    BY <2>2 DEF QuitDecoder, ReaderAlive, Running, ThreadsExist, readerVars
  <2>3. CASE JoinDecoder
    BY <2>3 DEF JoinDecoder, ReaderAlive, Post
  <2>4. CASE QuitReader \/ JoinReader
    BY <2>4 DEF QuitReader, JoinReader, PlayerReturns, ReaderAlive, QuietInv, decoderVars,
       threadVars
  <2>5. CASE PostReaderSeek
    BY <2>5 DEF PostReaderSeek, PlayerReturns, ReaderAlive, Post, decoderVars, threadVars
  <2>6. CASE \/ InitIgnored \/ InitInvalid \/ Prepared \/ PlayInternal \/ PostPlay
             \/ SetPlaying \/ PauseInternal \/ PostPause \/ SeekInternal \/ UnInitInternal
             \/ OnError \/ PlayerExits
    <3>1. UNCHANGED <<readerThread, readerQ, decoderThread>>
      BY <2>6 DEF InitIgnored, InitInvalid, Prepared, PlayInternal, PostPlay, SetPlaying,
         PauseInternal, PostPause, SeekInternal, UnInitInternal, OnError, PlayerExits,
         readerVars, decoderVars, threadVars
    <3>2. playerPc' = playerPc \/ playerPc' \notin {"initReader", "initReaderDone"}
      BY <2>6 DEF InitIgnored, InitInvalid, Prepared, PlayInternal, PostPlay, SetPlaying,
         PauseInternal, PostPause, SeekInternal, UnInitInternal, OnError, PlayerExits,
         PlayerReturns
    <3>. QED
      BY <3>1, <3>2 DEF ReaderAlive
  <2>. QED
    BY <1>1, <2>1, <2>2, <2>3, <2>4, <2>5, <2>6 DEF PlayerStep
<1>2. CASE ReaderExits
  BY <1>2 DEF ReaderExits, ReaderAlive, playerVars, decoderVars, threadVars
<1>3. CASE (ReaderStep /\ ~ReaderExits) \/ ReaderTimerFires
  <2>1. UNCHANGED <<readerThread, decoderThread>> /\ readerThread \in {"running", "quitting"}
    BY <1>3 DEF ReaderStep, ReaderTimerFires, InitReader, ReadExit, ReadHold, ReadFrame,
       HandOver, ReaderSeek, SeekTo, UnInitReader, Reading, Runs, decoderVars, threadVars
  <2>2. \/ playerPc' = playerPc
        \/ playerPc = "initReader" /\ playerPc' = "initReaderDone"
        \/ playerPc' = "uninitReaderDone"
    <3>1. CASE ReadExit \/ ReadHold \/ HandOver
      BY <3>1, FirstReadPc DEF ReadExit, ReadHold, HandOver, Running
    <3>2. CASE UnInitReader
      BY <3>2 DEF UnInitReader
    <3>3. CASE InitReader \/ ReadFrame \/ ReaderSeek \/ SeekTo \/ ReaderTimerFires
      BY <3>3 DEF InitReader, ReadFrame, ReaderSeek, SeekTo, ReaderTimerFires, playerVars
    <3>. QED
      BY <1>3, <3>1, <3>2, <3>3 DEF ReaderStep
  <2>. QED
    BY <2>1, <2>2 DEF ReaderAlive
<1>4. CASE DecoderStep \/ \E s \in Streams : DecoderTimerFires(s)
  <2>1. UNCHANGED <<readerThread, readerQ>>
    BY <1>4 DEF DecoderStep, DecoderTimerFires, InitDecoder, SetRendering, DecoderSeek,
       UnInitDecoder, ProcessInternal, ProcessExit, SendFrame, DropPacket, SendPacket,
       CodecError, NoPacketYet, Drain, Completed, DecoderExits, readerVars
  <2>2. decoderThread' = decoderThread \/ decoderThread = "quitting"
    BY <1>4 DEF DecoderStep, DecoderTimerFires, InitDecoder, SetRendering, DecoderSeek,
       UnInitDecoder, ProcessInternal, ProcessExit, SendFrame, DropPacket, SendPacket,
       CodecError, NoPacketYet, Drain, Completed, DecoderExits, threadVars
  <2>3. playerPc' = playerPc \/ playerPc' \notin {"initReader", "initReaderDone"}
    BY <1>4 DEF DecoderStep, DecoderTimerFires, InitDecoder, SetRendering, DecoderSeek,
       UnInitDecoder, ProcessInternal, ProcessExit, SendFrame, DropPacket, SendPacket,
       CodecError, NoPacketYet, Drain, Completed, DecoderExits, playerVars
  <2>. QED
    BY <2>1, <2>2, <2>3 DEF ReaderAlive
<1>. QED
  BY <1>1, <1>2, <1>3, <1>4 DEF Inside

\* What the reader's queue does in a step that touches no seek
OtherTask ==
  /\ UNCHANGED <<seekId, readerSerial>>
  /\ playerPc' = playerPc \/ playerPc \notin {"seek", "seekDone"}
  /\ \E k \in {0, 1} :
       /\ Moves(readerQ, readerQ', k, SeekOps) /\ Keeps(readerQ, readerQ', k)
       /\ k = 1 => readerQ[1].op \notin SeekOps

\* Such a step keeps what is known of the seeks.
LEMMA OtherTaskKept ==
  ASSUME TypeOK, FollowInv, readerQ' \in Seq(ReaderTasks), OtherTask
  PROVE  SeeksAscend' /\ (readerSerial' = seekId' \/ NewestIsOnItsWay')
<1>1. PICK k \in {0, 1} :
        /\ Moves(readerQ, readerQ', k, SeekOps) /\ Keeps(readerQ, readerQ', k)
        /\ k = 1 => readerQ[1].op \notin SeekOps
  BY DEF OtherTask
<1>2. SeeksAscend'
  BY <1>1, MovedSeeksAscend DEF FollowInv, OtherTask
<1>3. CASE readerSerial = seekId
  BY <1>2, <1>3 DEF OtherTask
<1>4. CASE NewestIsOnItsWay
  BY <1>1, <1>2, <1>4, KeptNewest DEF OtherTask
<1>. QED
  BY <1>2, <1>3, <1>4 DEF FollowInv

\* The seeks stay in their order, and the newest is not lost.
LEMMA InsideKeepsSeeks ==
  ASSUME TypeOK, TypeOK', Running, QuietInv, FollowInv, Inside
  PROVE  SeeksAscend' /\ (readerSerial' = seekId' \/ NewestIsOnItsWay')
<1>1. readerQ \in Seq(ReaderTasks) /\ readerQ' \in Seq(ReaderTasks)
  BY DEF TypeOK, ReaderTypes
<1>2. /\ Moves(readerQ, readerQ, 0, SeekOps) /\ Keeps(readerQ, readerQ, 0)
      /\ ReaderTask("ReadPacket", 0) \in ReaderTasks
      /\ ReaderTask("UnInitReader", 0) \in ReaderTasks
      /\ ReaderTask("ReadPacket", 0).op \notin SeekOps
      /\ ReaderTask("UnInitReader", 0).op \notin SeekOps
  BY <1>1, SameMoves, SameKeeps, TaskTypes DEF ReaderOps, ReaderTask, SeekOps
<1>3. CASE InitReader
  <2>1. UNCHANGED <<seekId, readerSerial, playerPc>>
    BY <1>3, InitReaderKeepsSerial DEF InitReader
  <2>2. readerQ' = [readerQ EXCEPT ![1] = ReaderTask("FirstRead", 0)]
    BY <1>3 DEF InitReader
  <2>3. 1 \in DOMAIN readerQ /\ readerQ[1].op = "InitReader"
    BY <1>3, ReaderHead DEF InitReader
  <2>4. DOMAIN readerQ' = DOMAIN readerQ
    BY <2>2
  <2>5. ASSUME NEW i \in DOMAIN readerQ
        PROVE  /\ readerQ'[i].op \in SeekOps <=> readerQ[i].op \in SeekOps
               /\ readerQ[i].op \in SeekOps => readerQ'[i] = readerQ[i]
    BY <2>2, <2>3 DEF SeekOps, ReaderTask
  <2>. QED
    BY <2>1, <2>4, <2>5 DEF FollowInv, SeeksAscend, NewestIsOnItsWay
<1>4. CASE ReadExit \/ ReadHold \/ HandOver
  <2>1. PICK again \in {"never", "now", "later"} : ReadPacketReturns(again)
    BY <1>4 DEF ReadExit, ReadHold, HandOver
  <2>2. Reading /\ UNCHANGED <<seekId, readerSerial>>
    BY <1>4 DEF ReadExit, ReadHold, HandOver, fileVars
  <2>3. 1 \in DOMAIN readerQ /\ readerQ # <<>> /\ readerQ[1].op \notin SeekOps
    BY <2>2, ReaderHead DEF Reading, Runs, SeekOps
  <2>4. Moves(readerQ, readerQ', 1, SeekOps)
    BY <2>1, <2>2, ReadPacketReturnsMoves DEF SeekOps
  <2>5. Tail(readerQ) \in Seq(ReaderTasks) /\ Keeps(readerQ, Tail(readerQ), 1)
    BY <1>1, <2>3, TailMoves, TailKeeps
  <2>6. Keeps(readerQ, readerQ', 1)
    BY <1>1, <1>2, <2>1, <2>5, PostKeeps DEF ReadPacketReturns
  <2>7. playerPc' = playerPc \/ playerPc = "initReader"
    BY <2>1, <2>2, FirstReadPc DEF Running
  <2>. QED
    BY <1>1, <2>2, <2>3, <2>4, <2>6, <2>7, OtherTaskKept DEF OtherTask
<1>5. CASE UnInitReader
  <2>1. /\ readerQ # <<>> /\ readerQ' = Tail(readerQ) /\ UNCHANGED <<seekId, readerSerial>>
        /\ readerQ[1].op = "UnInitReader" /\ playerPc = "uninitReader"
    BY <1>5, ReaderHead DEF UnInitReader, Runs, fileVars, Running, ReaderCalls, ReaderCall
  <2>2. Moves(readerQ, readerQ', 1, SeekOps) /\ Keeps(readerQ, readerQ', 1)
    BY <1>1, <2>1, TailMoves, TailKeeps
  <2>. QED
    BY <1>1, <2>1, <2>2, OtherTaskKept DEF OtherTask, SeekOps
<1>6. CASE ReaderTimerFires
  <2>1. /\ UNCHANGED <<seekId, readerSerial, playerPc>>
        /\ readerQ' = Post("running", readerQ, ReaderTask("ReadPacket", 0))
    BY <1>6 DEF ReaderTimerFires, Post, fileVars, playerVars
  <2>2. Moves(readerQ, readerQ', 0, SeekOps) /\ Keeps(readerQ, readerQ', 0)
    BY <1>1, <1>2, <2>1, PostMoves, PostKeeps
  <2>. QED
    BY <1>1, <2>1, <2>2, OtherTaskKept DEF OtherTask
<1>7. CASE JoinDecoder
  <2>1. /\ UNCHANGED <<seekId, readerSerial>> /\ playerPc = "joinDecoder"
        /\ readerQ' = Post(readerThread, readerQ, ReaderTask("UnInitReader", 0))
    BY <1>7 DEF JoinDecoder, fileVars
  <2>2. Moves(readerQ, readerQ', 0, SeekOps) /\ Keeps(readerQ, readerQ', 0)
    BY <1>1, <1>2, <2>1, PostMoves, PostKeeps
  <2>. QED
    BY <1>1, <2>1, <2>2, OtherTaskKept DEF OtherTask
<1>8. CASE PostReaderSeek
  BY <1>8, PostedSeekAscends, PostedSeekIsNewest DEF FollowInv
<1>9. CASE InitReaderIfNeed
  <2>1. \A i \in DOMAIN readerQ' : readerQ'[i].op \notin SeekOps
    BY <1>9 DEF InitReaderIfNeed, ReaderTask, SeekOps
  <2>2. seekId = 0 /\ readerSerial <= seekId
    BY <1>9 DEF InitReaderIfNeed, PlayerRuns, Running, Starting, SerialsOrdered, SeekBound
  <2>3. readerSerial' = seekId'
    BY <1>9, <2>2 DEF InitReaderIfNeed, fileVars, TypeOK, ReaderTypes
  <2>. QED
    BY <2>1, <2>3 DEF SeeksAscend
<1>10. CASE JoinReader
  <2>1. readerQ = <<>> /\ readerQ' = <<>> /\ playerPc = "joinReader"
    BY <1>10 DEF JoinReader, FollowInv, ReaderAlive
  <2>2. readerSerial = seekId
    BY <2>1 DEF FollowInv, NewestIsOnItsWay
  <2>3. UNCHANGED <<seekId, readerSerial>>
    BY <1>10, <2>2 DEF JoinReader, fileVars
  <2>. QED
    BY <2>1, <2>2, <2>3 DEF SeeksAscend
<1>11. CASE SeekInternal
  <2>1. UNCHANGED <<readerQ, readerSerial>> /\ playerPc' = "seek"
    BY <1>11 DEF SeekInternal, readerVars, fileVars
  <2>. QED
    BY <2>1 DEF FollowInv, SeeksAscend, NewestIsOnItsWay
<1>12. CASE DecoderSeek
  <2>1. UNCHANGED <<readerQ, readerSerial>> /\ playerPc' = "seekDone"
    BY <1>12 DEF DecoderSeek, readerVars, fileVars
  <2>. QED
    BY <2>1 DEF FollowInv, SeeksAscend, NewestIsOnItsWay
<1>13. CASE ReaderSeek \/ SeekTo
  BY <1>13, CheckedSeek, ServedSeek
<1>14. CASE /\ UNCHANGED <<readerQ, readerSerial, seekId>>
            /\ playerPc' = playerPc \/ playerPc \notin {"seek", "seekDone"}
  BY <1>1, <1>2, <1>14, OtherTaskKept DEF OtherTask
<1>15. CASE \/ InitIgnored \/ InitInvalid \/ StartDecoder \/ Prepared \/ PlayInternal
            \/ PostPlay \/ SetPlaying \/ PauseInternal \/ PostPause \/ UnInitInternal
            \/ QuitDecoder \/ QuitReader \/ OnError \/ PlayerExits
  <2>1. UNCHANGED <<readerQ, readerSerial, seekId>>
    BY <1>15 DEF InitIgnored, InitInvalid, StartDecoder, Prepared, PlayInternal, PostPlay,
       SetPlaying, PauseInternal, PostPause, UnInitInternal, QuitDecoder, QuitReader, OnError,
       PlayerExits, readerVars, fileVars
  <2>2. playerPc' = playerPc \/ playerPc \notin {"seek", "seekDone"}
    BY <1>15 DEF InitIgnored, InitInvalid, StartDecoder, Prepared, PlayInternal, PostPlay,
       SetPlaying, PauseInternal, PostPause, UnInitInternal, QuitDecoder, QuitReader, OnError,
       PlayerExits, PlayerRuns
  <2>. QED
    BY <1>14, <2>1, <2>2
<1>16. CASE ReadFrame \/ ReaderExits
  BY <1>14, <1>16 DEF ReadFrame, ReaderExits, fileVars, playerVars
<1>17. CASE InitDecoder \/ UnInitDecoder
  <2>1. playerPc \in {"initDecoder", "uninitDecoder"}
    BY <1>17, DecoderHead DEF InitDecoder, UnInitDecoder, DecoderRuns, Running, DecoderCalls,
       DecoderCall
  <2>. QED
    BY <1>14, <1>17, <2>1 DEF InitDecoder, UnInitDecoder, readerVars, fileVars
<1>18. CASE \/ SetRendering("Play", TRUE) \/ SetRendering("Pause", FALSE) \/ DecoderExits
            \/ \E s \in Streams : ProcessInternal(s) \/ DecoderTimerFires(s)
  BY <1>14, <1>18 DEF SetRendering, DecoderExits, ProcessInternal, DecoderTimerFires,
     ProcessExit, SendFrame, DropPacket, SendPacket, CodecError, NoPacketYet, Drain, Completed,
     playerVars, readerVars, fileVars
<1>. QED
  BY <1>3, <1>4, <1>5, <1>6, <1>7, <1>8, <1>9, <1>10, <1>11, <1>12, <1>13, <1>15, <1>16,
     <1>17, <1>18
  DEF Inside, PlayerStep, ReaderStep, DecoderStep

\* At first no seek is queued.
LEMMA InitFollow == Init => FollowInv
  BY DEF Init, FollowInv, SeeksAscend, ReaderAlive

\* Every step keeps what is known of the seeks.
LEMMA NextFollow ==
  ASSUME IInv, IInv', QuietInv, FollowInv, [Next]_vars
  PROVE  FollowInv'
<1>1. CASE UNCHANGED vars \/ Ended \/ Client
  <2>1. UNCHANGED <<readerQ, readerSerial, seekId, playerPc, readerThread, decoderThread>>
    BY <1>1 DEF vars, readerVars, fileVars, decoderVars, threadVars, playerVars, Ended, Client,
       CallInit, Call, CallUnInit, StopPlayer, JoinPlayer, ClientPosts
  <2>. QED
    BY <2>1 DEF FollowInv, SeeksAscend, NewestIsOnItsWay, ReaderAlive
<1>2. CASE fault = "none" /\ Inside
  BY <1>2, InsideKeepsSeeks, InsideKeepsReader DEF IInv, FollowInv
<1>. QED
  BY <1>1, <1>2 DEF Next, Inside

\* A step moves the reader on, to the seek it was given, or not at all.
LEMMA NextFollows ==
  ASSUME IInv, FollowInv, [Next]_vars,
         <<filePos, readerSerial>>' # <<filePos, readerSerial>>
  PROVE  readerSerial' > readerSerial /\ filePos' \in {filePos, readerSerial'}
<1>1. CASE fault = "none" /\ InitReader
  BY <1>1, InitReaderKeepsSerial DEF IInv, InitReader
<1>2. CASE SeekTo
  <2>1. 1 \in DOMAIN readerQ /\ readerQ[1] = Head(readerQ) /\ readerQ[1].op \in SeekOps
    BY <1>2, ReaderHead DEF IInv, SeekTo, SeekOps
  <2>2. readerSerial < Head(readerQ).seek
    BY <2>1 DEF FollowInv, SeeksAscend
  <2>3. readerSerial' = Head(readerQ).seek /\ filePos' \in {filePos, Head(readerQ).seek}
    BY <1>2 DEF SeekTo, SerialOf
  <2>4. readerQ[1] \in ReaderTasks
    BY <2>1, ElementOfSeq, LenProperties DEF IInv, TypeOK, ReaderTypes
  <2>. QED
    BY <2>1, <2>2, <2>3, <2>4 DEF IInv, TypeOK, ReaderTypes, ReaderTasks
<1>3. (fault = "none" /\ InitReader) \/ SeekTo
  BY DEF Next, vars, Ended, Client, CallInit, Call, CallUnInit, StopPlayer, JoinPlayer,
     ClientPosts, PlayerStep, InitIgnored, InitInvalid, InitReaderIfNeed, StartDecoder,
     Prepared, PlayInternal, PostPlay, SetPlaying, PauseInternal, PostPause, SeekInternal,
     PostReaderSeek, UnInitInternal, QuitDecoder, JoinDecoder, QuitReader, JoinReader, OnError,
     PlayerExits, ReaderStep, ReaderTimerFires, ReadExit, ReadHold, ReadFrame, HandOver,
     ReaderSeek, UnInitReader, ReaderExits, DecoderStep, DecoderTimerFires, InitDecoder,
     SetRendering, DecoderSeek, UnInitDecoder, ProcessInternal, ProcessExit, SendFrame,
     DropPacket, SendPacket, CodecError, NoPacketYet, Drain, Completed, DecoderExits,
     readerVars, fileVars
<1>. QED
  BY <1>1, <1>2, <1>3

\* The reader goes only forward, and is never left on a seek that was overtaken.
THEOREM SpecReaderFollowsTheNewestSeek == Spec => ReaderFollowsTheNewestSeek
<1>1. IInv /\ FollowInv /\ [Next]_vars =>
        [<<filePos, readerSerial>>' # <<filePos, readerSerial>> =>
           readerSerial' > readerSerial /\ filePos' \in {filePos, readerSerial'}]_vars
  BY NextFollows
<1>2. FollowInv => readerSerial = seekId \/ NewestIsOnItsWay
  BY DEF FollowInv
<1>. QED
  BY <1>1, <1>2, InitFollow, NextFollow, SpecQuiet, SpecIInv, PTL
  DEF Spec, ReaderFollowsTheNewestSeek

-----------------------------------------------------------------------------
(* Whether the renders play.                                                 *)

\* q becomes r by losing its first k tasks and gaining at its end what is no switch.
Shifts(q, r, k) == Moves(q, r, k, Switches) /\ Keeps(q, r, k)

\* A task that ends
LEMMA TailShifts ==
  ASSUME NEW S, NEW q \in Seq(S), q # <<>>
  PROVE  Shifts(q, Tail(q), 1)
  BY TailMoves, TailKeeps DEF Shifts

\* A task that is posted, and is no switch
LEMMA PostShifts ==
  ASSUME NEW S, NEW q \in Seq(S), NEW r \in Seq(S), NEW k \in {0, 1},
         NEW t \in S, t.op \notin Switches, NEW thread, Shifts(q, r, k)
  PROVE  Shifts(q, Post(thread, r, t), k)
  BY PostMoves, PostKeeps DEF Shifts

\* A queue that nobody touches
LEMMA SameShifts ==
  ASSUME NEW S, NEW q \in Seq(S)
  PROVE  Shifts(q, q, 0)
  BY SameMoves, SameKeeps DEF Shifts

\* What the player says of the renders is what the renders do, or what they are told to do.
LEMMA RenderingSays ==
  RenderingFollowsState <=>
    ((\A i \in DOMAIN decoderQ : decoderQ[i].op \notin Switches) =>
       (SaysPlay => rendering) /\ (SaysPause => ~rendering))
  BY DEF RenderingFollowsState, Switches, SaysPlay, SaysPause

\* While no switch is posted or served, the last one is the same, and still to come.
LEMMA ShiftedSwitches ==
  ASSUME TypeOK, TypeOK', LastSwitch, RenderingFollowsState, rendering' = rendering,
         SaysPlay' => SaysPlay, SaysPause' => SaysPause,
         NEW k \in {0, 1}, Shifts(decoderQ, decoderQ', k),
         k = 1 => decoderQ[1].op \notin Switches
  PROVE  LastSwitch' /\ RenderingFollowsState'
<1>1. /\ DOMAIN decoderQ \subseteq Nat \ {0} /\ DOMAIN decoderQ' \subseteq Nat \ {0}
  <2>1. decoderQ \in Seq(DecoderTasks) /\ decoderQ' \in Seq(DecoderTasks)
    BY DEF TypeOK, DecoderTypes
  <2>. QED
    BY <2>1, LenProperties
<1>2. LastSwitch'
  <2>. SUFFICES ASSUME NEW i \in DOMAIN decoderQ',
                       decoderQ'[i].op \in Switches,
                       \A j \in DOMAIN decoderQ' : i < j => decoderQ'[j].op \notin Switches
                PROVE  /\ SaysPlay => decoderQ'[i].op = "Play"
                       /\ SaysPause => decoderQ'[i].op = "Pause"
    BY DEF LastSwitch
  <2>1. i + k \in DOMAIN decoderQ /\ decoderQ'[i] = decoderQ[i + k]
    BY DEF Shifts, Moves
  <2>2. ASSUME NEW j \in DOMAIN decoderQ, i + k < j
        PROVE  decoderQ[j].op \notin Switches
    <3>1. j > k /\ i < j - k
      BY <1>1, <2>2
    <3>. QED
      BY <3>1 DEF Shifts, Keeps
  <2>. QED
    BY <2>1, <2>2 DEF LastSwitch
<1>3. ASSUME \A i \in DOMAIN decoderQ' : decoderQ'[i].op \notin Switches
      PROVE  (SaysPlay => rendering) /\ (SaysPause => ~rendering)
  <2>1. ASSUME NEW j \in DOMAIN decoderQ
        PROVE  decoderQ[j].op \notin Switches
    <3>1. CASE j > k
      BY <1>3, <3>1 DEF Shifts, Keeps
    <3>2. CASE ~(j > k)
      <4>1. k = 1 /\ j = 1
        BY <1>1, <3>2
      <4>. QED
        BY <4>1
    <3>. QED
      BY <3>1, <3>2
  <2>. QED
    BY <2>1, RenderingSays
<1>4. RenderingFollowsState'
  BY <1>3 DEF RenderingFollowsState, Switches, SaysPlay, SaysPause
<1>. QED
  BY <1>2, <1>4

\* The switch that is posted behind the others is the last one.
LEMMA PostedSwitch ==
  ASSUME TypeOK, NEW op \in Switches, decoderQ' = Append(decoderQ, Task(op)),
         SaysPlay' => op = "Play", SaysPause' => op = "Pause"
  PROVE  LastSwitch' /\ RenderingFollowsState'
<1>1. /\ decoderQ \in Seq(DecoderTasks) /\ Task(op) \in DecoderTasks
  BY TaskTypes DEF TypeOK, DecoderTypes, Switches
<1>2. /\ DOMAIN decoderQ' = 1 .. Len(decoderQ) + 1 /\ Len(decoderQ) \in Nat
      /\ decoderQ'[Len(decoderQ) + 1] = Task(op)
  BY <1>1, AppendProperties, LenProperties
<1>3. Len(decoderQ) + 1 \in DOMAIN decoderQ' /\ decoderQ'[Len(decoderQ) + 1].op = op
  BY <1>2 DEF Task
<1>4. \A i \in DOMAIN decoderQ' : i = Len(decoderQ) + 1 \/ i < Len(decoderQ) + 1
  BY <1>2
<1>5. LastSwitch'
  BY <1>3, <1>4 DEF LastSwitch
<1>6. RenderingFollowsState'
  BY <1>3 DEF RenderingFollowsState, Switches
<1>. QED
  BY <1>5, <1>6

\* The switch that is served decides, when it was the last one.
LEMMA ServedSwitch ==
  ASSUME TypeOK, LastSwitch, NEW op \in Switches, NEW on \in BOOLEAN,
         SetRendering(op, on), on <=> op = "Play"
  PROVE  LastSwitch' /\ RenderingFollowsState'
<1>1. /\ decoderQ \in Seq(DecoderTasks) /\ decoderQ # <<>> /\ decoderQ' = Tail(decoderQ)
      /\ rendering' = on
  BY DEF TypeOK, DecoderTypes, SetRendering, DecoderRuns, Runs
<1>2. 1 \in DOMAIN decoderQ /\ decoderQ[1].op = op
  BY DecoderHead DEF SetRendering, DecoderRuns
<1>3. Shifts(decoderQ, decoderQ', 1)
  BY <1>1, TailShifts
<1>4. Tail(decoderQ) \in Seq(DecoderTasks)
  BY <1>1, TailMoves
<1>5. DOMAIN decoderQ \subseteq Nat \ {0} /\ DOMAIN decoderQ' \subseteq Nat \ {0}
  BY <1>1, <1>4, LenProperties
<1>6. (SaysPlay' <=> SaysPlay) /\ (SaysPause' <=> SaysPause)
  BY DEF SetRendering, playerVars, SaysPlay, SaysPause
<1>7. LastSwitch'
  <2>. SUFFICES ASSUME NEW i \in DOMAIN decoderQ', decoderQ'[i].op \in Switches,
                       \A j \in DOMAIN decoderQ' : i < j => decoderQ'[j].op \notin Switches
                PROVE  /\ SaysPlay => decoderQ'[i].op = "Play"
                       /\ SaysPause => decoderQ'[i].op = "Pause"
    BY <1>6 DEF LastSwitch
  <2>1. i + 1 \in DOMAIN decoderQ /\ decoderQ'[i] = decoderQ[i + 1]
    BY <1>3 DEF Shifts, Moves
  <2>2. ASSUME NEW j \in DOMAIN decoderQ, i + 1 < j
        PROVE  decoderQ[j].op \notin Switches
    <3>1. j > 1 /\ i < j - 1
      BY <1>5, <2>2
    <3>. QED
      BY <1>3, <3>1 DEF Shifts, Keeps
  <2>. QED
    BY <2>1, <2>2 DEF LastSwitch
<1>8. ASSUME \A i \in DOMAIN decoderQ' : decoderQ'[i].op \notin Switches
      PROVE  (SaysPlay => on) /\ (SaysPause => ~on)
  <2>1. \A j \in DOMAIN decoderQ : 1 < j => decoderQ[j].op \notin Switches
    BY <1>3, <1>5, <1>8 DEF Shifts, Keeps
  <2>2. (SaysPlay => op = "Play") /\ (SaysPause => op = "Pause")
    BY <1>2, <2>1 DEF LastSwitch
  <2>. QED
    BY <2>2
<1>9. RenderingFollowsState'
  BY <1>1, <1>6, <1>8
  DEF RenderingFollowsState, Switches, SaysPlay, SaysPause
<1>. QED
  BY <1>7, <1>9

\* Who says that it plays has its decoder thread, and a player that starts says nothing yet.
LEMMA InsideKeepsSwitchers ==
  ASSUME TypeOK, Running, fault = "none", SwitchInv, Inside
  PROVE  /\ decoderThread' \in {"quitting", "exited"} => playerPc' = "joinDecoder"
         /\ \/ state' \in {"kPrepared", "kPlaying", "kPaused"}
            \/ playerPc' \in {"play", "played"}
            => decoderThread' = "running"
         /\ playerPc' = "paused" => state' # "kPlaying"
         /\ playerPc' \in {"initReader", "initReaderDone", "initDecoder", "initDecoderDone"} =>
              state' \in {"kIdle", "kError"}
<1>. decoderThread \in Threads /\ state \in States
  BY DEF TypeOK, PlayerTypes, DecoderTypes
<1>1. CASE UNCHANGED <<decoderThread, playerPc>> /\ state' \in {state, "kError"}
  BY <1>1 DEF SwitchInv
<1>2. CASE PlayerStep
  <2>1. CASE \/ InitIgnored \/ InitInvalid \/ OnError \/ PlayerExits
    BY <1>1, <2>1 DEF InitIgnored, InitInvalid, OnError, PlayerExits, PlayerReturns, PlayerRuns,
       SetError, decoderVars, threadVars
  <2>2. CASE InitReaderIfNeed \/ StartDecoder
    BY <2>2 DEF InitReaderIfNeed, StartDecoder, SwitchInv, decoderVars, threadVars, PlayerRuns
  <2>3. CASE Prepared
    <3>1. decoderThread = "running"
      BY <2>3 DEF Prepared, SwitchInv, Running, ThreadsExist, Threads
    <3>. QED
      BY <2>3, <3>1 DEF Prepared, PlayerReturns, decoderVars, threadVars
  <2>4. CASE PlayInternal \/ PostPlay \/ SetPlaying \/ PauseInternal \/ PostPause
    <3>1. decoderThread' = decoderThread /\ decoderThread \notin {"quitting", "exited"}
      BY <2>4 DEF PlayInternal, PostPlay, SetPlaying, PauseInternal, PostPause, PlayerRuns,
         SwitchInv, decoderVars, threadVars
    <3>2. CASE PlayInternal
      BY <3>1, <3>2 DEF PlayInternal, PlayerReturns, SwitchInv
    <3>3. CASE PostPlay \/ SetPlaying
      BY <3>1, <3>3 DEF PostPlay, SetPlaying, PlayerReturns, SwitchInv
    <3>4. CASE PauseInternal
      BY <3>1, <3>4 DEF PauseInternal, SetState, CheckState, SwitchInv
    <3>5. CASE PostPause
      BY <3>1, <3>5 DEF PostPause, PlayerReturns, SwitchInv
    <3>. QED
      BY <2>4, <3>2, <3>3, <3>4, <3>5
  <2>5. CASE SeekInternal \/ PostReaderSeek
    BY <2>5 DEF SeekInternal, PostReaderSeek, PlayerReturns, PlayerRuns, SwitchInv, decoderVars,
       threadVars
  <2>6. CASE UnInitInternal
    BY <2>6 DEF UnInitInternal, SetState, CheckState, PlayerRuns, SwitchInv
  <2>7. CASE QuitDecoder \/ JoinDecoder \/ QuitReader \/ JoinReader
    <3>1. state' = state /\ state \in {"kError", "kEnded"}
      BY <2>7 DEF QuitDecoder, JoinDecoder, QuitReader, JoinReader, Running, ThreadsExist, PcOp
    <3>2. \/ playerPc' = "joinDecoder"
          \/ /\ playerPc' \in {"uninitReader", "joinReader", "ready"}
             /\ decoderThread' \notin {"quitting", "exited"}
      BY <2>7 DEF QuitDecoder, JoinDecoder, QuitReader, JoinReader, PlayerReturns, SwitchInv,
         decoderVars, threadVars
    <3>. QED
      BY <3>1, <3>2
  <2>. QED
    BY <1>2, <2>1, <2>2, <2>3, <2>4, <2>5, <2>6, <2>7 DEF PlayerStep
<1>3. CASE ReaderStep \/ ReaderTimerFires
  <2>1. decoderThread' = decoderThread /\ state' \in {state, "kError"}
    BY <1>3 DEF ReaderStep, ReaderTimerFires, InitReader, ReadExit, ReadHold, ReadFrame, HandOver,
       ReaderSeek, SeekTo, UnInitReader, ReaderExits, SetError, decoderVars, threadVars
  <2>2. \/ playerPc' = playerPc
        \/ playerPc = "initReader" /\ playerPc' = "initReaderDone"
        \/ playerPc = "uninitReader" /\ playerPc' = "uninitReaderDone"
    <3>1. CASE ReadExit \/ ReadHold \/ HandOver
      BY <3>1, FirstReadPc DEF ReadExit, ReadHold, HandOver, Running
    <3>2. CASE UnInitReader
      BY <3>2, ReaderHead DEF UnInitReader, Running, ReaderCalls, ReaderCall
    <3>3. CASE \/ InitReader \/ ReadFrame \/ ReaderSeek \/ SeekTo
               \/ ReaderExits \/ ReaderTimerFires
      BY <3>3 DEF InitReader, ReadFrame, ReaderSeek, SeekTo, ReaderExits, ReaderTimerFires,
         playerVars
    <3>. QED
      BY <1>3, <3>1, <3>2, <3>3 DEF ReaderStep
  <2>. QED
    BY <2>1, <2>2 DEF SwitchInv
<1>4. CASE InitDecoder \/ DecoderSeek \/ UnInitDecoder
  <2>1. decoderThread' = decoderThread /\ state' = state
    BY <1>4 DEF InitDecoder, DecoderSeek, UnInitDecoder
  <2>2. \/ playerPc = "initDecoder" /\ playerPc' = "initDecoderDone"
        \/ playerPc = "seek" /\ playerPc' = "seekDone"
        \/ playerPc = "uninitDecoder" /\ playerPc' = "uninitDecoderDone"
    BY <1>4, DecoderHead DEF InitDecoder, DecoderSeek, UnInitDecoder, DecoderRuns, Running,
       DecoderCalls, DecoderCall
  <2>. QED
    BY <2>1, <2>2 DEF SwitchInv
<1>5. CASE DecoderExits
  BY <1>5 DEF DecoderExits, SwitchInv, playerVars
<1>6. CASE \/ SetRendering("Play", TRUE) \/ SetRendering("Pause", FALSE)
           \/ \E s \in Streams : ProcessInternal(s) \/ DecoderTimerFires(s)
  BY <1>1, <1>6 DEF SetRendering, ProcessInternal, DecoderTimerFires, ProcessExit,
     SendFrame, DropPacket, SendPacket, CodecError, NoPacketYet, Drain, Completed, SetError,
     playerVars, threadVars
<1>. QED
  BY <1>2, <1>3, <1>4, <1>5, <1>6 DEF Inside, DecoderStep

\* The last switch stays what the player says, when a loop or a call of another kind is served.
LEMMA InsideKeepsSwitches ==
  ASSUME TypeOK, TypeOK', Running, fault = "none", SwitchInv, Inside
  PROVE  LastSwitch' /\ RenderingFollowsState'
<1>. decoderQ \in Seq(DecoderTasks) /\ decoderQ' \in Seq(DecoderTasks) /\ state \in States
  BY DEF TypeOK, DecoderTypes, PlayerTypes
<1>1. CASE ~SaysPlay' /\ ~SaysPause'
  BY <1>1 DEF LastSwitch, RenderingFollowsState, SaysPlay, SaysPause
<1>2. CASE /\ UNCHANGED <<decoderQ, rendering>>
           /\ (SaysPlay' => SaysPlay) /\ (SaysPause' => SaysPause)
  <2>1. (\A i \in DOMAIN decoderQ' : decoderQ'[i].op \notin Switches) =>
          (SaysPlay' => rendering') /\ (SaysPause' => ~rendering')
    BY <1>2, RenderingSays DEF SwitchInv
  <2>2. RenderingFollowsState'
    BY <2>1 DEF RenderingFollowsState, Switches, SaysPlay, SaysPause
  <2>. QED
    BY <1>2, <2>2 DEF SwitchInv, LastSwitch
<1>3. CASE Prepared \/ UnInitInternal
  <2>1. state' \notin {"kPlaying", "kPaused"} /\ playerPc' # "played"
    BY <1>3 DEF Prepared, UnInitInternal, SetState, CheckState, PlayerReturns, SwitchInv
  <2>. QED
    BY <1>1, <2>1 DEF SaysPlay, SaysPause
<1>4. CASE StartDecoder \/ JoinDecoder
  <2>1. state' \notin {"kPlaying", "kPaused"} /\ playerPc' # "played"
    BY <1>4 DEF StartDecoder, JoinDecoder, SwitchInv, Running, ThreadsExist, PcOp
  <2>. QED
    BY <1>1, <2>1 DEF SaysPlay, SaysPause
<1>5. CASE InitInvalid \/ InitReader \/ HandOver
  <2>1. UNCHANGED <<decoderQ, rendering>> /\ state' \in {state, "kError"}
    BY <1>5 DEF InitInvalid, InitReader, HandOver, SetError, decoderVars, threadVars, renderVars
  <2>2. playerPc' = playerPc \/ (playerPc = "initReader" /\ playerPc' = "initReaderDone")
    <3>1. CASE HandOver
      BY <3>1, FirstReadPc DEF HandOver, Running
    <3>2. CASE InitInvalid \/ InitReader
      BY <3>2 DEF InitInvalid, InitReader
    <3>. QED
      BY <1>5, <3>1, <3>2
  <2>. QED
    BY <1>2, <2>1, <2>2 DEF SaysPlay, SaysPause
<1>6. CASE PlayInternal
  <2>1. UNCHANGED <<decoderQ, rendering, state>> /\ playerPc = "ready" /\ playerPc' # "played"
    BY <1>6 DEF PlayInternal, PlayerRuns, PlayerReturns, decoderVars, threadVars, renderVars
  <2>. QED
    BY <1>2, <2>1 DEF SaysPlay, SaysPause
<1>7. CASE PostPlay \/ SetPlaying
  <2>1. CASE PostPlay
    <3>1. decoderQ' = Append(decoderQ, Task("Play")) /\ playerPc' = "played"
      BY <2>1 DEF PostPlay, SwitchInv, Post
    <3>. QED
      BY <3>1, PostedSwitch DEF Switches, SaysPause
  <2>2. CASE SetPlaying
    <3>1. /\ UNCHANGED <<decoderQ, rendering>> /\ playerPc = "played"
          /\ state' = IF state \in {"kPrepared", "kPaused"} THEN "kPlaying" ELSE state
      BY <2>2 DEF SetPlaying, SetState, CheckState, decoderVars, threadVars, renderVars
    <3>. QED
      BY <1>2, <3>1 DEF SaysPlay, SaysPause
  <2>. QED
    BY <1>7, <2>1, <2>2
<1>15. CASE PauseInternal \/ PostPause
  <2>1. CASE PauseInternal
    <3>1. playerPc' = "paused" /\ state' # "kPlaying"
      BY <2>1 DEF PauseInternal, SetState, CheckState
    <3>. QED
      BY <1>1, <3>1 DEF SaysPlay, SaysPause
  <2>2. CASE PostPause
    <3>1. /\ decoderQ' = Post(decoderThread, decoderQ, Task("Pause")) /\ playerPc' = "ready"
          /\ state' = state /\ state # "kPlaying"
      BY <2>2 DEF PostPause, PlayerReturns, SwitchInv
    <3>2. CASE decoderThread = "running"
      BY <3>1, <3>2, PostedSwitch DEF Switches, SaysPlay, Post
    <3>3. CASE decoderThread # "running"
      BY <1>1, <3>1, <3>3 DEF SwitchInv, SaysPlay, SaysPause
    <3>. QED
      BY <3>2, <3>3
  <2>. QED
    BY <1>15, <2>1, <2>2
<1>8. CASE SeekInternal
  <2>1. /\ decoderQ' = Post(decoderThread, decoderQ, Task("Seek"))
        /\ UNCHANGED <<rendering, state>> /\ playerPc = "ready" /\ playerPc' = "seek"
    BY <1>8 DEF SeekInternal, PlayerRuns, renderVars
  <2>2. Task("Seek") \in DecoderTasks /\ Task("Seek").op \notin Switches
    BY TaskTypes DEF Task, Switches
  <2>3. Shifts(decoderQ, decoderQ', 0)
    BY <2>1, <2>2, SameShifts, PostShifts
  <2>. QED
    BY <2>1, <2>3, ShiftedSwitches DEF SwitchInv, SaysPlay, SaysPause
<1>9. CASE InitDecoder \/ UnInitDecoder
  <2>1. playerPc \in {"initDecoder", "uninitDecoder"}
    BY <1>9, DecoderHead DEF InitDecoder, UnInitDecoder, DecoderRuns, Running, DecoderCalls,
       DecoderCall
  <2>2. state' = state /\ state \in {"kIdle", "kError", "kEnded"}
    BY <1>9, <2>1 DEF InitDecoder, UnInitDecoder, SwitchInv, Running, ThreadsExist, PcOp
  <2>3. playerPc' # "played"
    BY <1>9 DEF InitDecoder, UnInitDecoder
  <2>. QED
    BY <1>1, <2>2, <2>3 DEF SaysPlay, SaysPause
<1>10. CASE SetRendering("Play", TRUE) \/ SetRendering("Pause", FALSE)
  BY <1>10, ServedSwitch DEF SwitchInv, Switches
<1>11. CASE DecoderSeek
  <2>1. /\ decoderQ # <<>> /\ decoderQ' = Tail(decoderQ) /\ decoderQ[1].op = "Seek"
        /\ UNCHANGED <<rendering, state>> /\ playerPc = "seek" /\ playerPc' = "seekDone"
    BY <1>11, DecoderHead DEF DecoderSeek, DecoderRuns, Runs, Running, DecoderCalls, DecoderCall
  <2>2. Shifts(decoderQ, decoderQ', 1)
    BY <2>1, TailShifts
  <2>. QED
    BY <2>1, <2>2, ShiftedSwitches DEF SwitchInv, Switches, SaysPlay, SaysPause
<1>12. CASE \E s \in Streams : DecoderTimerFires(s)
  <2>1. PICK s \in Streams : DecoderTimerFires(s)
    BY <1>12
  <2>2. /\ decoderQ' = Post("running", decoderQ, Process(s))
        /\ UNCHANGED <<rendering, state, playerPc>>
    BY <2>1 DEF DecoderTimerFires, Post, renderVars, playerVars
  <2>3. Process(s) \in DecoderTasks /\ Process(s).op \notin Switches
    BY TaskTypes DEF Process, Switches
  <2>4. Shifts(decoderQ, decoderQ', 0)
    BY <2>2, <2>3, SameShifts, PostShifts
  <2>. QED
    BY <2>2, <2>4, ShiftedSwitches DEF SwitchInv, SaysPlay, SaysPause
<1>13. CASE \E s \in Streams :
              ProcessExit(s) \/ SendFrame(s) \/ CodecError(s) \/ NoPacketYet(s) \/ Completed(s)
  <2>1. PICK s \in Streams :
          ProcessExit(s) \/ SendFrame(s) \/ CodecError(s) \/ NoPacketYet(s) \/ Completed(s)
    BY <1>13
  <2>2. /\ decoderQ' \in {Tail(decoderQ), Post(decoderThread, Tail(decoderQ), Process(s))}
        /\ rendering' = rendering /\ state' \in {state, "kError"} /\ Processes(s)
        /\ playerPc' = playerPc
    BY <2>1 DEF ProcessExit, SendFrame, CodecError, NoPacketYet, Completed, ProcessReturns,
       AsksForPacket, SetError, renderVars, playerVars
  <2>3. decoderQ # <<>> /\ decoderQ[1].op = "Process"
    BY <2>2, DecoderHead DEF Processes, DecoderRuns, Runs
  <2>4. Shifts(decoderQ, Tail(decoderQ), 1) /\ Tail(decoderQ) \in Seq(DecoderTasks)
    BY <2>3, TailShifts, TailMoves
  <2>5. Process(s) \in DecoderTasks /\ Process(s).op \notin Switches
    BY TaskTypes DEF Process, Switches
  <2>6. Shifts(decoderQ, decoderQ', 1)
    BY <2>2, <2>4, <2>5, PostShifts
  <2>. QED
    BY <2>2, <2>3, <2>6, ShiftedSwitches DEF SwitchInv, Switches, SaysPlay, SaysPause
<1>14. CASE \/ InitIgnored \/ InitReaderIfNeed \/ PostReaderSeek \/ QuitDecoder \/ QuitReader
            \/ JoinReader \/ OnError \/ PlayerExits \/ ReadExit \/ ReadHold \/ ReadFrame
            \/ ReaderSeek \/ SeekTo \/ UnInitReader \/ ReaderExits \/ ReaderTimerFires
            \/ DecoderExits \/ \E s \in Streams : DropPacket(s) \/ SendPacket(s) \/ Drain(s)
  <2>1. UNCHANGED <<decoderQ, rendering, state>>
    BY <1>14 DEF InitIgnored, InitReaderIfNeed, PostReaderSeek, QuitDecoder, QuitReader,
       JoinReader, OnError, PlayerExits, ReadExit, ReadHold, ReadFrame, ReaderSeek, SeekTo,
       UnInitReader, ReaderExits, ReaderTimerFires, DecoderExits, DropPacket, SendPacket, Drain,
       decoderVars, threadVars, renderVars
  <2>2. playerPc' = playerPc \/ (playerPc \notin {"played", "paused"} /\ playerPc' # "played")
    <3>1. CASE ReadExit \/ ReadHold
      BY <3>1, FirstReadPc DEF ReadExit, ReadHold, Running
    <3>2. CASE UnInitReader
      BY <3>2, ReaderHead DEF UnInitReader, Running, ReaderCalls, ReaderCall
    <3>3. CASE \/ InitIgnored \/ InitReaderIfNeed \/ PostReaderSeek \/ QuitDecoder
               \/ QuitReader \/ JoinReader \/ OnError \/ PlayerExits
      BY <3>3 DEF InitIgnored, InitReaderIfNeed, PostReaderSeek, QuitDecoder, QuitReader,
         JoinReader, OnError, PlayerExits, PlayerRuns, PlayerReturns
    <3>4. CASE \/ ReadFrame \/ ReaderSeek \/ SeekTo \/ ReaderExits \/ ReaderTimerFires
               \/ DecoderExits \/ \E s \in Streams : DropPacket(s) \/ SendPacket(s) \/ Drain(s)
      BY <3>4 DEF ReadFrame, ReaderSeek, SeekTo, ReaderExits, ReaderTimerFires, DecoderExits,
         DropPacket, SendPacket, Drain, playerVars
    <3>. QED
      BY <1>14, <3>1, <3>2, <3>3, <3>4
  <2>. QED
    BY <1>2, <2>1, <2>2 DEF SaysPlay, SaysPause
<1>. QED
  BY <1>3, <1>4, <1>5, <1>6, <1>7, <1>8, <1>9, <1>10, <1>11, <1>12, <1>13, <1>14, <1>15
  DEF Inside, PlayerStep, ReaderStep, DecoderStep, ProcessInternal

\* At first nothing plays and nothing is queued.
LEMMA InitSwitch == Init => SwitchInv
  BY DEF Init, SwitchInv, LastSwitch, RenderingFollowsState

\* Every step keeps what the switches say.
LEMMA NextSwitch ==
  ASSUME IInv, IInv', SwitchInv, [Next]_vars
  PROVE  SwitchInv'
<1>1. CASE UNCHANGED <<decoderQ, rendering, state, decoderThread, playerPc>>
  BY <1>1 DEF SwitchInv, LastSwitch, RenderingFollowsState, SaysPlay, SaysPause
<1>2. CASE UNCHANGED vars \/ Ended \/ Client
  BY <1>1, <1>2 DEF vars, playerVars, decoderVars, threadVars, renderVars, Ended, Client,
     CallInit, Call, CallUnInit, StopPlayer, JoinPlayer, ClientPosts
<1>3. CASE fault = "none" /\ Inside
  BY <1>3, InsideKeepsSwitchers, InsideKeepsSwitches DEF IInv, SwitchInv
<1>. QED
  BY <1>2, <1>3 DEF Next, Inside

\* Once the decoder thread has served its switches, the renders play exactly when the
\* player is kPlaying, and stand still when it is kPaused.
THEOREM SpecRenderingFollowsState == Spec => []RenderingFollowsState
<1>1. SwitchInv => RenderingFollowsState
  BY DEF SwitchInv
<1>. QED
  BY <1>1, InitSwitch, NextSwitch, SpecIInv, PTL DEF Spec

================================================================================
