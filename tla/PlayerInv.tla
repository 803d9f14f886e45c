------------------------------- MODULE PlayerInv -------------------------------
(***************************************************************************)
(* The inductive invariant of Player that the theorems of PlayerProofs     *)
(* rest on: which task a BlockingCall waits for, what exists while a       *)
(* decode loop may run, and how the serials of a seek are ordered across   *)
(* the three threads.                                                      *)
(***************************************************************************)
EXTENDS Player

\* The API call that is at playerPc, the head of the player's queue.
PcOp(pc) ==
  IF pc \in {"initReader", "initReaderDone", "initDecoder", "initDecoderDone"} THEN "Init"
  ELSE IF pc \in {"play", "played"} THEN "Play"
  ELSE IF pc = "paused" THEN "Pause"
  ELSE IF pc \in {"seek", "seekDone"} THEN "Seek"
  ELSE "UnInit"

PlayerHead ==
  playerPc # "ready" => playerQ # <<>> /\ Head(playerQ).op = PcOp(playerPc)

\* Init is the first task: nothing else runs on a player that is kIdle.
InitFirst ==
  /\ clientPc = "new" =>
       /\ playerQ = <<>> /\ playerPc = "ready" /\ state = "kIdle"
       /\ readerThread = "null" /\ decoderThread = "null"
  /\ clientPc \in {"new", "using", "uninit"} => playerThread = "running"
  /\ clientPc # "new" /\ state = "kIdle" => playerQ # <<>> /\ Head(playerQ).op = "Init"

\* A BlockingCall's task is queued only while the player waits for it, and once.
ReaderCall(op) == op \in {"InitReader", "FirstRead", "UnInitReader"}
ReaderCalls ==
  /\ \A i \in DOMAIN readerQ : ReaderCall(readerQ[i].op) =>
       playerPc = IF readerQ[i].op = "UnInitReader" THEN "uninitReader" ELSE "initReader"
  /\ \A i, j \in DOMAIN readerQ :
       ReaderCall(readerQ[i].op) /\ ReaderCall(readerQ[j].op) => i = j

DecoderCall(op) == op \in {"InitDecoder", "Seek", "UnInitDecoder"}
DecoderCalls ==
  /\ \A i \in DOMAIN decoderQ : DecoderCall(decoderQ[i].op) =>
       playerPc = CASE decoderQ[i].op = "InitDecoder"   -> "initDecoder"
                    [] decoderQ[i].op = "Seek"          -> "seek"
                    [] decoderQ[i].op = "UnInitDecoder" -> "uninitDecoder"
  /\ \A i, j \in DOMAIN decoderQ :
       DecoderCall(decoderQ[i].op) /\ DecoderCall(decoderQ[j].op) => i = j

\* Until InitDecoder has run nothing was seeked and no loop exists.
Starting ==
  (state = "kIdle" /\ playerPc = "ready")
    \/ playerPc \in {"initReader", "initReaderDone", "initDecoder"}
  => seekId = 0 /\ \A s \in Streams : serial[s] = 0 /\ ~isInit[s]

\* Where the threads of the player exist.
ThreadsExist ==
  /\ playerPc \in {"ready", "paused"} /\ decoderThread = "null" =>
       readerThread = "null" /\ reader = "none" /\ state \in {"kIdle", "kError", "kEnded"}
  /\ playerPc \in {"initDecoder", "initDecoderDone", "play", "played", "seek", "seekDone",
                   "uninitDecoder", "uninitDecoderDone", "joinDecoder"} =>
       decoderThread # "null"
  /\ playerPc # "ready" /\ PcOp(playerPc) = "UnInit" => state \in {"kError", "kEnded"}

\* A decode loop that may run has its render and its reader.
LoopsAlive ==
  /\ \A s \in Streams : isInit[s] => renderAlive[s] /\ reader # "none"
  /\ playerPc \in {"uninitReader", "uninitReaderDone", "joinReader"} =>
       \A s \in Streams : ~isInit[s]

\* The newest seek that the reader may have heard of
SeekBound == IF playerPc \in {"seek", "seekDone"} THEN seekId - 1 ELSE seekId

\* A seek reaches the decode loops before the reader: a packet is never stamped with
\* a serial that a loop it goes to was not told of.
SerialsOrdered ==
  /\ \A s \in Streams :
       isInit[s] => serial[s] = IF playerPc = "seek" THEN seekId - 1 ELSE seekId
  /\ \A i \in DOMAIN readerQ : readerQ[i].op \in SeekOps => readerQ[i].seek <= SeekBound
  /\ readerSerial <= SeekBound
  /\ inflight.packet.serial <= SeekBound
  /\ \A s \in Streams : \A i \in DOMAIN queue[s] : queue[s][i].serial <= SeekBound

\* The packet in the reader's hands has room in its queue.
QueueHasRoom ==
  inflight.stream \in Streams => \A s \in Streams : Len(queue[s]) < QueueBound

Running ==
  /\ PlayerHead /\ InitFirst
  /\ ReaderCalls /\ DecoderCalls
  /\ Starting /\ ThreadsExist /\ LoopsAlive
  /\ SerialsOrdered /\ QueueHasRoom

\* What holds of every state, and of every state the program survives: only a
\* refused config makes it end in a fault, by a null task queue.
IInv ==
  /\ TypeOK
  /\ ChecksHold /\ NoDanglingAccess /\ NullOnlyAfterInvalidConfig
  /\ fault = "none" => Running

=============================================================================
