------------------------------- MODULE AudioFile -------------------------------
(***************************************************************************)
(* A sound file between the writer that makes it and a source that plays    *)
(* it: FileWriterWithHeader and AudioPcmFileSource of                       *)
(* core/audio/file/file_io.cc, with the header of wav_file_header.cc.       *)
(*                                                                          *)
(* The sound is counted in bytes; the k-th byte that was written is k.      *)
(* stdio keeps what is written until it likes to pass it on, a program that *)
(* dies takes that with it, and a source may open the file at any time.     *)
(***************************************************************************)
EXTENDS Integers

CONSTANTS
  FrameSize,    \* ByteSizePerFrame()
  HeaderSize,   \* bytes of the header: 44 or 58
  WriteSizes, ReadSizes, DiscardSizes, ZeroSizes, \* bytes in one call
  MaxWritten, MaxCalls \* bounds: bytes written, calls of the source

IsWhole(n) == n % FrameSize = 0

ASSUME SizeAssumption == FrameSize \in Nat \ {0} /\ HeaderSize \in Nat \ {0}
ASSUME FramesAssumption ==
  \A n \in WriteSizes \union ReadSizes \union DiscardSizes \union ZeroSizes :
    n \in Nat \ {0} /\ IsWhole(n)
ASSUME BoundsAssumption == MaxWritten \in Nat /\ MaxCalls \in Nat

VARIABLES
  writer,   \* "open", "rewound" in WriteCompletion, "completed", or "dead"
  written,  \* bytes of sound handed to Write
  header,   \* the frames that the header on disk tells of, Absent before there is one
  onDisk,   \* bytes of sound on disk
  source,   \* "none", "measured" in its constructor, "open", or "invalid"
  size,     \* audio_samples_in_bytes_
  pos,      \* ftell, from where the sound begins
  seek,     \* should_seek_size_: zeros to come first, negative
  cyclic,   \* enable_cyclic_mode_
  answer,   \* what the last Read left in the buffer: place to byte, 0 a zero
  calls,    \* how many calls there were
  \* histories
  whole,    \* the file was complete when the source began to open it
  place,    \* bytes delivered and asked to be discarded, less the zeros asked for
  wrapped,  \* the source began the file again
  astray    \* a discard came closer to the end than the header is long

writerVars == <<writer, written>>
fileVars == <<header, onDisk>>
sourceVars == <<source, size, pos, seek, cyclic, answer>>
historyVars == <<whole, place, wrapped, astray>>
vars == <<writerVars, fileVars, sourceVars, calls, historyVars>>

Absent == -1
Nothing == [o \in {} |-> 0]

Least(m, n) == IF m < n THEN m ELSE n

\* The writer has a header of no frames in its buffer
Init ==
  /\ writer = "open" /\ written = 0 /\ header = Absent /\ onDisk = 0
  /\ source = "none" /\ size = 0 /\ pos = 0 /\ seek = 0 /\ cyclic = FALSE
  /\ answer = Nothing /\ calls = 0
  /\ whole = FALSE /\ place = 0 /\ wrapped = FALSE /\ astray = FALSE

-----------------------------------------------------------------------------
(* The writer *)

Write(n) ==
  /\ writer = "open" /\ written + n <= MaxWritten
  /\ written' = written + n
  /\ UNCHANGED <<writer, fileVars, sourceVars, calls, historyVars>>

\* stdio passes on some of what it holds, in order, and not in frames
PassesOn ==
  /\ writer = "open"
  /\ header' = IF header = Absent THEN 0 ELSE header
  /\ onDisk' \in onDisk .. written
  /\ UNCHANGED <<writerVars, sourceVars, calls, historyVars>>

\* Mutant: the header is written before the writer goes back to the start
HeadsFirst ==
  /\ writer = "open"
  /\ writer' = "rewound"
  /\ header' = written \div FrameSize
  /\ UNCHANGED <<written, onDisk, sourceVars, calls, historyVars>>

\* WriteCompletion: going back to the start passes everything on
Rewinds ==
  /\ writer = "open"
  /\ writer' = "rewound"
  /\ header' = 0 /\ onDisk' = written
  /\ UNCHANGED <<written, sourceVars, calls, historyVars>>

\* The header is written again, and closing the file passes it on
Completes ==
  /\ writer = "rewound"
  /\ writer' = "completed"
  /\ header' = written \div FrameSize /\ onDisk' = written
  /\ UNCHANGED <<written, sourceVars, calls, historyVars>>

\* The program that writes is gone, with what stdio held
Dies ==
  /\ writer \in {"open", "rewound"}
  /\ writer' = "dead"
  /\ UNCHANGED <<written, fileVars, sourceVars, calls, historyVars>>

-----------------------------------------------------------------------------
(* The source *)

\* The constructor measures the file.  Too short a file for a header is refused: an
\* RTC_DCHECK fails on the format that was not read.
Measures ==
  /\ source = "none"
  /\ source' = IF header = Absent THEN "invalid" ELSE "measured"
  /\ size' = onDisk
  /\ whole' = (writer = "completed")
  /\ UNCHANGED <<writerVars, fileVars, pos, seek, cyclic, answer, calls, place, wrapped,
                 astray>>

\* What the source takes for the length: a header of no frames is one that was not rewritten
SizeOfSound == IF header = 0 THEN size ELSE header * FrameSize

\* ReadHeader, and then the position is where the sound begins
ReadsHeader ==
  /\ source = "measured"
  /\ source' = "open"
  /\ size' = SizeOfSound
  /\ UNCHANGED <<writerVars, fileVars, pos, seek, cyclic, answer, calls, historyVars>>

Calls ==
  /\ source = "open" /\ calls < MaxCalls
  /\ calls' = calls + 1
  /\ UNCHANGED <<writerVars, fileVars, source, size, whole>>

\* Mutant: a source that begins again begins with its header
AtTheHeader == -HeaderSize

AtTheSound == 0

\* CurrentSizeInternal
CurrentSizeInternal == size - pos - seek

\* Mutant: a read goes on at the start once at most
GoesOnOnce(left) == IF cyclic THEN Least(left, size) ELSE 0

\* What is read from the start on when the end has come
GoesOn(left) == IF cyclic /\ size > 0 THEN left ELSE 0

\* Read, with its call of itself that goes on at the start when the file is at its end.  The
\* pointer was moved behind the zeros when the other call adds them again.
Read(n) ==
  LET again == cyclic /\ CurrentSizeInternal = 0
      from == IF again THEN AtTheSound ELSE pos
      zeros == Least(n, -seek)
      first == Least(n - zeros, size - from)
      rest == GoesOn(n - zeros - first)
      behind == 2 * zeros + first
      got == zeros + first + rest
  IN  /\ Calls
      /\ seek' = seek + zeros
      /\ pos' = IF rest > 0 THEN AtTheSound + ((rest - 1) % size) + 1 ELSE from + first
      /\ answer' = [o \in 1 .. zeros + first \union behind + 1 .. behind + rest |->
                      IF o <= zeros THEN 0
                      ELSE IF o <= zeros + first THEN from + o - zeros
                      ELSE AtTheSound + ((o - behind - 1) % size) + 1]
      /\ place' = place + got
      /\ wrapped' = (wrapped \/ rest > 0 \/ again)
      /\ UNCHANGED <<cyclic, astray>>

\* Mutant: zeros that are still to come are given up
GivesUpZeros(n) == n

\* A discard first takes the zeros that are still to come
ToSkip(n) == seek + n

\* DiscardDataSizeInByte: what there is to skip is counted from the start of the file, not of
\* its sound, so that close to the end it goes back
DiscardDataSizeInByte(n) ==
  LET skip == ToSkip(n)
      steps == Least(size - (pos + HeaderSize), skip)
  IN  /\ Calls
      /\ IF skip > 0
           THEN /\ pos' = pos + steps /\ seek' = 0
                /\ astray' = (astray \/ steps # skip)
           ELSE /\ seek' = skip
                /\ UNCHANGED <<pos, astray>>
      /\ place' = place + n
      /\ UNCHANGED <<cyclic, answer, wrapped>>

\* FillZeroFront does nothing once something was read
FillZeroFront(n) ==
  /\ Calls
  /\ pos = 0
  /\ seek' = seek - n
  /\ place' = place - n
  /\ UNCHANGED <<pos, cyclic, answer, wrapped, astray>>

SetCyclicMode(b) ==
  /\ Calls
  /\ cyclic' = b
  /\ UNCHANGED <<pos, seek, answer, place, wrapped, astray>>

-----------------------------------------------------------------------------

Next ==
  \/ \E n \in WriteSizes : Write(n)
  \/ PassesOn \/ Rewinds \/ Completes \/ Dies
  \/ Measures \/ ReadsHeader
  \/ \E n \in ReadSizes : Read(n)
  \/ \E n \in DiscardSizes : DiscardDataSizeInByte(n)
  \/ \E n \in ZeroSizes : FillZeroFront(n)
  \/ \E b \in BOOLEAN : SetCyclicMode(b)

Spec == Init /\ [][Next]_vars

-----------------------------------------------------------------------------

\* Whenever a source opens the file, while it is written, while it is completed or after the
\* writer died, what it takes for sound is on disk, and all that was passed on when it began; of
\* a completed file it is everything that was written.
OpensAPrefix ==
  /\ source = "open" => size <= onDisk /\ (whole => size = written)
  /\ header > 0 => header * FrameSize = onDisk

\* A source is where its reads, discards and zeros say, so that what delays and skips it keeps
\* it in time with others; in cyclic mode up to whole rounds.  A discard near the end may not.
KeepsItsPlace ==
  ~astray =>
    \/ pos + seek = place
    \/ wrapped /\ size > 0 /\ (place - pos - seek) % size = 0

\* A source in cyclic mode answers every read in full, however short the file and long the read
\* are; but a read that takes zeros and comes to the end leaves a gap as long as the zeros.
CyclicFillsTheBuffer ==
  [][\A n \in ReadSizes : Read(n) /\ cyclic /\ size > 0 =>
       \/ DOMAIN answer' = 1 .. n
       \/ seek < 0 /\ n + seek > size - pos]_vars

\* Of a file of whole frames every byte is delivered at its place in a frame.  A file whose writer
\* died may end inside a frame, and a discard near the end goes back by any number of bytes.
FramesStayWhole ==
  IsWhole(size) /\ ~astray => \A o \in DOMAIN answer : answer[o] > 0 => IsWhole(answer[o] - o)

=================================================================================
