----------------------------- MODULE AudioFileProofs -----------------------------
(***************************************************************************)
(* Proofs about AudioFile, for every size of frames, of header and of       *)
(* calls, and every point at which stdio passes something on, the writer    *)
(* dies or a source opens the file: what a source takes for sound is there, *)
(* it is played from the place and in the frames that the calls ask for,    *)
(* and in cyclic mode every read is answered in full.                       *)
(***************************************************************************)
EXTENDS AudioFile, TLAPS

\* What the argument needs of the types
SizeTypes ==
  /\ written \in Nat /\ onDisk \in Nat /\ size \in Int
  /\ header \in Nat \union {Absent}
  /\ writer \in {"open", "rewound", "completed", "dead"}
  /\ source \in {"none", "measured", "open", "invalid"}
  /\ whole \in BOOLEAN

\* Only whole frames are handed to the writer
WholeFrames == \E frames \in Nat : written = frames * FrameSize

\* The disk has a part of what was written, from its start, and all of it once the writer is
\* through; a header tells of frames only then.
DiskFollows ==
  /\ onDisk <= written
  /\ writer \in {"rewound", "completed"} => onDisk = written
  /\ header > 0 => writer = "completed" /\ header * FrameSize = onDisk

\* The source has seen a part of what is on disk, and all of it if the file was complete
SourceFollows ==
  /\ source \in {"measured", "open"} => header # Absent /\ size <= onDisk
  /\ source \in {"measured", "open"} /\ whole => writer = "completed" /\ size = written

FileInv == SizeTypes /\ WholeFrames /\ DiskFollows /\ SourceFollows

-----------------------------------------------------------------------------

\* More frames are whole frames
LEMMA WholeAdds ==
  ASSUME NEW n \in WriteSizes, WholeFrames
  PROVE  \E frames \in Nat : written + n = frames * FrameSize
  <1>1. PICK frames \in Nat : written = frames * FrameSize
    BY DEF WholeFrames
  <1>2. n \in Nat \ {0} /\ n % FrameSize = 0 /\ FrameSize \in Nat \ {0}
    BY FramesAssumption, SizeAssumption DEF IsWhole
  <1>3. n \div FrameSize \in Nat /\ n = (n \div FrameSize) * FrameSize
    BY <1>2, Z3
  <1>4. written + n = (frames + (n \div FrameSize)) * FrameSize
    BY <1>1, <1>2, <1>3, Z3
  <1> QED
    BY <1>3, <1>4

\* The frames of a header are those of the sound
LEMMA WholeDivides ==
  WholeFrames => written \div FrameSize \in Nat /\ (written \div FrameSize) * FrameSize = written
  <1> SUFFICES ASSUME WholeFrames
               PROVE  written \div FrameSize \in Nat /\ (written \div FrameSize) * FrameSize = written
    OBVIOUS
  <1>1. PICK frames \in Nat : written = frames * FrameSize
    BY DEF WholeFrames
  <1>2. FrameSize \in Nat \ {0}
    BY SizeAssumption
  <1>3. (frames * FrameSize) \div FrameSize = frames
    BY <1>2, Z3
  <1> QED
    BY <1>1, <1>3

LEMMA InitFile == Init => FileInv
  <1>1. 0 \in Nat /\ 0 = 0 * FrameSize
    BY SizeAssumption
  <1>2. Init => whole \in BOOLEAN
    BY DEF Init
  <1> QED
    BY <1>1, <1>2
    DEF Init, FileInv, SizeTypes, WholeFrames, DiskFollows, SourceFollows, Absent

\* A step of the writer, and the end of it
LEMMA WriterFile ==
  ASSUME FileInv,
         (\E n \in WriteSizes : Write(n)) \/ PassesOn \/ Rewinds \/ Completes \/ Dies
  PROVE  FileInv'
  <1> USE DEF FileInv, SizeTypes, DiskFollows, SourceFollows, sourceVars, historyVars, writerVars,
              fileVars
  <1>1. ASSUME NEW n \in WriteSizes, Write(n)
        PROVE  FileInv'
    <2>1. n \in Nat
      BY FramesAssumption
    <2> QED
      BY <1>1, <2>1, WholeAdds DEF Write, WholeFrames
  <1>2. CASE PassesOn
    BY <1>2 DEF PassesOn, WholeFrames, Absent
  <1>3. CASE Rewinds
    BY <1>3 DEF Rewinds, WholeFrames
  <1>4. CASE Completes
    <2>1. header' \in Nat /\ header' * FrameSize = written
      BY <1>4, WholeDivides DEF Completes
    <2> QED
      BY <1>4, <2>1 DEF Completes, WholeFrames, Absent
  <1>5. CASE Dies
    BY <1>5 DEF Dies, WholeFrames
  <1> QED
    BY <1>1, <1>2, <1>3, <1>4, <1>5

\* A step of the source
LEMMA SourceFile ==
  ASSUME FileInv,
         \/ Measures \/ ReadsHeader
         \/ \E n \in ReadSizes : Read(n)
         \/ \E n \in DiscardSizes : DiscardDataSizeInByte(n)
         \/ \E n \in ZeroSizes : FillZeroFront(n)
         \/ \E b \in BOOLEAN : SetCyclicMode(b)
  PROVE  FileInv'
  <1> USE DEF FileInv, SizeTypes, WholeFrames, DiskFollows, SourceFollows, writerVars, fileVars,
              historyVars
  <1>1. CASE Measures
    <2>1. whole' \in BOOLEAN /\ (whole' => writer = "completed")
      BY <1>1 DEF Measures
    <2>2. source' \in {"measured", "invalid"} /\ (source' = "measured" => header # Absent)
      BY <1>1 DEF Measures
    <2>3. size' = onDisk /\ UNCHANGED <<writer, written, header, onDisk>>
      BY <1>1 DEF Measures
    <2> QED
      BY <2>1, <2>2, <2>3
  <1>2. CASE ReadsHeader
    <2>1. CASE header = 0
      BY <1>2, <2>1 DEF ReadsHeader, SizeOfSound
    <2>2. CASE header # 0
      <3>1. header > 0
        BY <1>2, <2>2 DEF ReadsHeader, Absent
      <3>2. header * FrameSize = onDisk
        BY <3>1
      <3> QED
        BY <1>2, <2>2, <3>1, <3>2 DEF ReadsHeader, SizeOfSound
    <2> QED
      BY <2>1, <2>2
  <1>3. CASE UNCHANGED <<writerVars, fileVars, source, size, whole>>
    BY <1>3
  <1>4. Calls => UNCHANGED <<writerVars, fileVars, source, size, whole>>
    BY DEF Calls
  <1>5. CASE \E n \in ReadSizes : Read(n)
    BY <1>3, <1>4, <1>5 DEF Read
  <1> QED
    BY <1>1, <1>2, <1>3, <1>4, <1>5 DEF DiscardDataSizeInByte, FillZeroFront, SetCyclicMode

LEMMA NextFile == FileInv /\ [Next]_vars => FileInv'
  <1> SUFFICES ASSUME FileInv, [Next]_vars
               PROVE  FileInv'
    OBVIOUS
  <1>1. CASE UNCHANGED vars
    BY <1>1
    DEF vars, writerVars, fileVars, sourceVars, historyVars, FileInv, SizeTypes, WholeFrames,
        DiskFollows, SourceFollows
  <1> QED
    BY <1>1, WriterFile, SourceFile DEF Next

\* Whenever a source opens the file, what it takes for sound is on disk, and of a file that
\* WriteCompletion completed it is everything that was written.
THEOREM OpensCorrect == Spec => []OpensAPrefix
  <1>1. FileInv => OpensAPrefix
    BY DEF FileInv, DiskFollows, SourceFollows, OpensAPrefix
  <1> QED
    BY <1>1, InitFile, NextFile, PTL DEF Spec

-----------------------------------------------------------------------------
(* The place of a source *)

\* The place of the source is ahead of what was asked of it by whole rounds of the file
Rounds == \E r \in Nat : place - pos - seek = r * size /\ (r # 0 => wrapped)

PlaceInv ==
  /\ size \in Nat /\ pos \in Int /\ seek \in Int /\ place \in Int
  /\ seek <= 0 /\ pos <= size /\ wrapped \in BOOLEAN /\ cyclic \in BOOLEAN
  /\ source # "open" => pos = 0 /\ seek = 0 /\ place = 0 /\ answer = Nothing
  /\ ~astray => Rounds

\* Reads, discards and zeros of whole frames leave a source at a frame
FrameInv ==
  IsWhole(size) /\ ~astray =>
    /\ IsWhole(pos) /\ IsWhole(seek)
    /\ \A o \in DOMAIN answer : o \in Int /\ (answer[o] > 0 => IsWhole(answer[o] - o))

\* What is left of a division
LEMMA Remainder ==
  ASSUME NEW a \in Nat, NEW b \in Nat \ {0}
  PROVE  a % b \in 0 .. b - 1 /\ \E q \in Nat : a = q * b + (a % b)
  <1>1. a % b \in 0 .. b - 1 /\ a \div b \in Nat /\ a = (a \div b) * b + (a % b)
    BY Z3
  <1>2. QED
    BY <1>1

\* Whole frames are a number of frames
LEMMA WholeIsMultiple ==
  ASSUME NEW a \in Int
  PROVE  IsWhole(a) <=> \E k \in Int : a = k * FrameSize
  <1>1. FrameSize \in Nat \ {0}
    BY SizeAssumption
  <1>2. \A k \in Int : (k * FrameSize) % FrameSize = 0
    BY <1>1, Z3
  <1>3. a % FrameSize = 0 => a \div FrameSize \in Int /\ a = (a \div FrameSize) * FrameSize
    BY <1>1, Z3
  <1>4. QED
    BY <1>2, <1>3 DEF IsWhole

\* Frames and frames are frames
LEMMA WholeSums ==
  ASSUME NEW a \in Int, NEW b \in Int, IsWhole(a), IsWhole(b)
  PROVE  IsWhole(a + b) /\ IsWhole(a - b) /\ IsWhole(-a)
  <1>1. PICK i \in Int : a = i * FrameSize
    BY WholeIsMultiple
  <1>2. PICK j \in Int : b = j * FrameSize
    BY WholeIsMultiple
  <1>3. FrameSize \in Nat
    BY SizeAssumption
  <1>4. a + b = (i + j) * FrameSize /\ a - b = (i - j) * FrameSize /\ -a = (-i) * FrameSize
    BY <1>1, <1>2, <1>3, Z3
  <1>5. i + j \in Int /\ i - j \in Int /\ -i \in Int /\ a + b \in Int /\ a - b \in Int /\ -a \in Int
    OBVIOUS
  <1>6. QED
    BY <1>4, <1>5, WholeIsMultiple

\* Rounds of whole frames are whole frames
LEMMA WholeRounds ==
  ASSUME NEW a \in Int, NEW q \in Int, IsWhole(a)
  PROVE  IsWhole(q * a)
  <1>1. PICK i \in Int : a = i * FrameSize
    BY WholeIsMultiple
  <1>2. FrameSize \in Nat
    BY SizeAssumption
  <1>3. q * a = (q * i) * FrameSize /\ q * i \in Int /\ q * a \in Int
    BY <1>1, <1>2, Z3
  <1>4. QED
    BY <1>3, WholeIsMultiple

\* What a Read does: zeros that were asked for, what comes before the end, and in cyclic mode
\* what comes behind it.
ReadsParts(n, from, zeros, first, rest) ==
  /\ zeros <= n /\ zeros <= -seek /\ (zeros = n \/ zeros = -seek)
  /\ \/ from = pos
     \/ from = 0 /\ pos = size /\ seek = 0 /\ wrapped'
  /\ first = Least(n - zeros, size - from)
  /\ rest = 0 \/ (rest = n - zeros - first /\ size > 0 /\ wrapped')
  /\ cyclic /\ size > 0 => rest = n - zeros - first
  /\ seek' = seek + zeros
  /\ pos' = IF rest > 0 THEN ((rest - 1) % size) + 1 ELSE from + first
  /\ place' = place + zeros + first + rest
  /\ wrapped => wrapped'

AnswersParts(from, zeros, first, rest) ==
  /\ DOMAIN answer' =
       1 .. zeros + first
         \union 2 * zeros + first + 1 .. 2 * zeros + first + rest
  /\ \A o \in DOMAIN answer' :
       answer'[o] = IF o <= zeros THEN 0
                    ELSE IF o <= zeros + first THEN from + o - zeros
                    ELSE ((o - (2 * zeros + first) - 1) % size) + 1

\* Read reads these parts, of which none is less than nothing
LEMMA ReadFacts ==
  ASSUME PlaceInv, NEW n \in Nat, Read(n)
  PROVE  \E from \in Int, zeros, first, rest \in Nat :
           ReadsParts(n, from, zeros, first, rest) /\ AnswersParts(from, zeros, first, rest)
  <1> DEFINE again == cyclic /\ CurrentSizeInternal = 0
             from == IF again THEN AtTheSound ELSE pos
             zeros == Least(n, -seek)
             first == Least(n - zeros, size - from)
             rest == GoesOn(n - zeros - first)
             behind == 2 * zeros + first
  <1>1. /\ seek' = seek + zeros
        /\ pos' = IF rest > 0 THEN AtTheSound + ((rest - 1) % size) + 1 ELSE from + first
        /\ answer' = [o \in 1 .. zeros + first \union behind + 1 .. behind + rest |->
                        IF o <= zeros THEN 0
                        ELSE IF o <= zeros + first THEN from + o - zeros
                        ELSE AtTheSound + ((o - behind - 1) % size) + 1]
        /\ place' = place + (zeros + first + rest)
        /\ wrapped' = (wrapped \/ rest > 0 \/ again)
    BY DEF Read
  <1>2. size \in Nat /\ pos \in Int /\ seek \in Int /\ place \in Int /\ seek <= 0 /\ pos <= size
    BY DEF PlaceInv
  <1>3. /\ zeros \in Nat /\ zeros <= n /\ zeros <= -seek /\ (zeros = n \/ zeros = -seek)
    BY <1>2 DEF Least
  <1>4. /\ from \in Int /\ from <= size
        /\ from = pos \/ (from = 0 /\ pos = size /\ seek = 0 /\ again)
    BY <1>2 DEF AtTheSound, CurrentSizeInternal
  <1> HIDE DEF from, zeros
  <1>5. first \in Nat /\ first <= n - zeros
    BY <1>2, <1>3, <1>4 DEF Least
  <1> HIDE DEF first
  <1>6. /\ rest = 0 \/ (rest = n - zeros - first /\ size > 0)
        /\ cyclic /\ size > 0 => rest = n - zeros - first
    BY <1>2, <1>3, <1>5 DEF GoesOn
  <1>7. rest \in Nat
    BY <1>2, <1>3, <1>5 DEF GoesOn
  <1> HIDE DEF rest
  <1>8. rest > 0 => (rest - 1) % size \in Nat
    BY <1>2, <1>6, <1>7, Remainder
  <1>9. (rest > 0 \/ again => wrapped') /\ (wrapped => wrapped')
    BY <1>1, Zenon
  <1>10. ReadsParts(n, from, zeros, first, rest)
    <2>1. pos' = IF rest > 0 THEN ((rest - 1) % size) + 1 ELSE from + first
      BY <1>1, <1>8 DEF AtTheSound
    <2>2. place' = place + zeros + first + rest
      BY <1>1, <1>2, <1>3, <1>5, <1>7
    <2>3. rest = 0 \/ (rest = n - zeros - first /\ size > 0 /\ wrapped')
      BY <1>6, <1>7, <1>9
    <2>4. from = pos \/ (from = 0 /\ pos = size /\ seek = 0 /\ wrapped')
      BY <1>4, <1>9
    <2>5. wrapped => wrapped'
      BY <1>9
    <2>6. QED
      BY <1>1, <1>3, <1>6, <2>1, <2>2, <2>3, <2>4, <2>5 DEF ReadsParts, first
  <1>11. AnswersParts(from, zeros, first, rest)
    <2>1. DOMAIN answer' = 1 .. zeros + first \union behind + 1 .. behind + rest
      BY <1>1
    <2>2. ASSUME NEW o \in DOMAIN answer', o > zeros + first
          PROVE  AtTheSound + ((o - behind - 1) % size) + 1 = ((o - behind - 1) % size) + 1
      <3>1. behind \in Nat
        BY <1>3, <1>5
      <3> HIDE DEF behind
      <3>2. o \in behind + 1 .. behind + rest /\ rest # 0
        BY <1>3, <1>5, <1>7, <2>1, <2>2, <3>1
      <3>3. o - behind - 1 \in Nat /\ size \in Nat \ {0}
        BY <1>2, <1>6, <1>7, <3>1, <3>2
      <3>4. (o - behind - 1) % size \in Int
        BY <3>3, Remainder
      <3>5. \A a \in Int : 0 + a + 1 = a + 1
        OBVIOUS
      <3> QED
        BY ONLY <3>4, <3>5 DEF AtTheSound
    <2>3. ASSUME NEW o \in DOMAIN answer'
          PROVE  answer'[o] = IF o <= zeros THEN 0
                              ELSE IF o <= zeros + first THEN from + o - zeros
                              ELSE ((o - behind - 1) % size) + 1
      <3>1. CASE o <= zeros + first
        BY <1>1, <2>1, <3>1
      <3>2. CASE ~(o <= zeros + first)
        <4>1. o \in Int /\ o > zeros + first
          BY <1>3, <1>5, <1>7, <2>1, <3>2
        <4> QED
          BY <1>1, <1>3, <1>5, <2>1, <2>2, <4>1
      <3> QED
        BY <3>1, <3>2
    <2> QED
      BY <2>1, <2>3 DEF AnswersParts
  <1>12. QED
    BY <1>3, <1>4, <1>5, <1>7, <1>10, <1>11

\* Nothing is whole frames
LEMMA ZeroIsWhole == IsWhole(0)
  <1>1. FrameSize \in Nat \ {0}
    BY SizeAssumption
  <1> QED
    BY <1>1, Z3 DEF IsWhole

\* A Read leaves the source at its place, up to whole rounds
LEMMA ReadPlace ==
  ASSUME PlaceInv, NEW n \in Nat, Read(n)
  PROVE  PlaceInv'
  <1>1. /\ size \in Nat /\ pos \in Int /\ seek \in Int /\ place \in Int
        /\ seek <= 0 /\ pos <= size /\ wrapped \in BOOLEAN /\ cyclic \in BOOLEAN
        /\ (~astray => Rounds)
    BY DEF PlaceInv
  <1>2. source = "open" /\ source' = source /\ size' = size /\ UNCHANGED <<cyclic, astray>>
    BY DEF Read, Calls
  <1>3. wrapped' \in BOOLEAN
    BY DEF Read
  <1>4. PICK from \in Int, zeros, first, rest \in Nat : ReadsParts(n, from, zeros, first, rest)
    BY ReadFacts
  <1>5. /\ zeros <= n /\ zeros <= -seek
        /\ from = pos \/ (from = 0 /\ pos = size /\ seek = 0 /\ wrapped')
        /\ first <= size - from
        /\ rest = 0 \/ (rest = n - zeros - first /\ size > 0 /\ wrapped')
        /\ first = n - zeros \/ first = size - from
        /\ seek' = seek + zeros /\ place' = place + zeros + first + rest
        /\ wrapped => wrapped'
        /\ rest = 0 => pos' = from + first
        /\ rest > 0 => pos' = ((rest - 1) % size) + 1
    BY <1>1, <1>4 DEF ReadsParts, Least
  <1>6. CASE rest = 0
    <2>1. pos' \in Int /\ seek' \in Int /\ place' \in Int /\ seek' <= 0 /\ pos' <= size
      BY <1>1, <1>5, <1>6
    <2>2. ASSUME ~astray
          PROVE  Rounds'
      <3>1. PICK r \in Nat : place - pos - seek = r * size /\ (r # 0 => wrapped)
        BY <1>1, <2>2 DEF Rounds
      <3>2. CASE from = pos
        <4>1. place' - pos' - seek' = place - pos - seek
          BY <1>1, <1>5, <1>6, <3>2
        <4> QED
          BY <1>2, <1>5, <3>1, <4>1 DEF Rounds
      <3>3. CASE from = 0 /\ pos = size /\ seek = 0 /\ wrapped'
        <4>1. place' - pos' - seek' = (place - pos - seek) + size
          BY <1>1, <1>5, <1>6, <3>3
        <4>2. r * size + size = (r + 1) * size /\ r + 1 \in Nat
          BY <1>1, Z3
        <4> QED
          BY <1>2, <3>1, <3>3, <4>1, <4>2 DEF Rounds
      <3> QED
        BY <1>5, <3>2, <3>3
    <2> QED
      BY <1>1, <1>2, <1>3, <2>1, <2>2 DEF PlaceInv
  <1>7. CASE rest > 0
    <2>1. rest - 1 \in Nat /\ size \in Nat \ {0} /\ wrapped' /\ first = size - from
      BY <1>1, <1>5, <1>7
    <2>2. PICK q \in Nat : rest - 1 = q * size + ((rest - 1) % size)
      BY <2>1, Remainder
    <2>3. (rest - 1) % size \in 0 .. size - 1
      BY <2>1, Remainder
    <2> DEFINE left == (rest - 1) % size
               rounds == q * size
    <2>4. rounds \in Nat
      BY <2>1, <2>2, Z3
    <2>5. left \in 0 .. size - 1 /\ rest - 1 = rounds + left /\ pos' = left + 1
      BY <1>5, <1>7, <2>2, <2>3
    <2> HIDE DEF left, rounds
    <2>6. pos' \in Int /\ seek' \in Int /\ place' \in Int /\ seek' <= 0 /\ pos' <= size
      BY <1>1, <1>5, <2>5
    <2>7. ASSUME ~astray
          PROVE  Rounds'
      <3>1. PICK r \in Nat : place - pos - seek = r * size /\ (r # 0 => wrapped)
        BY <1>1, <2>7 DEF Rounds
      <3>2. \/ place' - pos' - seek' = (place - pos - seek) + size + rounds
            \/ place' - pos' - seek' = (place - pos - seek) + size + size + rounds
        BY <1>1, <1>5, <2>1, <2>4, <2>5
      <3>3. /\ r * size + size + rounds = (r + 1 + q) * size
            /\ r * size + size + size + rounds = (r + 2 + q) * size
            /\ r + 1 + q \in Nat /\ r + 2 + q \in Nat
        BY <1>1, <2>2, Z3 DEF rounds
      <3> QED
        BY <1>2, <2>1, <3>1, <3>2, <3>3 DEF Rounds
    <2> QED
      BY <1>1, <1>2, <1>3, <2>6, <2>7 DEF PlaceInv
  <1> QED
    BY <1>6, <1>7

\* Whatever the source is asked, it keeps its place
LEMMA NextPlace == FileInv /\ PlaceInv /\ [Next]_vars => PlaceInv'
  <1> SUFFICES ASSUME FileInv, PlaceInv, [Next]_vars
               PROVE  PlaceInv'
    OBVIOUS
  <1>1. /\ size \in Nat /\ pos \in Int /\ seek \in Int /\ place \in Int
        /\ seek <= 0 /\ pos <= size /\ wrapped \in BOOLEAN /\ cyclic \in BOOLEAN
        /\ source # "open" => pos = 0 /\ seek = 0 /\ place = 0 /\ answer = Nothing
        /\ (~astray => Rounds)
    BY DEF PlaceInv
  <1>2. CASE UNCHANGED <<sourceVars, place, wrapped, astray>>
    BY <1>2 DEF sourceVars, PlaceInv, Rounds
  <1>3. ASSUME UNCHANGED <<pos, seek, cyclic, answer, place, wrapped, astray>>,
               size' \in Nat, source # "open"
        PROVE  PlaceInv'
    <2>1. pos' = 0 /\ seek' = 0 /\ place' = 0 /\ answer' = Nothing
      BY <1>1, <1>3
    <2>2. \A a \in Nat : 0 - 0 - 0 = 0 * a
      OBVIOUS
    <2>3. Rounds'
      BY <1>3, <2>1, <2>2 DEF Rounds
    <2> QED
      BY <1>1, <1>3, <2>1, <2>3 DEF PlaceInv, Nothing
  <1>4. CASE Measures
    <2>1. size' \in Nat
      BY <1>4 DEF Measures, FileInv, SizeTypes
    <2> QED
      BY <1>3, <1>4, <2>1 DEF Measures
  <1>5. CASE ReadsHeader
    <2>1. header \in Nat /\ (header > 0 => header * FrameSize \in Nat)
      BY <1>5 DEF ReadsHeader, FileInv, SizeTypes, DiskFollows, SourceFollows
    <2>2. size' \in Nat
      BY <1>1, <1>5, <2>1 DEF ReadsHeader, SizeOfSound
    <2> QED
      BY <1>3, <1>5, <2>2 DEF ReadsHeader, historyVars
  <1>6. ASSUME NEW n \in ReadSizes, Read(n)
        PROVE  PlaceInv'
    BY <1>6, ReadPlace, FramesAssumption
  <1>7. ASSUME NEW n \in DiscardSizes, DiscardDataSizeInByte(n)
        PROVE  PlaceInv'
    <2>1. n \in Nat /\ HeaderSize \in Nat
      BY FramesAssumption, SizeAssumption
    <2>2. /\ UNCHANGED <<size, cyclic, wrapped>> /\ source = "open" /\ source' = "open"
          /\ place' = place + n
      BY <1>7 DEF DiscardDataSizeInByte, Calls
    <2> DEFINE skip == ToSkip(n)
               steps == Least(size - (pos + HeaderSize), skip)
    <2>3. skip = seek + n /\ steps <= size - pos /\ steps \in Int
      BY <1>1, <2>1 DEF ToSkip, Least
    <2>4. CASE skip > 0
      <3>1. pos' = pos + steps /\ seek' = 0 /\ astray' = (astray \/ steps # skip)
        BY <1>7, <2>4 DEF DiscardDataSizeInByte
      <3> HIDE DEF skip, steps
      <3>2. ~astray' => ~astray /\ steps = skip
        BY <3>1, Zenon
      <3>3. pos' \in Int /\ pos' <= size /\ place' \in Int
        BY <1>1, <2>1, <2>2, <2>3, <3>1
      <3>4. ~astray' => place' - pos' - seek' = place - pos - seek
        BY <1>1, <2>1, <2>2, <2>3, <3>1, <3>2
      <3> QED
        BY <1>1, <2>2, <3>1, <3>2, <3>3, <3>4 DEF PlaceInv, Rounds
    <2>5. CASE ~(skip > 0)
      <3>1. pos' = pos /\ seek' = skip /\ astray' = astray
        BY <1>7, <2>5 DEF DiscardDataSizeInByte
      <3> HIDE DEF skip, steps
      <3>2. place' - pos' - seek' = place - pos - seek /\ seek' \in Int /\ seek' <= 0 /\ place' \in Int
        BY <1>1, <2>1, <2>2, <2>3, <2>5, <3>1
      <3> QED
        BY <1>1, <2>2, <3>1, <3>2 DEF PlaceInv, Rounds
    <2> QED
      BY <2>4, <2>5
  <1>8. ASSUME NEW n \in ZeroSizes, FillZeroFront(n)
        PROVE  PlaceInv'
    <2>1. n \in Nat
      BY FramesAssumption
    <2>2. /\ UNCHANGED <<size, pos, cyclic, wrapped, astray>> /\ source = "open" /\ source' = "open"
          /\ place' = place - n /\ seek' = seek - n
      BY <1>8 DEF FillZeroFront, Calls
    <2>3. place' - pos' - seek' = place - pos - seek /\ seek' \in Int /\ seek' <= 0 /\ place' \in Int
      BY <1>1, <2>1, <2>2
    <2> QED
      BY <1>1, <2>2, <2>3 DEF PlaceInv, Rounds
  <1>9. ASSUME NEW b \in BOOLEAN, SetCyclicMode(b)
        PROVE  PlaceInv'
    <2>1. /\ UNCHANGED <<source, size, pos, seek, answer, place, wrapped, astray>> /\ cyclic' \in BOOLEAN
      BY <1>9 DEF SetCyclicMode, Calls
    <2> QED
      BY <1>1, <2>1 DEF PlaceInv, Rounds
  <1>10. CASE UNCHANGED vars
    BY <1>2, <1>10 DEF vars, sourceVars, historyVars
  <1>11. CASE (\E n \in WriteSizes : Write(n)) \/ PassesOn \/ Rewinds \/ Completes \/ Dies
    BY <1>2, <1>11 DEF Write, PassesOn, Rewinds, Completes, Dies, sourceVars, historyVars
  <1> QED
    BY <1>4, <1>5, <1>6, <1>7, <1>8, <1>9, <1>10, <1>11 DEF Next

LEMMA InitPlace == Init => PlaceInv
  <1>1. 0 - 0 - 0 = 0 * 0 /\ 0 \in Nat
    OBVIOUS
  <1>2. Init => Rounds
    BY <1>1 DEF Init, Rounds
  <1>3. Init => wrapped \in BOOLEAN /\ cyclic \in BOOLEAN
    BY Zenon DEF Init
  <1> QED
    BY <1>2, <1>3 DEF Init, PlaceInv

\* A source keeps its place through reads, discards and zeros, in cyclic mode up to whole rounds
\* of the file, unless a discard came closer to the end than the header is long.
THEOREM SpecKeepsItsPlace == Spec => []KeepsItsPlace
  <1>1. PlaceInv => KeepsItsPlace
    <2> SUFFICES ASSUME PlaceInv, ~astray
                 PROVE  \/ pos + seek = place
                        \/ wrapped /\ size > 0 /\ (place - pos - seek) % size = 0
      BY DEF KeepsItsPlace
    <2>1. size \in Nat /\ pos \in Int /\ seek \in Int /\ place \in Int
      BY DEF PlaceInv
    <2>2. PICK r \in Nat : place - pos - seek = r * size /\ (r # 0 => wrapped)
      BY DEF PlaceInv, Rounds
    <2>3. CASE r = 0 \/ size = 0
      <3>1. r * size = 0
        BY <2>1, <2>3, Z3
      <3> QED
        BY <2>1, <2>2, <3>1
    <2>4. CASE r # 0 /\ size \in Nat \ {0}
      <3>1. (r * size) % size = 0
        BY <2>4, Z3
      <3> QED
        BY <2>1, <2>2, <2>4, <3>1
    <2> QED
      BY <2>1, <2>3, <2>4
  <1>2. FileInv /\ PlaceInv /\ [Next]_vars => FileInv' /\ PlaceInv'
    BY NextFile, NextPlace
  <1> QED
    BY <1>1, <1>2, InitFile, InitPlace, PTL DEF Spec

\* A source in cyclic mode answers every read in full, however short the file and long the read
\* are; only a read that takes zeros and comes to the end leaves a gap as long as the zeros.
THEOREM SpecCyclicFillsTheBuffer == Spec => CyclicFillsTheBuffer
  <1> DEFINE Fills ==
        \A n \in ReadSizes : Read(n) /\ cyclic /\ size > 0 =>
          \/ DOMAIN answer' = 1 .. n
          \/ seek < 0 /\ n + seek > size - pos
  <1>1. PlaceInv => Fills
    <2> SUFFICES ASSUME PlaceInv, NEW n \in ReadSizes, Read(n), cyclic, size > 0
                 PROVE  \/ DOMAIN answer' = 1 .. n
                        \/ seek < 0 /\ n + seek > size - pos
      OBVIOUS
    <2>1. n \in Nat /\ size \in Nat /\ pos \in Int /\ seek \in Int /\ seek <= 0
      BY FramesAssumption DEF PlaceInv
    <2>2. PICK from \in Int, zeros, first, rest \in Nat :
            ReadsParts(n, from, zeros, first, rest) /\ AnswersParts(from, zeros, first, rest)
      BY <2>1, ReadFacts
    <2>3. /\ zeros = n \/ zeros = -seek
          /\ zeros <= n /\ zeros <= -seek
          /\ from = pos \/ seek = 0
          /\ rest = n - zeros - first
          /\ first = n - zeros \/ first = size - from
      BY <2>1, <2>2 DEF ReadsParts, Least
    <2>4. DOMAIN answer' =
            1 .. zeros + first \union 2 * zeros + first + 1 .. 2 * zeros + first + rest
      BY <2>2 DEF AnswersParts
    <2>5. CASE rest = 0
      BY <2>1, <2>3, <2>4, <2>5
    <2>6. CASE rest # 0 /\ zeros = 0
      BY <2>1, <2>3, <2>4, <2>6
    <2>7. CASE rest # 0 /\ zeros # 0
      BY <2>1, <2>3, <2>7
    <2> QED
      BY <2>5, <2>6, <2>7
  <1>2. Spec => [][Fills]_vars
    <2>1. FileInv /\ PlaceInv /\ [Next]_vars => FileInv' /\ PlaceInv' /\ [Fills]_vars
      BY <1>1, NextFile, NextPlace
    <2> HIDE DEF Fills
    <2> QED
      BY <2>1, InitFile, InitPlace, PTL DEF Spec
  <1> QED
    BY <1>2 DEF CyclicFillsTheBuffer

-----------------------------------------------------------------------------
(* Frames *)

\* A Read leaves the source at a frame, and has put every byte at its place in one
LEMMA ReadFrames ==
  ASSUME PlaceInv, FrameInv, NEW n \in Nat, IsWhole(n), Read(n)
  PROVE  FrameInv'
  <1>1. size \in Nat /\ pos \in Int /\ seek \in Int
    BY DEF PlaceInv
  <1>2. size' = size /\ astray' = astray
    BY DEF Read, Calls
  <1> SUFFICES ASSUME IsWhole(size), ~astray
               PROVE  /\ IsWhole(pos') /\ IsWhole(seek')
                      /\ \A o \in DOMAIN answer' :
                           o \in Int /\ (answer'[o] > 0 => IsWhole(answer'[o] - o))
    BY <1>2 DEF FrameInv, IsWhole
  <1>3. IsWhole(pos) /\ IsWhole(seek)
    BY DEF FrameInv
  <1>4. PICK from \in Int, zeros, first, rest \in Nat :
          ReadsParts(n, from, zeros, first, rest) /\ AnswersParts(from, zeros, first, rest)
    BY ReadFacts
  <1>5. /\ zeros = n \/ zeros = -seek
        /\ from = pos \/ from = 0
        /\ first = n - zeros \/ first = size - from
        /\ rest = 0 \/ (rest = n - zeros - first /\ size > 0)
        /\ seek' = seek + zeros
        /\ pos' = IF rest > 0 THEN ((rest - 1) % size) + 1 ELSE from + first
    BY <1>1, <1>4 DEF ReadsParts, Least
  <1>6. IsWhole(zeros)
    BY <1>1, <1>3, <1>5, WholeSums
  <1>7. IsWhole(from)
    BY <1>3, <1>5, ZeroIsWhole
  <1>8. IsWhole(n - zeros) /\ IsWhole(size - from) /\ n - zeros \in Int /\ size - from \in Int
    BY <1>1, <1>6, <1>7, WholeSums
  <1>9. IsWhole(first)
    BY <1>5, <1>8
  <1>10. IsWhole(rest)
    BY <1>5, <1>8, <1>9, WholeSums, ZeroIsWhole
  <1>11. IsWhole(seek')
    BY <1>1, <1>3, <1>5, <1>6, WholeSums
  <1>12. ASSUME NEW a \in Nat, size > 0
         PROVE  \E q \in Int : IsWhole(q) /\ (a % size) = a - q
    <2>1. size \in Nat \ {0}
      BY <1>1, <1>12
    <2>2. (a % size) \in 0 .. size - 1
      BY <2>1, Remainder
    <2>3. PICK q \in Nat : a = q * size + (a % size)
      BY <2>1, Remainder
    <2>4. IsWhole(q * size) /\ q * size \in Int
      BY <1>1, WholeRounds
    <2>5. (a % size) \in Int
      BY <2>1, <2>2
    <2> QED
      BY ONLY <2>3, <2>4, <2>5
  <1>13. IsWhole(pos')
    <2>1. CASE rest > 0
      <3>1. PICK q \in Int : IsWhole(q) /\ ((rest - 1) % size) = rest - 1 - q
        BY <1>5, <1>12, <2>1
      <3>2. pos' = rest - q
        BY <1>5, <2>1, <3>1
      <3> QED
        BY <1>10, <3>1, <3>2, WholeSums
    <2>2. CASE ~(rest > 0)
      BY <1>5, <1>7, <1>9, <2>2, WholeSums
    <2> QED
      BY <2>1, <2>2
  <1> DEFINE behind == 2 * zeros + first
  <1>14. IsWhole(behind) /\ behind \in Nat
    <2>1. IsWhole(zeros + zeros) /\ zeros + zeros \in Int /\ 2 * zeros = zeros + zeros
      BY <1>6, WholeSums
    <2> QED
      BY <1>9, <2>1, WholeSums
  <1>15. DOMAIN answer' = 1 .. zeros + first \union behind + 1 .. behind + rest
    BY <1>4 DEF AnswersParts
  <1>16. \A o \in DOMAIN answer' :
           answer'[o] = IF o <= zeros THEN 0
                        ELSE IF o <= zeros + first THEN from + o - zeros
                        ELSE ((o - behind - 1) % size) + 1
    BY <1>4 DEF AnswersParts
  <1> HIDE DEF behind
  <1>17. ASSUME NEW o \in DOMAIN answer', answer'[o] > 0
         PROVE  IsWhole(answer'[o] - o)
    <2>1. o \in Int
      BY <1>14, <1>15
    <2>2. ~(o <= zeros)
      BY <1>16, <1>17
    <2>3. CASE o <= zeros + first
      <3>1. answer'[o] - o = from - zeros
        BY <1>16, <2>1, <2>2, <2>3
      <3> QED
        BY <1>6, <1>7, <3>1, WholeSums
    <2>4. CASE ~(o <= zeros + first)
      <3>1. o \in behind + 1 .. behind + rest /\ rest # 0
        BY <1>14, <1>15, <2>4
      <3>2. o - behind - 1 \in Nat /\ size > 0
        BY <1>5, <1>14, <3>1
      <3>3. PICK q \in Int : IsWhole(q) /\ ((o - behind - 1) % size) = o - behind - 1 - q
        BY <1>12, <3>2
      <3>4. answer'[o] = o - behind - 1 - q + 1
        BY <1>16, <2>2, <2>4, <3>3
      <3>5. answer'[o] - o = (-behind) - q
        BY <1>14, <2>1, <3>3, <3>4
      <3> QED
        BY <1>14, <3>3, <3>5, WholeSums
    <2> QED
      BY <2>3, <2>4
  <1>18. \A o \in DOMAIN answer' : o \in Int
    BY <1>14, <1>15
  <1> QED
    BY <1>11, <1>13, <1>17, <1>18

\* Whatever the source is asked, it stays at a frame
LEMMA NextFrames == PlaceInv /\ FrameInv /\ [Next]_vars => FrameInv'
  <1> SUFFICES ASSUME PlaceInv, FrameInv, [Next]_vars
               PROVE  FrameInv'
    OBVIOUS
  <1>1. size \in Nat /\ pos \in Int /\ seek \in Int
    BY DEF PlaceInv
  <1>2. CASE UNCHANGED <<size, pos, seek, answer, astray>>
    BY <1>2 DEF FrameInv, IsWhole
  <1>3. ASSUME UNCHANGED <<pos, seek, answer>>, source # "open"
        PROVE  FrameInv'
    <2>1. pos' = 0 /\ seek' = 0 /\ DOMAIN answer' = {}
      BY <1>3 DEF PlaceInv, Nothing
    <2>2. IsWhole(pos') /\ IsWhole(seek')
      BY <2>1, ZeroIsWhole
    <2> QED
      BY <2>1, <2>2 DEF FrameInv, IsWhole
  <1>4. CASE Measures \/ ReadsHeader
    BY <1>3, <1>4 DEF Measures, ReadsHeader
  <1>5. ASSUME NEW n \in ReadSizes, Read(n)
        PROVE  FrameInv'
    BY <1>5, ReadFrames, FramesAssumption
  <1>6. ASSUME NEW n \in Nat, IsWhole(n), UNCHANGED <<size, answer>>,
               ~astray' =>
                 /\ ~astray
                 /\ pos' = pos \/ pos' = pos + (seek + n)
                 /\ seek' \in {0, seek + n, seek - n}
        PROVE  FrameInv'
    <2> SUFFICES ASSUME IsWhole(size), ~astray'
                 PROVE  IsWhole(pos') /\ IsWhole(seek')
      BY <1>6 DEF FrameInv, IsWhole
    <2>1. IsWhole(pos) /\ IsWhole(seek)
      BY <1>6 DEF FrameInv
    <2>2. IsWhole(seek + n) /\ IsWhole(seek - n) /\ seek + n \in Int /\ seek - n \in Int
      BY <1>1, <1>6, <2>1, WholeSums
    <2>3. IsWhole(pos + (seek + n))
      BY <1>1, <2>1, <2>2, WholeSums
    <2> QED
      BY <1>6, <2>1, <2>2, <2>3, ZeroIsWhole
  <1>7. ASSUME NEW n \in DiscardSizes, DiscardDataSizeInByte(n)
        PROVE  FrameInv'
    <2>1. n \in Nat /\ IsWhole(n) /\ UNCHANGED <<size, answer>>
      BY <1>7, FramesAssumption DEF DiscardDataSizeInByte, Calls
    <2> DEFINE skip == seek + n
               steps == Least(size - (pos + HeaderSize), skip)
    <2>2. IF skip > 0 THEN pos' = pos + steps /\ seek' = 0 /\ astray' = (astray \/ steps # skip)
                      ELSE seek' = skip /\ pos' = pos /\ astray' = astray
      BY <1>7 DEF DiscardDataSizeInByte, ToSkip
    <2> HIDE DEF steps, skip
    <2>3. ~astray' => /\ ~astray
                      /\ pos' = pos \/ pos' = pos + skip
                      /\ seek' \in {0, skip, seek - n}
      <3>1. CASE skip > 0
        <4>1. ~astray' => ~astray /\ steps = skip
          BY <2>2, <3>1, Zenon
        <4> QED
          BY <2>2, <3>1, <4>1
      <3>2. CASE ~(skip > 0)
        BY <2>2, <3>2
      <3> QED
        BY <3>1, <3>2
    <2> QED
      BY <1>6, <2>1, <2>3 DEF skip
  <1>8. ASSUME NEW n \in ZeroSizes, FillZeroFront(n)
        PROVE  FrameInv'
    <2>1. n \in Nat /\ IsWhole(n)
      BY FramesAssumption
    <2> QED
      BY <1>6, <1>8, <2>1 DEF FillZeroFront, Calls
  <1>9. CASE UNCHANGED vars
    BY <1>2, <1>9 DEF vars, sourceVars, historyVars
  <1>10. CASE \/ \E n \in WriteSizes : Write(n)
              \/ PassesOn \/ Rewinds \/ Completes \/ Dies
              \/ \E b \in BOOLEAN : SetCyclicMode(b)
    BY <1>2, <1>10
    DEF Write, PassesOn, Rewinds, Completes, Dies, SetCyclicMode, Calls, sourceVars, historyVars
  <1> QED
    BY <1>4, <1>5, <1>7, <1>8, <1>9, <1>10 DEF Next

\* Of a file of whole frames every byte is delivered at its place in a frame, through zeros,
\* discards and rounds of any number of frames.
THEOREM SpecFramesStayWhole == Spec => []FramesStayWhole
  <1>1. Init => FrameInv
    BY ZeroIsWhole DEF Init, FrameInv, Nothing
  <1>2. FrameInv => FramesStayWhole
    BY DEF FrameInv, FramesStayWhole
  <1>3. FileInv /\ PlaceInv /\ FrameInv /\ [Next]_vars => FileInv' /\ PlaceInv' /\ FrameInv'
    BY NextFile, NextPlace, NextFrames
  <1> QED
    BY <1>1, <1>2, <1>3, InitFile, InitPlace, PTL DEF Spec

=================================================================================
