------------------------------ MODULE PacketFifo ------------------------------
(***************************************************************************)
(* What a packet queue promises its two users, the reader thread that      *)
(* pushes and the decode loop that gets: packets come out once each and in *)
(* the order they were pushed, Clear drops what is queued, and an empty    *)
(* queue answers kEof once the end of the file has been announced and      *)
(* kEAgain before.  PacketQueue is the ring buffer that implements it.     *)
(***************************************************************************)
EXTENDS Sequences

CONSTANTS
  Packet,     \* the packets that may be pushed
  NoPacket    \* what an unsuccessful GetPacket leaves in the caller's packet

VARIABLES
  items,      \* the queued packets, oldest first
  eof,        \* the end of the file was announced
  answer      \* the last answer of GetPacket: [status, packet]

vars == <<items, eof, answer>>

NoAnswer == [status |-> "none", packet |-> NoPacket]

Init ==
  /\ items = <<>>
  /\ eof = FALSE
  /\ answer = NoAnswer

Push(p) ==
  /\ items' = Append(items, p)
  /\ UNCHANGED <<eof, answer>>

Get ==
  /\ items # <<>>
  /\ items' = Tail(items)
  /\ answer' = [status |-> "kOk", packet |-> Head(items)]
  /\ UNCHANGED eof

GetNothing ==
  /\ items = <<>>
  /\ answer' = [status |-> IF eof THEN "kEof" ELSE "kEAgain", packet |-> NoPacket]
  /\ UNCHANGED <<items, eof>>

SetEof ==
  /\ eof' = TRUE
  /\ UNCHANGED <<items, answer>>

Clear ==
  /\ items' = <<>>
  /\ UNCHANGED <<eof, answer>>

Next ==
  \/ \E p \in Packet : Push(p)
  \/ Get
  \/ GetNothing
  \/ SetEof
  \/ Clear

Spec == Init /\ [][Next]_vars

=============================================================================
