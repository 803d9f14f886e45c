-------------------------------- MODULE ByteFifo --------------------------------
(***************************************************************************)
(* What a RingBufferWrapper promises: bytes come out in the order they     *)
(* went in, a write that finds no room drops the oldest bytes, and a       *)
(* change of the capacity moves what is readable to the new buffer.        *)
(***************************************************************************)
EXTENDS Naturals, Sequences

VARIABLES
  items,     \* the readable bytes, oldest first
  capacity,  \* how many there may be
  written,   \* bytes written so far; the n-th of them is n
  answer     \* what the last BufferRead returned

vars == <<items, capacity, written, answer>>

\* The first n elements of s, what is left without them, and the last n
Front(s, n) == IF n < Len(s) THEN SubSeq(s, 1, n) ELSE s
Dropped(s, n) == IF n < Len(s) THEN SubSeq(s, n + 1, Len(s)) ELSE <<>>
Newest(s, n) == IF n < Len(s) THEN Dropped(s, Len(s) - n) ELSE s

Init ==
  /\ items = <<>>
  /\ capacity \in Nat \ {0}
  /\ written = 0
  /\ answer = <<>>

\* The buffer may grow for the n bytes; what does not fit then is the oldest
Write ==
  /\ capacity' >= capacity
  /\ LET n == written' - written IN
       items' = Newest(items \o [k \in 1 .. n |-> written + k], capacity')
  /\ UNCHANGED answer

Read(n) ==
  /\ answer' = Front(items, n)
  /\ items' = Dropped(items, n)
  /\ UNCHANGED <<capacity, written>>

Seek(n) ==
  /\ items' = Dropped(items, n)
  /\ UNCHANGED <<capacity, written, answer>>

AdjustCapacity ==
  /\ Len(items) <= capacity'
  /\ UNCHANGED <<items, written, answer>>

Clear ==
  /\ items' = <<>>
  /\ UNCHANGED <<capacity, written, answer>>

Next ==
  \/ Write
  \/ \E n \in 0 .. Len(items) : Read(n) \/ Seek(n)
  \/ AdjustCapacity
  \/ Clear

Spec == Init /\ [][Next]_vars

=============================================================================
