-------------------------------- MODULE TaskQueue --------------------------------
(***************************************************************************)
(* What the program counts on when it posts a task to an rtc::Thread:       *)
(* tasks run one at a time and once; those that are posted to run at once   *)
(* in the order in which they were posted; a delayed one not before its     *)
(* time, and behind one with an earlier time that was posted before its     *)
(* own time came; and a queue ends only when it was told to quit and, after *)
(* its last task, found nothing to run at once.  What did not run then was  *)
(* delayed, or posted since that look.  The latter is less than thread.h    *)
(* says of Quit; what it says is ReadyPostsAreDelivered of TaskThread.  A   *)
(* task is a number, and the numbers rise with the posts.                   *)
(***************************************************************************)
EXTENDS Integers

CONSTANTS Tasks, Times, MaxTime

VARIABLES
  now,
  asap,    \* tasks to run at once
  later,   \* delayed tasks: [task, at, since], at when they may run, since when they are here
  running, \* the task that runs, Idle when none does
  looked,  \* whether nothing was found to run at once, and nothing was run or waited for since
  quit,    \* whether the queue was told to quit
  ended

qvars == <<now, asap, later, running, looked, quit, ended>>

Idle == 0
Delayed == [task : Tasks, at : Nat, since : Nat]

Init ==
  /\ now = 0 /\ asap = {} /\ later = {} /\ running = Idle
  /\ looked = FALSE /\ quit = FALSE /\ ended = FALSE

Tick ==
  /\ now < MaxTime
  /\ now' = now + 1
  /\ UNCHANGED <<asap, later, running, looked, quit, ended>>

IsNew(t) == (\A u \in asap : u < t) /\ \A d \in later : d.task < t

Post(t) ==
  /\ ~ended /\ IsNew(t)
  /\ asap' = asap \union {t}
  /\ UNCHANGED <<now, later, running, looked, quit, ended>>

PostDelayed(t, at) ==
  /\ ~ended /\ IsNew(t)
  /\ later' = later \union {[task |-> t, at |-> at, since |-> now]}
  /\ UNCHANGED <<now, asap, running, looked, quit, ended>>

RunFirst(t) ==
  /\ ~ended /\ running = Idle
  /\ \A u \in asap : t <= u
  /\ running' = t /\ asap' = asap \ {t} /\ looked' = FALSE
  /\ UNCHANGED <<now, later, quit, ended>>

RunNext == \E t \in asap : RunFirst(t)

\* Whether d was there in good time to be before e
Precedes(d, e) == d.since < e.at /\ (d.at < e.at \/ (d.at = e.at /\ d.task < e.task))

RunDelayed(e) ==
  /\ ~ended /\ running = Idle
  /\ e.at <= now
  /\ ~\E d \in later : Precedes(d, e)
  /\ running' = e.task /\ later' = later \ {e} /\ looked' = FALSE
  /\ UNCHANGED <<now, asap, quit, ended>>

Finish ==
  /\ running # Idle
  /\ running' = Idle
  /\ UNCHANGED <<now, asap, later, looked, quit, ended>>

Quit ==
  /\ quit' = TRUE
  /\ UNCHANGED <<now, asap, later, running, looked, ended>>

Look ==
  /\ ~ended /\ running = Idle
  /\ asap = {}
  /\ looked' = TRUE
  /\ UNCHANGED <<now, asap, later, running, quit, ended>>

\* A queue that was not told to quit waits, and looks again
Forget ==
  /\ ~quit
  /\ looked' = FALSE
  /\ UNCHANGED <<now, asap, later, running, quit, ended>>

End ==
  /\ quit /\ ~ended /\ looked
  /\ ended' = TRUE /\ asap' = {} /\ later' = {}
  /\ looked' = FALSE
  /\ UNCHANGED <<now, running, quit>>

RunAny == RunNext \/ \E e \in later : RunDelayed(e)

Next ==
  \/ Tick
  \/ \E t \in Tasks : Post(t) \/ \E at \in Times : PostDelayed(t, at)
  \/ RunAny
  \/ Finish
  \/ Quit
  \/ Look \/ Forget
  \/ End

Spec == Init /\ [][Next]_qvars

\* What was posted runs when its time has come, unless the queue is told to quit; then it ends
FairSpec ==
  /\ Spec
  /\ WF_qvars(RunNext)
  /\ WF_qvars(\E e \in later : RunDelayed(e))
  /\ WF_qvars(quit /\ Look)
  /\ WF_qvars(End)

==================================================================================
