--------------------------- MODULE CoopScheduler ---------------------------
(***************************************************************************)
(* What the event loop and the coroutines promise together: cooperative    *)
(* scheduling.  A task exists from the accept that made it to its end, at  *)
(* most one task runs, a running task is never preempted, and only a       *)
(* waiting task is woken.                                                  *)
(***************************************************************************)
CONSTANTS
  Task,   \* names a task can have; that of one that ended is reused
  Lossy   \* whether a task may be lost

VARIABLES
  running,   \* the task that runs, in a set of at most one
  waiting,   \* tasks that wait for an event
  lost       \* tasks nothing will ever wake

vars == <<running, waiting, lost>>

Idle == running = {}

Init ==
  /\ running = {}
  /\ waiting = {}
  /\ lost = {}

(* A task that does not exist starts running. *)
Spawn(t) ==
  /\ Idle
  /\ t \notin waiting \cup lost
  /\ running' = {t}
  /\ UNCHANGED <<waiting, lost>>

Wake(t) ==
  /\ Idle
  /\ t \in waiting
  /\ running' = {t}
  /\ waiting' = waiting \ {t}
  /\ UNCHANGED lost

(* The running task waits, or ends. *)
Park(t) ==
  /\ running = {t}
  /\ running' = {}
  /\ waiting' = waiting \cup {t}
  /\ UNCHANGED lost

End(t) ==
  /\ running = {t}
  /\ running' = {}
  /\ UNCHANGED <<waiting, lost>>

(* The running task gives up the thread and no wake-up is arranged for it.  *)
Lose(t) ==
  /\ Lossy
  /\ running = {t}
  /\ running' = {}
  /\ lost' = lost \cup {t}
  /\ UNCHANGED waiting

Next == \E t \in Task : Spawn(t) \/ Wake(t) \/ Park(t) \/ End(t) \/ Lose(t)

Spec == Init /\ [][Next]_vars
=============================================================================
