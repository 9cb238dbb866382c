------------------------------ MODULE TaskPool -------------------------------
(***************************************************************************)
(* What a ThreadPool promises to the threads that call AddTask, without    *)
(* its mutex and its condition variable: tasks are started once each, in   *)
(* the order in which they were added, never more of them at a time than   *)
(* there are threads; and while the pool is open, a task that waits is     *)
(* started as soon as a thread is free.  Once the pool is closed           *)
(* (ThreadPool::Stop) a task may be left behind.                           *)
(***************************************************************************)
EXTENDS Naturals, Sequences, FiniteSets

CONSTANTS
  Tasks,            \* the function objects given to AddTask, each one unique
  Size              \* how many threads the pool has

VARIABLES
  accepted,         \* the tasks added so far, in order
  started,          \* how many of them were started
  running,          \* the tasks being executed
  open              \* FALSE once the pool was told to stop

poolVars == <<accepted, started, running, open>>

Init ==
  /\ accepted = <<>>
  /\ started = 0
  /\ running = {}
  /\ open = TRUE

Accept(t) ==
  /\ \A i \in 1..Len(accepted) : accepted[i] # t
  /\ accepted' = Append(accepted, t)
  /\ UNCHANGED <<started, running, open>>

\* A free thread starts the oldest task not started yet.
Start ==
  /\ started < Len(accepted)
  /\ Cardinality(running) < Size
  /\ started' = started + 1
  /\ running' = running \cup {accepted[started + 1]}
  /\ UNCHANGED <<accepted, open>>

Finish(t) ==
  /\ t \in running
  /\ running' = running \ {t}
  /\ UNCHANGED <<accepted, started, open>>

Close ==
  /\ open
  /\ open' = FALSE
  /\ UNCHANGED <<accepted, started, running>>

Next ==
  \/ \E t \in Tasks : Accept(t) \/ Finish(t)
  \/ Start
  \/ Close

Safety == Init /\ [][Next]_poolVars

Spec == Safety /\ WF_poolVars(open /\ Start)
==============================================================================
