----------------------------- MODULE TaskMailbox -----------------------------
(***************************************************************************)
(* What an EventLoop promises to the threads that hand it work with        *)
(* QueueInLoop, without locks, eventfds or epoll: a mailbox.  A task is    *)
(* accepted once, tasks are handled one at a time in the order in which    *)
(* they were accepted, and while the mailbox is open every accepted task   *)
(* is eventually handled.  Once it is closed (EventLoop::Stop, or the end  *)
(* of the process when epoll_wait fails) tasks may be left behind.         *)
(***************************************************************************)
EXTENDS Naturals, Sequences

CONSTANT Tasks      \* the function objects given to QueueInLoop, each one unique

VARIABLES
  accepted,         \* the tasks accepted so far, in order
  handled,          \* the tasks handled so far, in order
  open              \* FALSE once the loop was asked to stop or failed

mailVars == <<accepted, handled, open>>

Init ==
  /\ accepted = <<>>
  /\ handled = <<>>
  /\ open = TRUE

\* A producer hands over a task that nobody handed over before.
Accept(t) ==
  /\ \A i \in 1..Len(accepted) : accepted[i] # t
  /\ accepted' = Append(accepted, t)
  /\ UNCHANGED <<handled, open>>

\* The owner handles the oldest task not handled yet.
Handle ==
  /\ Len(handled) < Len(accepted)
  /\ handled' = Append(handled, accepted[Len(handled) + 1])
  /\ UNCHANGED <<accepted, open>>

Close ==
  /\ open
  /\ open' = FALSE
  /\ UNCHANGED <<accepted, handled>>

Next ==
  \/ \E t \in Tasks : Accept(t)
  \/ Handle
  \/ Close

Safety == Init /\ [][Next]_mailVars

Spec == Safety /\ WF_mailVars(open /\ Handle)
==============================================================================
