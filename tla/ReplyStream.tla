----------------------------- MODULE ReplyStream -----------------------------
(***************************************************************************)
(* What a Connection promises to those who send through it, without        *)
(* buffers, epoll or threads: a stream.  The units of a reply are          *)
(* delivered one by one, in the order in which the replies were accepted,  *)
(* and every one of them in the end.  When the connection is closed, an    *)
(* end of what is still pending may be given up; nothing from its middle.  *)
(***************************************************************************)
EXTENDS Naturals, Sequences

CONSTANT Replies    \* the replies: non-empty sequences of units

VARIABLES
  pending,          \* what was accepted and not yet delivered
  delivered,        \* what was delivered
  open              \* FALSE once the connection is closed or reset

streamVars == <<pending, delivered, open>>

Init ==
  /\ pending = <<>>
  /\ delivered = <<>>
  /\ open = TRUE

Accept(r) ==
  /\ open
  /\ pending' = pending \o r
  /\ UNCHANGED <<delivered, open>>

Deliver ==
  /\ pending # <<>>
  /\ pending' = Tail(pending)
  /\ delivered' = Append(delivered, Head(pending))
  /\ UNCHANGED open

Close ==
  /\ \E n \in 0..Len(pending) : pending' = SubSeq(pending, 1, n)
  /\ open' = FALSE
  /\ UNCHANGED delivered

Next ==
  \/ \E r \in Replies : Accept(r)
  \/ Deliver
  \/ Close

Safety == Init /\ [][Next]_streamVars

Spec == Safety /\ WF_streamVars(Deliver)
==============================================================================
