--------------------------- MODULE EventLoopProofs ---------------------------
(***************************************************************************)
(* Proofs about EventLoop for any number of producers, tasks and channels: *)
(* LoopInv is inductive, hence no wake-up and no stop request is lost and  *)
(* tasks are executed once each in queueing order; and every step of the   *)
(* loop is a step of the mailbox of TaskMailbox.                           *)
(***************************************************************************)
EXTENDS EventLoop, QueueLemmas

-----------------------------------------------------------------------------
(* The invariant.                                                          *)

\* The invariant holds before the first task.
LEMMA InitLoopInv == Init => LoopInv
<1> SUFFICES ASSUME Init PROVE LoopInv
  OBVIOUS
<1>1. TypeOK
  <2>1. stop \in BOOLEAN
    BY Zenon DEF Init
  <2>2. <<>> \in Seq(Tasks)
    BY EmptySeq
  <2> QED BY <2>1, <2>2 DEF Init, TypeOK
<1>2. QueueProtected /\ ArgHeld
  BY DEF Init, QueueProtected, ArgHeld, Elements
<1>3. NoLostWakeUp /\ NoLostStop
  BY DEF Init, NoLostWakeUp, NoLostStop
<1>4. FifoExactlyOnce
  BY ConcatEmptySeq DEF Init, FifoExactlyOnce, TypeOK
<1> QED BY <1>1, <1>2, <1>3, <1>4 DEF LoopInv

\* Every step keeps the types: a producer that pushes carries a task.
LEMMA NextTypeOK ==
  ASSUME TypeOK, ArgHeld, [Next]_vars
  PROVE  TypeOK'
<1> USE DEF TypeOK
<1>1. ASSUME NEW p \in Producers, NEW t \in Tasks, QueueLock(p, t)
      PROVE  TypeOK'
  BY <1>1 DEF QueueLock, loopVars, histVars
<1>2. ASSUME NEW p \in Producers, QueuePush(p)
      PROVE  TypeOK'
  <2>1. arg[p] \in Tasks
    BY <1>2 DEF QueuePush, ArgHeld
  <2>2. /\ Append(taskQueue, arg[p]) \in Seq(Tasks)
        /\ Append(submitted, arg[p]) \in Seq(Tasks)
    BY <2>1, AppendProperties
  <2> QED BY <1>2, <2>2 DEF QueuePush, loopVars
<1>3. ASSUME NEW p \in Producers, QueueWakeUp(p)
      PROVE  TypeOK'
  BY <1>3 DEF QueueWakeUp, loopVars, histVars
<1>4. ASSUME StopSetFlag \/ StopWakeUp
      PROVE  TypeOK'
  <2>1. stop' \in BOOLEAN
    BY <1>4, Zenon DEF StopSetFlag, StopWakeUp
  <2> QED
    BY <1>4, <2>1 DEF StopSetFlag, StopWakeUp, loopVars, prodVars, histVars
<1>5. ASSUME RunTest \/ EpollTimeout \/ EpollFails \/ EnterHandleWakeUp \/ DispatchDone
      PROVE  TypeOK'
  BY <1>5 DEF RunTest, EpollTimeout, EpollFails, EnterHandleWakeUp, DispatchDone,
              prodVars, histVars
<1>6. ASSUME NEW b \in SUBSET Channels, EpollReturn(b)
      PROVE  TypeOK'
  BY <1>6 DEF EpollReturn, prodVars, histVars
<1>7. ASSUME NEW ch \in Others, HandleOther(ch)
      PROVE  TypeOK'
  BY <1>7 DEF HandleOther, prodVars, histVars
<1>8. ASSUME ReadWakeUpFd \/ LockTaskQueue \/ UnlockTaskQueue
      PROVE  TypeOK'
  BY <1>8 DEF ReadWakeUpFd, LockTaskQueue, UnlockTaskQueue, prodVars, histVars
<1>9. ASSUME RunTask
      PROVE  TypeOK'
  <2>1. Tail(taskQueue) \in Seq(Tasks) /\ Head(taskQueue) \in Tasks
    BY <1>9, HeadTailProperties DEF RunTask
  <2>2. Append(executed, Head(taskQueue)) \in Seq(Tasks)
    BY <2>1, AppendProperties
  <2> QED BY <1>9, <2>1, <2>2 DEF RunTask, loopVars, prodVars
<1>10. CASE UNCHANGED vars \/ Terminated
  BY <1>10 DEF vars, Terminated, loopVars, prodVars, histVars
<1> QED
  BY <1>1, <1>2, <1>3, <1>4, <1>5, <1>6, <1>7, <1>8, <1>9, <1>10
  DEF Next, Loop, Producer

\* Mutual exclusion on m_Mtx: only its owner is inside a critical section.
LEMMA NextQueueProtected ==
  ASSUME TypeOK, QueueProtected, [Next]_vars
  PROVE  QueueProtected'
<1> USE ThreadsAssumption DEF TypeOK, QueueProtected
<1>1. ASSUME NEW p \in Producers, NEW t \in Tasks, QueueLock(p, t)
      PROVE  QueueProtected'
  BY <1>1 DEF QueueLock, loopVars
<1>2. ASSUME NEW p \in Producers, QueuePush(p) \/ QueueWakeUp(p)
      PROVE  QueueProtected'
  BY <1>2 DEF QueuePush, QueueWakeUp, loopVars
<1>3. ASSUME StopSetFlag \/ StopWakeUp
      PROVE  QueueProtected'
  BY <1>3 DEF StopSetFlag, StopWakeUp, loopVars, prodVars
<1>4. ASSUME \/ RunTest \/ EpollTimeout \/ EpollFails \/ EnterHandleWakeUp \/ DispatchDone
             \/ ReadWakeUpFd \/ LockTaskQueue \/ UnlockTaskQueue
      PROVE  QueueProtected'
  BY <1>4 DEF RunTest, EpollTimeout, EpollFails, EnterHandleWakeUp, DispatchDone,
              ReadWakeUpFd, LockTaskQueue, UnlockTaskQueue, prodVars
<1>5. ASSUME NEW b \in SUBSET Channels, EpollReturn(b)
      PROVE  QueueProtected'
  BY <1>5 DEF EpollReturn, prodVars
<1>6. ASSUME NEW ch \in Others, HandleOther(ch)
      PROVE  QueueProtected'
  BY <1>6 DEF HandleOther, prodVars
<1>7. CASE RunTask
  BY <1>7 DEF RunTask, loopVars, prodVars
<1>8. CASE UNCHANGED vars \/ Terminated
  BY <1>8 DEF vars, Terminated, loopVars, prodVars
<1> QED
  BY <1>1, <1>2, <1>3, <1>4, <1>5, <1>6, <1>7, <1>8 DEF Next, Loop, Producer

\* What a push adds to the history.
LEMMA ElementsOfAppend ==
  ASSUME NEW S, NEW s \in Seq(S), NEW t \in S
  PROVE  Elements(Append(s, t)) = Elements(s) \cup {t}
<1>1. /\ Len(Append(s, t)) = Len(s) + 1
      /\ Len(s) \in Nat
      /\ \A i \in 1..Len(s) : Append(s, t)[i] = s[i]
      /\ Append(s, t)[Len(s) + 1] = t
  BY AppendProperties, LenProperties
<1>2. 1..Len(Append(s, t)) = 1..Len(s) \cup {Len(s) + 1}
  BY <1>1
<1> QED BY <1>1, <1>2 DEF Elements

\* The steps that leave the producers, the queue and its histories alone.
StepOfLoopOnly ==
  \/ StopSetFlag \/ StopWakeUp
  \/ RunTest \/ EpollTimeout \/ EpollFails \/ EnterHandleWakeUp \/ DispatchDone
  \/ \E b \in SUBSET Channels : EpollReturn(b)
  \/ \E ch \in Others : HandleOther(ch)
  \/ ReadWakeUpFd \/ LockTaskQueue \/ UnlockTaskQueue
  \/ Terminated \/ UNCHANGED vars

\* The steps of the loop alone leave the queue and those who queue alone.
LEMMA StepOfLoopOnlyFrame ==
  ASSUME StepOfLoopOnly
  PROVE  UNCHANGED <<pc, arg, submitted, executed, taskQueue>>
BY DEF StepOfLoopOnly, StopSetFlag, StopWakeUp, RunTest, EpollTimeout, EpollFails,
       EnterHandleWakeUp, DispatchDone, EpollReturn, HandleOther, ReadWakeUpFd,
       LockTaskQueue, UnlockTaskQueue, Terminated, vars, loopVars, prodVars,
       histVars

\* Every step is one of those that touch the queue, or one of the loop alone.
LEMMA NextCases ==
  ASSUME [Next]_vars
  PROVE  \/ \E p \in Producers, t \in Tasks : QueueLock(p, t)
         \/ \E p \in Producers : QueuePush(p)
         \/ \E p \in Producers : QueueWakeUp(p)
         \/ RunTask
         \/ StepOfLoopOnly
BY DEF Next, Loop, Producer, StepOfLoopOnly

\* At most one producer carries a task (it owns m_Mtx), and no other will
\* queue that task again.
LEMMA NextArgHeld ==
  ASSUME TypeOK, QueueProtected, ArgHeld, [Next]_vars
  PROVE  ArgHeld'
<1>1. ASSUME NEW p \in Producers, NEW t \in Tasks, QueueLock(p, t)
      PROVE  ArgHeld'
  BY <1>1, ThreadsAssumption
  DEF QueueLock, Fresh, ArgHeld, TypeOK, histVars, Elements
<1>2. ASSUME NEW p \in Producers, QueuePush(p)
      PROVE  ArgHeld'
  <2>1. /\ arg[p] \in Tasks /\ arg[p] # NoTask
        /\ mtx = p
    BY <1>2 DEF QueuePush, ArgHeld, TypeOK, QueueProtected
  <2>2. Elements(submitted') = Elements(submitted) \cup {arg[p]}
    BY <1>2, <2>1, ElementsOfAppend DEF QueuePush, TypeOK
  <2>3. \A q \in Producers \ {p} : pc[q] # "push" /\ arg[q] = NoTask
    BY <2>1 DEF QueueProtected, ArgHeld
  <2>4. NoTask \notin Elements(submitted)
    BY ThreadsAssumption, ElementOfSeq DEF TypeOK, Elements
  <2>5. /\ pc' = [pc EXCEPT ![p] = "wake"]
        /\ arg' = [arg EXCEPT ![p] = NoTask]
    BY <1>2 DEF QueuePush
  <2>6. ASSUME NEW q \in Producers
        PROVE  /\ pc'[q] = "push" <=> arg'[q] # NoTask
               /\ arg'[q] \notin Elements(submitted')
    BY <2>1, <2>2, <2>3, <2>4, <2>5 DEF TypeOK
  <2> QED BY <2>6 DEF ArgHeld, Elements
<1>3. ASSUME NEW p \in Producers, QueueWakeUp(p)
      PROVE  ArgHeld'
  BY <1>3 DEF QueueWakeUp, ArgHeld, TypeOK, histVars, Elements
<1>4. CASE RunTask
  BY <1>4 DEF RunTask, ArgHeld, prodVars, Elements
<1>5. CASE StepOfLoopOnly
  BY <1>5, StepOfLoopOnlyFrame DEF ArgHeld, Elements
<1> QED BY <1>1, <1>2, <1>3, <1>4, <1>5, NextCases

\* Push-then-write against read-then-drain.
LEMMA NextNoLostWakeUp ==
  ASSUME TypeOK, NoLostWakeUp, [Next]_vars
  PROVE  NoLostWakeUp'
<1> USE DEF TypeOK, NoLostWakeUp
<1>1. ASSUME NEW p \in Producers, NEW t \in Tasks, QueueLock(p, t)
      PROVE  NoLostWakeUp'
  BY <1>1 DEF QueueLock, loopVars
<1>2. ASSUME NEW p \in Producers, QueuePush(p)
      PROVE  NoLostWakeUp'
  BY <1>2 DEF QueuePush, loopVars
<1>3. ASSUME NEW p \in Producers, QueueWakeUp(p)
      PROVE  NoLostWakeUp'
  BY <1>3 DEF QueueWakeUp
<1>4. CASE StopSetFlag \/ StopWakeUp
  BY <1>4 DEF StopSetFlag, StopWakeUp, loopVars, prodVars
<1>5. CASE RunTest \/ EpollTimeout \/ EpollFails \/ EnterHandleWakeUp \/ DispatchDone
  BY <1>5 DEF RunTest, EpollTimeout, EpollFails, EnterHandleWakeUp, DispatchDone, prodVars
<1>6. ASSUME NEW b \in SUBSET Channels, EpollReturn(b)
      PROVE  NoLostWakeUp'
  BY <1>6 DEF EpollReturn, prodVars
<1>7. ASSUME NEW ch \in Others, HandleOther(ch)
      PROVE  NoLostWakeUp'
  BY <1>7 DEF HandleOther, prodVars
<1>8. CASE ReadWakeUpFd \/ LockTaskQueue \/ UnlockTaskQueue
  BY <1>8 DEF ReadWakeUpFd, LockTaskQueue, UnlockTaskQueue, prodVars
<1>9. CASE RunTask
  BY <1>9 DEF RunTask, loopVars, prodVars
<1>10. CASE UNCHANGED vars \/ Terminated
  BY <1>10 DEF vars, Terminated, loopVars, prodVars
<1> QED
  BY <1>1, <1>2, <1>3, <1>4, <1>5, <1>6, <1>7, <1>8, <1>9, <1>10
  DEF Next, Loop, Producer

\* Set-then-write against test-then-poll.
LEMMA NextNoLostStop ==
  ASSUME TypeOK, NoLostStop, [Next]_vars
  PROVE  NoLostStop'
<1> USE DEF TypeOK, NoLostStop
<1>1. ASSUME NEW p \in Producers, NEW t \in Tasks, QueueLock(p, t)
      PROVE  NoLostStop'
  BY <1>1 DEF QueueLock, loopVars
<1>2. ASSUME NEW p \in Producers, QueuePush(p) \/ QueueWakeUp(p)
      PROVE  NoLostStop'
  <2>1. CASE QueuePush(p)
    BY <2>1 DEF QueuePush, loopVars
  <2>2. CASE QueueWakeUp(p)
    <3>1. wakeUpFd' > 0
      BY <2>2 DEF QueueWakeUp
    <3> QED BY <3>1
  <2> QED BY <1>2, <2>1, <2>2
<1>3. CASE StopSetFlag \/ StopWakeUp
  <2>1. CASE StopSetFlag
    <3>1. stopPc' = "wake"
      BY <2>1 DEF StopSetFlag
    <3> QED BY <3>1
  <2>2. CASE StopWakeUp
    <3>1. wakeUpFd' > 0
      BY <2>2 DEF StopWakeUp
    <3> QED BY <3>1
  <2> QED BY <1>3, <2>1, <2>2
<1>4. CASE RunTest
  BY <1>4 DEF RunTest
<1>5. CASE EpollTimeout \/ EpollFails \/ EnterHandleWakeUp \/ DispatchDone
  BY <1>5 DEF EpollTimeout, EpollFails, EnterHandleWakeUp, DispatchDone
<1>6. ASSUME NEW b \in SUBSET Channels, EpollReturn(b)
      PROVE  NoLostStop'
  BY <1>6 DEF EpollReturn
<1>7. ASSUME NEW ch \in Others, HandleOther(ch)
      PROVE  NoLostStop'
  BY <1>7 DEF HandleOther
<1>8. CASE ReadWakeUpFd \/ LockTaskQueue \/ UnlockTaskQueue
  BY <1>8 DEF ReadWakeUpFd, LockTaskQueue, UnlockTaskQueue
<1>9. CASE RunTask
  BY <1>9 DEF RunTask, loopVars
<1>10. CASE UNCHANGED vars \/ Terminated
  BY <1>10 DEF vars, Terminated, loopVars
<1> QED
  BY <1>1, <1>2, <1>3, <1>4, <1>5, <1>6, <1>7, <1>8, <1>9, <1>10
  DEF Next, Loop, Producer

\* A push extends what was pushed and the queue alike; executing a task moves it
\* from the front of the queue to the end of what was executed.
LEMMA NextFifoExactlyOnce ==
  ASSUME TypeOK, ArgHeld, FifoExactlyOnce, [Next]_vars
  PROVE  FifoExactlyOnce'
<1> USE DEF TypeOK, FifoExactlyOnce
<1>1. ASSUME NEW p \in Producers, NEW t \in Tasks, QueueLock(p, t)
      PROVE  FifoExactlyOnce'
  BY <1>1 DEF QueueLock, histVars
<1>2. ASSUME NEW p \in Producers, QueuePush(p)
      PROVE  FifoExactlyOnce'
  <2>1. arg[p] \in Tasks
    BY <1>2 DEF QueuePush, ArgHeld
  <2>2. /\ Append(taskQueue, arg[p]) = taskQueue \o <<arg[p]>>
        /\ Append(executed \o taskQueue, arg[p])
             = (executed \o taskQueue) \o <<arg[p]>>
        /\ <<arg[p]>> \in Seq(Tasks)
    BY <2>1, ConcatProperties, AppendIsConcat
  <2>3. Append(executed \o taskQueue, arg[p]) = executed \o Append(taskQueue, arg[p])
    BY <2>2, ConcatAssociative
  <2> QED BY <1>2, <2>3 DEF QueuePush
<1>3. ASSUME NEW p \in Producers, QueueWakeUp(p)
      PROVE  FifoExactlyOnce'
  BY <1>3 DEF QueueWakeUp, histVars
<1>4. CASE RunTask
  BY <1>4, MoveHead DEF RunTask
<1>5. CASE StepOfLoopOnly
  BY <1>5, StepOfLoopOnlyFrame
<1> QED BY <1>1, <1>2, <1>3, <1>4, <1>5, NextCases

\* LoopInv holds of every state of the loop (EventLoop.cpp:37-129).
THEOREM LoopInvariant == SafetySpec => []LoopInv
<1>1. LoopInv /\ [Next]_vars => LoopInv'
  BY NextTypeOK, NextQueueProtected, NextArgHeld, NextNoLostWakeUp,
     NextNoLostStop, NextFifoExactlyOnce
  DEF LoopInv
<1> QED BY InitLoopInv, <1>1, PTL DEF SafetySpec

-----------------------------------------------------------------------------
(* The properties the runs check.                                          *)

\* Every variable keeps its type in every behaviour of the loop
\* (EventLoop.h:20-44).
THEOREM LoopTypeCorrect == SafetySpec => []TypeOK
<1>1. LoopInv => TypeOK
  BY DEF LoopInv
<1> QED BY <1>1, LoopInvariant, PTL

\* No task is left in the queue without a wake-up on its way, for any number of
\* threads that call QueueInLoop (EventLoop.cpp:95-129).
THEOREM WakeUpNeverLost == SafetySpec => []NoLostWakeUp
<1>1. LoopInv => NoLostWakeUp
  BY DEF LoopInv
<1> QED BY <1>1, LoopInvariant, PTL

\* The loop is never put to sleep on a stop request (EventLoop.cpp:55, 73-77).
THEOREM StopNeverLost == SafetySpec => []NoLostStop
<1>1. LoopInv => NoLostStop
  BY DEF LoopInv
<1> QED BY <1>1, LoopInvariant, PTL

\* Tasks are executed once each and in queueing order (EventLoop.cpp:95-129).
THEOREM TasksFifo == SafetySpec => []FifoExactlyOnce
<1>1. LoopInv => FifoExactlyOnce
  BY DEF LoopInv
<1> QED BY <1>1, LoopInvariant, PTL

\* Nothing is pushed while the loop drains the queue, since it holds m_Mtx
\* (EventLoop.cpp:119-128).
THEOREM DrainTerminates == SafetySpec => DrainOnlyShrinks
<1>1. LoopInv /\ [Next]_vars
        => [loopPc = "drain" => Len(taskQueue') <= Len(taskQueue)]_vars
  <2> SUFFICES ASSUME LoopInv, Next, loopPc = "drain"
               PROVE  Len(taskQueue') <= Len(taskQueue)
    OBVIOUS
  <2>1. TypeOK /\ QueueProtected /\ mtx = LoopThread
    BY DEF LoopInv, QueueProtected
  <2>2. Len(taskQueue) \in Nat
    BY <2>1, LenProperties DEF TypeOK
  <2>3. ASSUME NEW p \in Producers, QueuePush(p)
        PROVE  FALSE
    BY <2>1, <2>3, ThreadsAssumption DEF QueuePush, QueueProtected
  <2>4. CASE RunTask
    <3>1. Len(taskQueue') = Len(taskQueue) - 1
      BY <2>1, <2>4, HeadTailProperties DEF RunTask, TypeOK
    <3> QED BY <2>2, <3>1
  <2>5. CASE \E p \in Producers : QueueWakeUp(p)
    BY <2>2, <2>5 DEF QueueWakeUp
  <2>6. CASE \E p \in Producers, t \in Tasks : QueueLock(p, t)
    BY <2>2, <2>6 DEF QueueLock
  <2>7. CASE StepOfLoopOnly
    BY <2>2, <2>7, StepOfLoopOnlyFrame
  <2> QED BY <2>3, <2>4, <2>5, <2>6, <2>7, NextCases
<1> QED BY <1>1, LoopInvariant, PTL DEF SafetySpec, DrainOnlyShrinks

-----------------------------------------------------------------------------
(* Refinement.                                                             *)

\* The mailbox stays open or closed while the loop neither stops nor fails.
LEMMA OpenFrame ==
  ASSUME UNCHANGED <<stop, loopPc>>
  PROVE  Open' = Open
BY Zenon DEF Open

\* The event loop with its lock, its eventfd and its epoll implements the
\* mailbox of TaskMailbox: QueuePush accepts a task, RunTask handles one,
\* StopSetFlag and EpollFails close the mailbox and every other step is a stutter.
THEOREM LoopImplementsMailbox == SafetySpec => Mailbox!Safety
<1>1. Init => Mailbox!Init
  <2> SUFFICES ASSUME Init PROVE Mailbox!Init
    OBVIOUS
  <2>1. submitted = <<>> /\ executed = <<>>
    BY DEF Init
  <2>2. Open = TRUE
    BY Zenon DEF Init, Open
  <2> QED BY <2>1, <2>2 DEF Mailbox!Init
<1>2. LoopInv /\ [Next]_vars => [Mailbox!Next]_(Mailbox!mailVars)
  <2> SUFFICES ASSUME LoopInv, [Next]_vars
               PROVE  [Mailbox!Next]_(Mailbox!mailVars)
    OBVIOUS
  <2> USE DEF Mailbox!mailVars
  <2>1. ASSUME NEW p \in Producers, NEW t \in Tasks, QueueLock(p, t)
        PROVE  UNCHANGED Mailbox!mailVars
    BY <2>1, OpenFrame DEF QueueLock, histVars, loopVars
  <2>2. ASSUME NEW p \in Producers, QueuePush(p)
        PROVE  Mailbox!Accept(arg[p]) /\ arg[p] \in Tasks
    BY <2>2, OpenFrame
    DEF QueuePush, LoopInv, ArgHeld, TypeOK, Elements, Mailbox!Accept, loopVars
  <2>3. ASSUME NEW p \in Producers, QueueWakeUp(p)
        PROVE  UNCHANGED Mailbox!mailVars
    BY <2>3, OpenFrame DEF QueueWakeUp, histVars, loopVars
  <2>4. ASSUME RunTask
        PROVE  Mailbox!Handle
    <3>1. /\ Len(executed) < Len(submitted)
          /\ submitted[Len(executed) + 1] = Head(taskQueue)
      BY <2>4, MoveHead DEF RunTask, LoopInv, TypeOK, FifoExactlyOnce
    <3> QED BY <2>4, <3>1, OpenFrame DEF RunTask, Mailbox!Handle, loopVars
  <2>5. ASSUME StepOfLoopOnly
        PROVE  Mailbox!Close \/ UNCHANGED Mailbox!mailVars
    <3>1. CASE StopSetFlag \/ EpollFails
      <4>1. Open' = FALSE
        BY <3>1, Zenon DEF StopSetFlag, EpollFails, Open
      <4>2. Open \/ Open = FALSE
        BY Zenon DEF Open
      <4> QED BY <2>5, <4>1, <4>2, StepOfLoopOnlyFrame DEF Mailbox!Close
    <3>2. CASE ~(StopSetFlag \/ EpollFails)
      <4>1. stop' = stop
        BY <2>5, <3>2
        DEF StepOfLoopOnly, StopWakeUp, RunTest, EpollTimeout,
            EnterHandleWakeUp, DispatchDone, EpollReturn, HandleOther,
            ReadWakeUpFd, LockTaskQueue, UnlockTaskQueue, Terminated, vars
      <4>2. loopPc' = "failed" <=> loopPc = "failed"
        BY <2>5, <3>2
        DEF StepOfLoopOnly, StopWakeUp, RunTest, EpollTimeout,
            EnterHandleWakeUp, DispatchDone, EpollReturn, HandleOther,
            ReadWakeUpFd, LockTaskQueue, UnlockTaskQueue, Terminated, vars,
            loopVars
      <4>3. Open' = Open
        BY <4>1, <4>2, Zenon DEF Open
      <4> QED BY <2>5, <4>3, StepOfLoopOnlyFrame
    <3> QED BY <3>1, <3>2
  <2> QED BY <2>1, <2>2, <2>3, <2>4, <2>5, NextCases DEF Mailbox!Next
<1> QED BY <1>1, <1>2, LoopInvariant, PTL DEF SafetySpec, Mailbox!Safety
==============================================================================
