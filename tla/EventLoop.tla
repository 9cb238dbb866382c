------------------------------ MODULE EventLoop ------------------------------
(***************************************************************************)
(* One EventLoop (net/EventLoop.{h,cpp}) with its Epoll (net/Epoll.cpp):   *)
(* the loop thread that executes Run, the worker threads that hand it      *)
(* tasks with QueueInLoop, and the thread that calls Stop.                 *)
(*                                                                         *)
(* The threads share m_TaskQueue (protected by m_Mtx), the eventfd         *)
(* m_WakeUpFd and the atomic flag m_Stop.  QueueInLoop pushes under the    *)
(* lock and writes to the eventfd after releasing it; HandleWakeUp reads   *)
(* the eventfd before taking the lock and runs every queued task with the  *)
(* lock held.  The tasks themselves (Connection::SendInLoop) never call    *)
(* QueueInLoop; their effect on a connection belongs to other modules.     *)
(***************************************************************************)
EXTENDS Naturals, Sequences, FiniteSets

CONSTANTS
  Producers,        \* the threads that call QueueInLoop (workers of the pool)
  Tasks,            \* the function objects they queue, each queued once
  Others,           \* the channels of this loop other than m_WakeChannel
  WakeChannel,      \* m_WakeChannel, on the eventfd m_WakeUpFd
  LoopThread,       \* the thread that executes Run
  NoThread,         \* m_Mtx is free
  NoTask,           \* a producer that queues nothing
  MaxEvents         \* Epoll::s_MaxEvents, the size of the epoll_wait array

ASSUME ThreadsAssumption ==
  /\ LoopThread \notin Producers
  /\ NoThread \notin Producers \cup {LoopThread}
  /\ NoTask \notin Tasks
  /\ WakeChannel \notin Others

ASSUME MaxEventsAssumption == MaxEvents \in Nat \ {0}

VARIABLES
  taskQueue,        \* m_TaskQueue
  mtx,              \* the owner of m_Mtx
  wakeUpFd,         \* the counter of the eventfd m_WakeUpFd
  stop,             \* m_Stop
  loopPc,           \* where the loop thread is in Run / HandleWakeUp
  batch,            \* the channels of the last epoll_wait not yet handled
  pc,               \* where each producer is in QueueInLoop
  arg,              \* the function object each producer is queueing
  stopPc,           \* where the thread that calls Stop is
  submitted,        \* history: the tasks pushed so far, in push order
  executed          \* history: the tasks executed so far, in order

loopVars == <<loopPc, batch>>
prodVars == <<pc, arg>>
histVars == <<submitted, executed>>
vars == <<taskQueue, mtx, wakeUpFd, stop, loopVars, prodVars, stopPc, histVars>>

Channels == Others \cup {WakeChannel}

Elements(s) == {s[i] : i \in 1..Len(s)}

\* A task that no producer has queued or is queueing.
Fresh(t) == t \notin Elements(submitted) /\ \A p \in Producers : arg[p] # t

Init ==
  /\ taskQueue = <<>>
  /\ mtx = NoThread
  /\ wakeUpFd = 0
  /\ stop = FALSE
  /\ loopPc = "test"
  /\ batch = {}
  /\ pc = [p \in Producers |-> "idle"]
  /\ arg = [p \in Producers |-> NoTask]
  /\ stopPc = "idle"
  /\ submitted = <<>>
  /\ executed = <<>>

-----------------------------------------------------------------------------
(* QueueInLoop, executed by a producer.                                    *)

\* std::lock_guard<std::mutex> lock(m_Mtx)
QueueLock(p, t) ==
  /\ pc[p] = "idle"
  /\ Fresh(t)
  /\ mtx = NoThread
  /\ mtx' = p
  /\ pc' = [pc EXCEPT ![p] = "push"]
  /\ arg' = [arg EXCEPT ![p] = t]
  /\ UNCHANGED <<taskQueue, wakeUpFd, stop, loopVars, stopPc, histVars>>

\* Mutants of QueuePush: QueueInLoop forgets to call WakeUp; it pushes the
\* function object after having moved it away.
QueuePushNoWakeUp(p) ==
  /\ pc[p] = "push"
  /\ taskQueue' = Append(taskQueue, arg[p])
  /\ submitted' = Append(submitted, arg[p])
  /\ mtx' = NoThread
  /\ pc' = [pc EXCEPT ![p] = "idle"]
  /\ arg' = [arg EXCEPT ![p] = NoTask]
  /\ UNCHANGED <<wakeUpFd, stop, loopVars, stopPc, executed>>

QueuePushMovedFrom(p) ==
  /\ pc[p] = "push"
  /\ taskQueue' = Append(taskQueue, NoTask)
  /\ submitted' = Append(submitted, NoTask)
  /\ mtx' = NoThread
  /\ pc' = [pc EXCEPT ![p] = "wake"]
  /\ arg' = [arg EXCEPT ![p] = NoTask]
  /\ UNCHANGED <<wakeUpFd, stop, loopVars, stopPc, executed>>

\* m_TaskQueue.push(fn), and the guard goes out of scope.
QueuePush(p) ==
  /\ pc[p] = "push"
  /\ taskQueue' = Append(taskQueue, arg[p])
  /\ submitted' = Append(submitted, arg[p])
  /\ mtx' = NoThread
  /\ pc' = [pc EXCEPT ![p] = "wake"]
  /\ arg' = [arg EXCEPT ![p] = NoTask]
  /\ UNCHANGED <<wakeUpFd, stop, loopVars, stopPc, executed>>

\* WakeUp(): the write adds 1 to the counter of the eventfd.
QueueWakeUp(p) ==
  /\ pc[p] = "wake"
  /\ wakeUpFd' = wakeUpFd + 1
  /\ pc' = [pc EXCEPT ![p] = "idle"]
  /\ UNCHANGED <<taskQueue, mtx, stop, loopVars, arg, stopPc, histVars>>

-----------------------------------------------------------------------------
(* Stop, executed by the thread that shuts the server down.                *)

\* Mutant: Stop does not wake the loop up.
StopSetFlagNoWakeUp ==
  /\ stopPc = "idle"
  /\ stop' = TRUE
  /\ stopPc' = "done"
  /\ UNCHANGED <<taskQueue, mtx, wakeUpFd, loopVars, prodVars, histVars>>

\* m_Stop = true
StopSetFlag ==
  /\ stopPc = "idle"
  /\ stop' = TRUE
  /\ stopPc' = "wake"
  /\ UNCHANGED <<taskQueue, mtx, wakeUpFd, loopVars, prodVars, histVars>>

\* WakeUp()
StopWakeUp ==
  /\ stopPc = "wake"
  /\ wakeUpFd' = wakeUpFd + 1
  /\ stopPc' = "done"
  /\ UNCHANGED <<taskQueue, mtx, stop, loopVars, prodVars, histVars>>

-----------------------------------------------------------------------------
(* Run, executed by the loop thread.                                       *)

\* Mutant: while (true)
RunTestForever ==
  /\ loopPc = "test"
  /\ loopPc' = "poll"
  /\ UNCHANGED <<taskQueue, mtx, wakeUpFd, stop, batch, prodVars, stopPc, histVars>>

\* while (!m_Stop)
RunTest ==
  /\ loopPc = "test"
  /\ loopPc' = IF stop THEN "exited" ELSE "poll"
  /\ UNCHANGED <<taskQueue, mtx, wakeUpFd, stop, batch, prodVars, stopPc, histVars>>

\* m_Ep->Loop(10 * 1000) returns b, at most MaxEvents of the ready channels.
\* The eventfd is level-triggered: it is ready while its counter is not 0, and
\* left out only when the array is full.  Any other channel may be ready.
EpollReturn(b) ==
  /\ loopPc = "poll"
  /\ b # {} /\ Cardinality(b) <= MaxEvents
  /\ WakeChannel \in b => wakeUpFd > 0
  /\ wakeUpFd > 0 /\ Cardinality(b) < MaxEvents => WakeChannel \in b
  /\ batch' = b
  /\ loopPc' = "dispatch"
  /\ UNCHANGED <<taskQueue, mtx, wakeUpFd, stop, prodVars, stopPc, histVars>>

\* epoll_wait() timed out: no channel is ready.  The callback the server
\* installs (HttpServer::OnEpollTimeout) is empty.
EpollTimeout ==
  /\ loopPc = "poll"
  /\ wakeUpFd = 0
  /\ loopPc' = "test"
  /\ UNCHANGED <<taskQueue, mtx, wakeUpFd, stop, batch, prodVars, stopPc, histVars>>

\* epoll_wait() fails, and exit(-1) ends the process: it returns EINTR when the
\* process was stopped and continued (SIGSTOP, SIGCONT) while the thread slept.
\* The other threads may take a few more steps while exit runs.
EpollFails ==
  /\ loopPc = "poll"
  /\ loopPc' = "failed"
  /\ UNCHANGED <<taskQueue, mtx, wakeUpFd, stop, batch, prodVars, stopPc, histVars>>

\* ch->HandleEvent() for a channel that is not the wake-up channel.
HandleOther(ch) ==
  /\ loopPc = "dispatch"
  /\ ch \in batch \ {WakeChannel}
  /\ batch' = batch \ {ch}
  /\ UNCHANGED <<taskQueue, mtx, wakeUpFd, stop, loopPc, prodVars, stopPc, histVars>>

\* m_WakeChannel->HandleEvent() calls HandleWakeUp.
EnterHandleWakeUp ==
  /\ loopPc = "dispatch"
  /\ WakeChannel \in batch
  /\ batch' = batch \ {WakeChannel}
  /\ loopPc' = "read"
  /\ UNCHANGED <<taskQueue, mtx, wakeUpFd, stop, prodVars, stopPc, histVars>>

\* The for loop over the batch is over.
DispatchDone ==
  /\ loopPc = "dispatch"
  /\ batch = {}
  /\ loopPc' = "test"
  /\ UNCHANGED <<taskQueue, mtx, wakeUpFd, stop, batch, prodVars, stopPc, histVars>>

-----------------------------------------------------------------------------
(* HandleWakeUp, executed by the loop thread.                              *)

\* read(m_WakeUpFd, ...): returns the counter and resets it.
ReadWakeUpFd ==
  /\ loopPc = "read"
  /\ wakeUpFd' = 0
  /\ loopPc' = "lock"
  /\ UNCHANGED <<taskQueue, mtx, stop, batch, prodVars, stopPc, histVars>>

\* Mutant: HandleWakeUp does not take m_Mtx.
LockTaskQueueNot ==
  /\ loopPc = "lock"
  /\ loopPc' = "drain"
  /\ UNCHANGED <<taskQueue, mtx, wakeUpFd, stop, batch, prodVars, stopPc, histVars>>

\* std::lock_guard<std::mutex> lock(m_Mtx)
LockTaskQueue ==
  /\ loopPc = "lock"
  /\ mtx = NoThread
  /\ mtx' = LoopThread
  /\ loopPc' = "drain"
  /\ UNCHANGED <<taskQueue, wakeUpFd, stop, batch, prodVars, stopPc, histVars>>

\* Mutants of RunTask: if instead of while, so that one task is run per wake-up;
\* the newest task is run first.
RunTaskOnce ==
  /\ loopPc = "drain"
  /\ taskQueue # <<>>
  /\ taskQueue' = Tail(taskQueue)
  /\ executed' = Append(executed, Head(taskQueue))
  /\ mtx' = NoThread
  /\ loopPc' = "dispatch"
  /\ UNCHANGED <<wakeUpFd, stop, batch, prodVars, stopPc, submitted>>

RunTaskNewest ==
  /\ loopPc = "drain"
  /\ taskQueue # <<>>
  /\ taskQueue' = SubSeq(taskQueue, 1, Len(taskQueue) - 1)
  /\ executed' = Append(executed, taskQueue[Len(taskQueue)])
  /\ UNCHANGED <<mtx, wakeUpFd, stop, loopVars, prodVars, stopPc, submitted>>

\* One turn of the while loop: pop the front and call it, the lock held.
RunTask ==
  /\ loopPc = "drain"
  /\ taskQueue # <<>>
  /\ taskQueue' = Tail(taskQueue)
  /\ executed' = Append(executed, Head(taskQueue))
  /\ UNCHANGED <<mtx, wakeUpFd, stop, loopVars, prodVars, stopPc, submitted>>

\* m_TaskQueue.size() is 0: leave HandleWakeUp and release the lock.
UnlockTaskQueue ==
  /\ loopPc = "drain"
  /\ taskQueue = <<>>
  /\ mtx' = NoThread
  /\ loopPc' = "dispatch"
  /\ UNCHANGED <<taskQueue, wakeUpFd, stop, batch, prodVars, stopPc, histVars>>

-----------------------------------------------------------------------------
\* Run is over, Stop returned and the producers have nothing left to queue.
Terminated ==
  /\ loopPc \in {"exited", "failed"} /\ stopPc = "done"
  /\ \A p \in Producers : pc[p] = "idle"
  /\ \A t \in Tasks : ~Fresh(t)
  /\ UNCHANGED vars

Loop ==
  \/ RunTest
  \/ \E b \in SUBSET Channels : EpollReturn(b)
  \/ EpollTimeout
  \/ EpollFails
  \/ \E ch \in Others : HandleOther(ch)
  \/ EnterHandleWakeUp
  \/ DispatchDone
  \/ ReadWakeUpFd
  \/ LockTaskQueue
  \/ RunTask
  \/ UnlockTaskQueue

Producer(p) ==
  \/ \E t \in Tasks : QueueLock(p, t)
  \/ QueuePush(p)
  \/ QueueWakeUp(p)

Next ==
  \/ Loop
  \/ \E p \in Producers : Producer(p)
  \/ StopSetFlag
  \/ StopWakeUp
  \/ Terminated

SafetySpec == Init /\ [][Next]_vars

(***************************************************************************)
(* The loop thread keeps running, and a thread that is inside QueueInLoop  *)
(* or Stop finishes the call; nobody is obliged to start a call.  m_Mtx    *)
(* needs only weak fairness: the producers queue finitely many tasks.  The *)
(* kernel returns the ready list in rotation, so that a channel that stays *)
(* ready while the array overflows is returned sooner or later.  It does   *)
(* not have to fail.                                                       *)
(***************************************************************************)
Fairness ==
  /\ WF_vars(Loop /\ ~EpollFails)
  /\ SF_vars(\E b \in SUBSET Channels : WakeChannel \in b /\ EpollReturn(b))
  /\ \A p \in Producers : WF_vars(QueuePush(p) \/ QueueWakeUp(p))
  /\ WF_vars(StopWakeUp)

Spec == SafetySpec /\ Fairness

-----------------------------------------------------------------------------
(* Properties                                                              *)

TypeOK ==
  /\ taskQueue \in Seq(Tasks)
  /\ mtx \in Producers \cup {LoopThread, NoThread}
  /\ wakeUpFd \in Nat
  /\ stop \in BOOLEAN
  /\ loopPc \in {"test", "poll", "dispatch", "read", "lock", "drain", "exited", "failed"}
  /\ batch \in SUBSET Channels
  /\ pc \in [Producers -> {"idle", "push", "wake"}]
  /\ arg \in [Producers -> Tasks \cup {NoTask}]
  /\ stopPc \in {"idle", "wake", "done"}
  /\ submitted \in Seq(Tasks)
  /\ executed \in Seq(Tasks)

\* A queued task never waits for a wake-up that is not coming: while the queue
\* is not empty the eventfd is readable, or a producer is about to write to it,
\* or the loop thread has read it and is on its way to drain the queue
\* (EventLoop.cpp:95-129, push-then-write against read-then-drain).
NoLostWakeUp ==
  taskQueue # <<>> =>
    \/ wakeUpFd > 0
    \/ \E p \in Producers : pc[p] = "wake"
    \/ loopPc \in {"lock", "drain"}

\* The loop never goes to sleep in epoll_wait on a stop request it has not seen:
\* when it is there with m_Stop set, the eventfd is readable or Stop is about to
\* write to it (EventLoop.cpp:73-77 against the test of line 55), although
\* HandleWakeUp may consume the very write of Stop.
NoLostStop ==
  stop /\ loopPc = "poll" => wakeUpFd > 0 \/ stopPc = "wake"

\* Tasks are executed once each, in the order in which they entered the queue,
\* whatever threads pushed them: what was pushed is what was executed followed
\* by what is still queued.
FifoExactlyOnce == submitted = executed \o taskQueue

\* Not properties but the parts that make the ones above inductive.  The thread
\* inside a critical section owns m_Mtx (EventLoop.h:28); a producer carries a
\* function object exactly while it is about to push it, and not one that was
\* pushed before.
QueueProtected ==
  /\ \A p \in Producers : pc[p] = "push" => mtx = p
  /\ loopPc = "drain" => mtx = LoopThread

ArgHeld ==
  \A p \in Producers :
    /\ pc[p] = "push" <=> arg[p] # NoTask
    /\ arg[p] \notin Elements(submitted)

LoopInv ==
  /\ TypeOK
  /\ QueueProtected
  /\ ArgHeld
  /\ NoLostWakeUp
  /\ NoLostStop
  /\ FifoExactlyOnce

\* While the loop executes the queued tasks the queue only shrinks, so the while
\* loop of HandleWakeUp ends: nothing is pushed between two of its turns.
DrainOnlyShrinks ==
  [][loopPc = "drain" => Len(taskQueue') <= Len(taskQueue)]_vars

\* Unless the loop is stopped or epoll_wait fails, whatever is pushed is executed.
QueuedIsExecuted ==
  \A t \in Tasks :
    t \in Elements(submitted) ~>
      t \in Elements(executed) \/ stop \/ loopPc = "failed"

\* A loop asked to stop leaves Run, unless epoll_wait fails before it can.
StopEndsRun == stop ~> loopPc \in {"exited", "failed"}

\* The loop takes care of what it is handed until it is asked to stop or the
\* process ends: as long, it implements the open mailbox.
Open == ~stop /\ loopPc # "failed"

Mailbox == INSTANCE TaskMailbox
             WITH accepted <- submitted, handled <- executed, open <- Open

ImplementsMailbox == Mailbox!Spec
==============================================================================
