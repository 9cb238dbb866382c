----------------------------- MODULE ThreadPool ------------------------------
(***************************************************************************)
(* The thread pool (net/ThreadPool.{h,cpp}): its threads, the threads that *)
(* call AddTask and the thread that calls Stop.                            *)
(*                                                                         *)
(* The program has two pools.  The pool of TcpServer has one thread per    *)
(* sub-loop and gets one task per sub-loop, EventLoop::Run, that does not  *)
(* return before the loop is stopped; the pool of HttpServer gets one task *)
(* per request from the threads of the first one.                          *)
(*                                                                         *)
(* A thread evaluates the predicate of the condition variable and acts on  *)
(* it without releasing m_Mtx, so that is one step; but it still holds     *)
(* m_Mtx when it has found nothing and goes to block, and Stop sets m_Stop *)
(* without m_Mtx.  A blocked thread can wake up on its own (a spurious     *)
(* wake-up).                                                               *)
(***************************************************************************)
EXTENDS Naturals, Sequences, FiniteSets

CONSTANTS
  Threads,          \* m_Threads
  Submitters,       \* the threads that call AddTask
  Tasks,            \* the function objects they add, each added once
  Returning,        \* those that return whatever the rest of the program does
  NoThread,         \* m_Mtx is free
  NoTask            \* a thread that executes nothing

ASSUME PoolAssumption ==
  /\ NoThread \notin Threads
  /\ NoTask \notin Tasks
  /\ Returning \subseteq Tasks

ASSUME FiniteAssumption == IsFiniteSet(Threads) /\ IsFiniteSet(Submitters)

VARIABLES
  taskQueue,        \* m_TaskQueue
  mtx,              \* the thread that holds m_Mtx while it goes to block
  stop,             \* m_Stop
  pc,               \* where each thread is
  task,             \* the local variable task of each thread
  subPc,            \* where each submitter is in AddTask
  stopPc,           \* where the thread that calls Stop is
  submitted,        \* history: the tasks pushed so far, in push order
  taken             \* history: the tasks popped so far, in order

threadVars == <<pc, task>>
vars == <<taskQueue, mtx, stop, threadVars, subPc, stopPc, submitted, taken>>

Elements(s) == {s[i] : i \in 1..Len(s)}

\* A started thread is about to evaluate while (!m_Stop).
Init ==
  /\ taskQueue = <<>>
  /\ mtx = NoThread
  /\ stop = FALSE
  /\ pc = [th \in Threads |-> "test"]
  /\ task = [th \in Threads |-> NoTask]
  /\ subPc = [s \in Submitters |-> "idle"]
  /\ stopPc = "idle"
  /\ submitted = <<>>
  /\ taken = <<>>

-----------------------------------------------------------------------------
(* AddTask, executed by a submitter.                                       *)

\* Mutant: AddTask notifies only when the queue was empty.
PushIfEmptyNotify(s, t) ==
  /\ subPc[s] = "idle"
  /\ t \notin Elements(submitted)
  /\ mtx = NoThread
  /\ taskQueue' = Append(taskQueue, t)
  /\ submitted' = Append(submitted, t)
  /\ subPc' = [subPc EXCEPT ![s] = IF taskQueue = <<>> THEN "notify" ELSE "idle"]
  /\ UNCHANGED <<mtx, stop, threadVars, stopPc, taken>>

\* { std::lock_guard<std::mutex> lock(m_Mtx); m_TaskQueue.push(task); }
Push(s, t) ==
  /\ subPc[s] = "idle"
  /\ t \notin Elements(submitted)
  /\ mtx = NoThread
  /\ taskQueue' = Append(taskQueue, t)
  /\ submitted' = Append(submitted, t)
  /\ subPc' = [subPc EXCEPT ![s] = "notify"]
  /\ UNCHANGED <<mtx, stop, threadVars, stopPc, taken>>

Waiting == {th \in Threads : pc[th] = "waiting"}

\* m_CondVar.notify_one(): a waiting thread, if there is one, wakes up and has
\* to acquire m_Mtx again.
NotifyOne(s) ==
  /\ subPc[s] = "notify"
  /\ subPc' = [subPc EXCEPT ![s] = "idle"]
  /\ \/ Waiting = {} /\ pc' = pc
     \/ \E th \in Waiting : pc' = [pc EXCEPT ![th] = "acquire"]
  /\ UNCHANGED <<taskQueue, mtx, stop, task, stopPc, submitted, taken>>

-----------------------------------------------------------------------------
(* The function executed by each thread.                                   *)

\* while (!m_Stop)
Test(th) ==
  /\ pc[th] = "test"
  /\ pc' = [pc EXCEPT ![th] = IF stop THEN "exited" ELSE "acquire"]
  /\ UNCHANGED <<taskQueue, mtx, stop, task, subPc, stopPc, submitted, taken>>

\* The thread has acquired m_Mtx, on the way into wait or out of it, and is to
\* evaluate the predicate.
Acquired(th) ==
  /\ pc[th] = "acquire"
  /\ mtx = NoThread

\* Mutants of Take: the task is copied but not popped; the newest is taken.
TakeNoPop(th) ==
  /\ Acquired(th)
  /\ taskQueue # <<>>
  /\ task' = [task EXCEPT ![th] = Head(taskQueue)]
  /\ taken' = Append(taken, Head(taskQueue))
  /\ pc' = [pc EXCEPT ![th] = "run"]
  /\ UNCHANGED <<taskQueue, mtx, stop, subPc, stopPc, submitted>>

TakeNewest(th) ==
  /\ Acquired(th)
  /\ taskQueue # <<>>
  /\ task' = [task EXCEPT ![th] = taskQueue[Len(taskQueue)]]
  /\ taskQueue' = SubSeq(taskQueue, 1, Len(taskQueue) - 1)
  /\ taken' = Append(taken, taskQueue[Len(taskQueue)])
  /\ pc' = [pc EXCEPT ![th] = "run"]
  /\ UNCHANGED <<mtx, stop, subPc, stopPc, submitted>>

\* There is a task: pop it and release m_Mtx, even when m_Stop is set.
Take(th) ==
  /\ Acquired(th)
  /\ taskQueue # <<>>
  /\ task' = [task EXCEPT ![th] = Head(taskQueue)]
  /\ taskQueue' = Tail(taskQueue)
  /\ taken' = Append(taken, Head(taskQueue))
  /\ pc' = [pc EXCEPT ![th] = "run"]
  /\ UNCHANGED <<mtx, stop, subPc, stopPc, submitted>>

\* if (this->m_Stop && this->m_TaskQueue.empty()) return
Leave(th) ==
  /\ Acquired(th)
  /\ taskQueue = <<>> /\ stop
  /\ pc' = [pc EXCEPT ![th] = "exited"]
  /\ UNCHANGED <<taskQueue, mtx, stop, task, subPc, stopPc, submitted, taken>>

\* Mutant: m_Mtx is released before the thread is on the condition variable.
FindNothingUnlocked(th) ==
  /\ Acquired(th)
  /\ taskQueue = <<>> /\ ~stop
  /\ pc' = [pc EXCEPT ![th] = "block"]
  /\ UNCHANGED <<taskQueue, mtx, stop, task, subPc, stopPc, submitted, taken>>

\* The predicate is false: wait will block the thread.
FindNothing(th) ==
  /\ Acquired(th)
  /\ taskQueue = <<>> /\ ~stop
  /\ mtx' = th
  /\ pc' = [pc EXCEPT ![th] = "block"]
  /\ UNCHANGED <<taskQueue, stop, task, subPc, stopPc, submitted, taken>>

\* wait releases m_Mtx and blocks, in one atomic step.
Block(th) ==
  /\ pc[th] = "block"
  /\ mtx' = NoThread
  /\ pc' = [pc EXCEPT ![th] = "waiting"]
  /\ UNCHANGED <<taskQueue, stop, task, subPc, stopPc, submitted, taken>>

SpuriousWakeUp(th) ==
  /\ pc[th] = "waiting"
  /\ pc' = [pc EXCEPT ![th] = "acquire"]
  /\ UNCHANGED <<taskQueue, mtx, stop, task, subPc, stopPc, submitted, taken>>

\* Mutants of Finish: the thread keeps its task; it waits without a predicate.
FinishKeepTask(th) ==
  /\ pc[th] = "run"
  /\ pc' = [pc EXCEPT ![th] = "test"]
  /\ UNCHANGED <<taskQueue, mtx, stop, task, subPc, stopPc, submitted, taken>>

FinishAndWait(th) ==
  /\ pc[th] = "run"
  /\ task' = [task EXCEPT ![th] = NoTask]
  /\ pc' = [pc EXCEPT ![th] = "waiting"]
  /\ UNCHANGED <<taskQueue, mtx, stop, subPc, stopPc, submitted, taken>>

\* task() returns.
Finish(th) ==
  /\ pc[th] = "run"
  /\ task' = [task EXCEPT ![th] = NoTask]
  /\ pc' = [pc EXCEPT ![th] = "test"]
  /\ UNCHANGED <<taskQueue, mtx, stop, subPc, stopPc, submitted, taken>>

-----------------------------------------------------------------------------
(* Stop, executed by the thread that shuts the server down.                *)

\* if (m_Stop) return; m_Stop = true.  The destructor calls Stop once more and
\* returns here.
SetStop ==
  /\ stopPc = "idle"
  /\ ~stop
  /\ stop' = TRUE
  /\ stopPc' = "notify"
  /\ UNCHANGED <<taskQueue, mtx, threadVars, subPc, submitted, taken>>

\* m_CondVar.notify_all()
NotifyAll ==
  /\ stopPc = "notify"
  /\ pc' = [th \in Threads |-> IF th \in Waiting THEN "acquire" ELSE pc[th]]
  /\ stopPc' = "join"
  /\ UNCHANGED <<taskQueue, mtx, stop, task, subPc, submitted, taken>>

\* Every th.join() returned.
Join ==
  /\ stopPc = "join"
  /\ \A th \in Threads : pc[th] = "exited"
  /\ stopPc' = "done"
  /\ UNCHANGED <<taskQueue, mtx, stop, threadVars, subPc, submitted, taken>>

-----------------------------------------------------------------------------
\* Stop returned, nobody is inside AddTask and there is nothing left to add.
Terminated ==
  /\ stopPc = "done"
  /\ \A s \in Submitters : subPc[s] = "idle"
  /\ Tasks \subseteq Elements(submitted)
  /\ UNCHANGED vars

\* What a thread does without being obliged to wait for a task to return or
\* for a wake-up.
Thread(th) ==
  \/ Test(th)
  \/ Take(th)
  \/ Leave(th)
  \/ FindNothing(th)
  \/ Block(th)

Next ==
  \/ \E s \in Submitters : \E t \in Tasks : Push(s, t)
  \/ \E s \in Submitters : NotifyOne(s)
  \/ \E th \in Threads : Thread(th)
  \/ \E th \in Threads : SpuriousWakeUp(th)
  \/ \E th \in Threads : Finish(th)
  \/ SetStop
  \/ NotifyAll
  \/ Join
  \/ Terminated

SafetySpec == Init /\ [][Next]_vars

(***************************************************************************)
(* Threads run; a thread inside AddTask or Stop finishes the call; a task  *)
(* that returns by itself does.  Nobody is obliged to call, and there is   *)
(* no spurious wake-up to count on.                                        *)
(***************************************************************************)
Fairness ==
  /\ \A th \in Threads : WF_vars(Thread(th))
  /\ \A th \in Threads : WF_vars(task[th] \in Returning /\ Finish(th))
  /\ \A s \in Submitters : WF_vars(NotifyOne(s))
  /\ WF_vars(NotifyAll) /\ WF_vars(Join)

Spec == SafetySpec /\ Fairness

-----------------------------------------------------------------------------
(* Properties                                                              *)

TypeOK ==
  /\ taskQueue \in Seq(Tasks)
  /\ mtx \in Threads \cup {NoThread}
  /\ stop \in BOOLEAN
  /\ pc \in [Threads ->
              {"test", "acquire", "block", "waiting", "run", "exited"}]
  /\ task \in [Threads -> Tasks \cup {NoTask}]
  /\ subPc \in [Submitters -> {"idle", "notify"}]
  /\ stopPc \in {"idle", "notify", "join", "done"}
  /\ submitted \in Seq(Tasks)
  /\ taken \in Seq(Tasks)
  /\ \A th \in Threads : task[th] # NoTask <=> pc[th] = "run"

\* The threads that will look into the queue, and the wake-ups on their way.
Awake == {th \in Threads : pc[th] \in {"test", "acquire"}}
Notifying == {s \in Submitters : subPc[s] = "notify"}

\* notify_one is never lost: while a thread is asleep, every task in the queue
\* has a thread or a notification of its own on the way to it.  (That some thread
\* is awake would not be enough for the pool of TcpServer, where a thread that
\* takes a task does not come back: ThreadPool.cpp:30-41 against :61-69.)
EnoughWakeUps ==
  ~stop /\ Waiting # {} =>
    Len(taskQueue) <= Cardinality(Awake) + Cardinality(Notifying)

\* Tasks are taken once each, in the order in which they were added, whatever
\* threads added and took them (ThreadPool.cpp:38-40, 61-66).
TakenInOrder == submitted = taken \o taskQueue

\* No task is executed by two threads at a time.
OneThreadPerTask ==
  \A th1, th2 \in Threads :
    task[th1] = task[th2] /\ task[th1] # NoTask => th1 = th2

\* What the proofs need besides: a thread that goes to block holds m_Mtx and
\* found the queue empty; a task is added once; one that runs was taken.
BlockProtected ==
  \A th \in Threads : pc[th] = "block" => mtx = th /\ taskQueue = <<>>
AddedOnce ==
  \A i, j \in 1..Len(submitted) : submitted[i] = submitted[j] => i = j
RunningWasTaken ==
  \A th \in Threads : task[th] # NoTask => task[th] \in Elements(taken)

PoolInv ==
  /\ TypeOK
  /\ BlockProtected
  /\ EnoughWakeUps
  /\ TakenInOrder
  /\ AddedOnce
  /\ RunningWasTaken
  /\ OneThreadPerTask

\* Unless the pool is stopped, a task that was added is started, provided that
\* the tasks that do not return leave a thread free for the others.
AddedIsStarted ==
  \A t \in Tasks : t \in Elements(submitted) ~> t \in Elements(taken) \/ stop

\* A thread that is executing a task when the pool is stopped leaves after it,
\* unless the task is one that does not return (ThreadPool.cpp:22).
BusyThreadLeaves ==
  \A th \in Threads :
    stop /\ task[th] \in Returning ~> pc[th] = "exited"

\* The thread pool implements the abstract pool.
Running == {task[th] : th \in {t \in Threads : pc[t] = "run"}}
Pool == INSTANCE TaskPool
          WITH Size <- Cardinality(Threads), accepted <- submitted,
               started <- Len(taken), open <- ~stop,
               running <- Running

ImplementsPool == Pool!Spec

-----------------------------------------------------------------------------
(* What the comments say and the code does not do.                         *)

\* "m_Stop is set to true, all threads will exit" (ThreadPool.h:26).
StopEndsThreads == stop ~> \A th \in Threads : pc[th] = "exited"
==============================================================================
