-------------------------- MODULE ThreadPoolProofs ---------------------------
(***************************************************************************)
(* Proofs about ThreadPool for any number of threads, submitters and       *)
(* tasks: PoolInv is inductive, hence no notification of AddTask is lost,  *)
(* tasks are taken once each in the order in which they were added, and no *)
(* task is executed by two threads.                                        *)
(***************************************************************************)
EXTENDS ThreadPool, QueueLemmas, FiniteSetTheorems

-----------------------------------------------------------------------------
(* The initial states and the types.                                       *)

\* The invariant holds before the first task.
LEMMA InitPoolInv == Init => PoolInv
<1> SUFFICES ASSUME Init PROVE PoolInv
  OBVIOUS
<1>0. <<>> \in Seq(Tasks) /\ Len(<<>>) = 0 /\ <<>> \o <<>> = <<>>
  BY EmptySeq, ConcatEmptySeq
<1>1. TypeOK
  <2>1. stop \in BOOLEAN
    BY Zenon DEF Init
  <2> QED BY <2>1, <1>0 DEF Init, TypeOK
<1>2. BlockProtected /\ RunningWasTaken /\ OneThreadPerTask
  BY DEF Init, BlockProtected, RunningWasTaken, OneThreadPerTask
<1>3. EnoughWakeUps
  BY DEF Init, EnoughWakeUps, Waiting
<1>4. TakenInOrder /\ AddedOnce
  BY <1>0 DEF Init, TakenInOrder, AddedOnce
<1> QED BY <1>1, <1>2, <1>3, <1>4 DEF PoolInv

\* A step of one thread that touches nothing but pc and m_Mtx.
ThreadMoves(th) ==
  \/ Test(th) \/ Leave(th) \/ FindNothing(th) \/ Block(th) \/ SpuriousWakeUp(th)

\* A step of Stop.
StopMoves == SetStop \/ NotifyAll \/ Join

\* The steps, each to be considered once in every proof below.
LEMMA NextSteps ==
  ASSUME [Next]_vars, NEW Goal,
         \A s \in Submitters, t \in Tasks : Push(s, t) => Goal,
         \A s \in Submitters : NotifyOne(s) => Goal,
         \A th \in Threads : Take(th) => Goal,
         \A th \in Threads : Finish(th) => Goal,
         \A th \in Threads : ThreadMoves(th) => Goal,
         StopMoves => Goal,
         UNCHANGED vars => Goal
  PROVE  Goal
BY Zenon DEF Next, Thread, ThreadMoves, StopMoves, Terminated

\* Every step keeps the types.
LEMMA NextTypeOK ==
  ASSUME TypeOK, [Next]_vars
  PROVE  TypeOK'
<1> USE DEF TypeOK
<1>1. ASSUME NEW s \in Submitters, NEW t \in Tasks, Push(s, t)
      PROVE  TypeOK'
  <2>1. Append(taskQueue, t) \in Seq(Tasks) /\ Append(submitted, t) \in Seq(Tasks)
    BY AppendProperties
  <2> QED BY <1>1, <2>1 DEF Push, threadVars
<1>2. ASSUME NEW s \in Submitters, NotifyOne(s)
      PROVE  TypeOK'
  <2>1. CASE pc' = pc
    BY <1>2, <2>1 DEF NotifyOne
  <2>2. ASSUME NEW th \in Waiting, pc' = [pc EXCEPT ![th] = "acquire"]
        PROVE  TypeOK'
    BY <1>2, <2>2 DEF NotifyOne, Waiting
  <2> QED BY <1>2, <2>1, <2>2 DEF NotifyOne
<1>3. ASSUME NEW th \in Threads, Take(th)
      PROVE  TypeOK'
  <2>1. /\ Head(taskQueue) \in Tasks /\ Tail(taskQueue) \in Seq(Tasks)
        /\ Append(taken, Head(taskQueue)) \in Seq(Tasks)
    BY <1>3, HeadTailProperties, AppendProperties DEF Take
  <2> QED BY <1>3, <2>1, PoolAssumption DEF Take
<1>4. ASSUME NEW th \in Threads, Finish(th)
      PROVE  TypeOK'
  BY <1>4 DEF Finish
<1>5. ASSUME NEW th \in Threads, ThreadMoves(th)
      PROVE  TypeOK'
  <2>1. CASE Test(th)
    BY <2>1 DEF Test
  <2>2. CASE Leave(th)
    BY <2>2 DEF Leave, Acquired
  <2>3. CASE FindNothing(th)
    BY <2>3 DEF FindNothing, Acquired
  <2>4. CASE Block(th) \/ SpuriousWakeUp(th)
    BY <2>4 DEF Block, SpuriousWakeUp
  <2> QED BY <1>5, <2>1, <2>2, <2>3, <2>4 DEF ThreadMoves
<1>6. ASSUME StopMoves
      PROVE  TypeOK'
  <2>1. stop' \in BOOLEAN
    BY <1>6, Zenon DEF StopMoves, SetStop, NotifyAll, Join
  <2> QED
    BY <1>6, <2>1 DEF StopMoves, SetStop, NotifyAll, Join, threadVars, Waiting
<1>7. ASSUME UNCHANGED vars
      PROVE  TypeOK'
  BY <1>7 DEF vars, threadVars
<1> QED
  BY <1>1, <1>2, <1>3, <1>4, <1>5, <1>6, <1>7, NextSteps, Zenon

\* Only the thread that holds m_Mtx is between the predicate and the sleep, and
\* nobody pushes meanwhile.
LEMMA NextBlockProtected ==
  ASSUME TypeOK, BlockProtected, [Next]_vars
  PROVE  BlockProtected'
<1> USE DEF TypeOK, BlockProtected
<1>1. ASSUME NEW s \in Submitters, NEW t \in Tasks, Push(s, t)
      PROVE  BlockProtected'
  BY <1>1, PoolAssumption DEF Push, threadVars
<1>2. ASSUME NEW s \in Submitters, NotifyOne(s)
      PROVE  BlockProtected'
  BY <1>2 DEF NotifyOne
<1>3. ASSUME NEW th \in Threads, Take(th)
      PROVE  BlockProtected'
  BY <1>3, PoolAssumption DEF Take, Acquired
<1>4. ASSUME NEW th \in Threads, Finish(th)
      PROVE  BlockProtected'
  BY <1>4 DEF Finish
<1>5. ASSUME NEW th \in Threads, ThreadMoves(th)
      PROVE  BlockProtected'
  <2>1. CASE Test(th) \/ Leave(th) \/ SpuriousWakeUp(th)
    BY <2>1 DEF Test, Leave, SpuriousWakeUp, Acquired
  <2>2. CASE FindNothing(th)
    BY <2>2, PoolAssumption DEF FindNothing, Acquired
  <2>3. CASE Block(th)
    BY <2>3 DEF Block
  <2> QED BY <1>5, <2>1, <2>2, <2>3 DEF ThreadMoves
<1>6. ASSUME StopMoves
      PROVE  BlockProtected'
  BY <1>6 DEF StopMoves, SetStop, NotifyAll, Join, threadVars, Waiting
<1>7. ASSUME UNCHANGED vars
      PROVE  BlockProtected'
  BY <1>7 DEF vars, threadVars
<1> QED
  BY <1>1, <1>2, <1>3, <1>4, <1>5, <1>6, <1>7, NextSteps, Zenon

-----------------------------------------------------------------------------
(* No notification is lost.                                                *)

\* Both sides of EnoughWakeUps can be counted.
LEMMA FiniteSides ==
  /\ IsFiniteSet(Awake) /\ Cardinality(Awake) \in Nat
  /\ IsFiniteSet(Notifying) /\ Cardinality(Notifying) \in Nat
<1>1. Awake \subseteq Threads /\ Notifying \subseteq Submitters
  BY DEF Awake, Notifying
<1> QED BY <1>1, FiniteAssumption, FS_Subset, FS_CardinalityType

\* A push pays for its task with its own notification, a thread that is woken
\* up replaces the notification, a thread that stops looking leaves one task
\* less or an empty queue.
LEMMA NextEnoughWakeUps ==
  ASSUME TypeOK, BlockProtected, EnoughWakeUps, [Next]_vars
  PROVE  EnoughWakeUps'
<1> USE DEF TypeOK, EnoughWakeUps
<1>0. Len(taskQueue) \in Nat
  BY LenProperties
<1>1. ASSUME NEW s \in Submitters, NEW t \in Tasks, Push(s, t)
      PROVE  EnoughWakeUps'
  <2>1. Len(taskQueue') = Len(taskQueue) + 1
    BY <1>1, AppendProperties DEF Push
  <2>2. /\ Awake' = Awake /\ Waiting' = Waiting
        /\ Notifying' = Notifying \cup {s} /\ s \notin Notifying
        /\ stop' = stop
    BY <1>1 DEF Push, threadVars, Awake, Waiting, Notifying
  <2>3. Cardinality(Notifying') = Cardinality(Notifying) + 1
    BY <2>2, FiniteSides, FS_AddElement
  <2> QED BY <1>0, <2>1, <2>2, <2>3, FiniteSides
<1>2. ASSUME NEW s \in Submitters, NotifyOne(s)
      PROVE  EnoughWakeUps'
  <2>1. CASE Waiting = {}
    BY <1>2, <2>1 DEF NotifyOne, Waiting
  <2>2. ASSUME NEW th \in Waiting, pc' = [pc EXCEPT ![th] = "acquire"]
        PROVE  EnoughWakeUps'
    <3>1. /\ Awake' = Awake \cup {th} /\ th \notin Awake
          /\ Notifying' = Notifying \ {s} /\ s \in Notifying
          /\ stop' = stop /\ taskQueue' = taskQueue /\ Waiting # {}
      BY <1>2, <2>2 DEF NotifyOne, Awake, Waiting, Notifying
    <3>2. /\ Cardinality(Awake') = Cardinality(Awake) + 1
          /\ Cardinality(Notifying') = Cardinality(Notifying) - 1
      BY <3>1, FiniteSides, FS_AddElement, FS_RemoveElement
    <3> QED BY <1>0, <3>1, <3>2, FiniteSides
  <2> QED BY <1>2, <2>1, <2>2 DEF NotifyOne
<1>3. ASSUME NEW th \in Threads, Take(th)
      PROVE  EnoughWakeUps'
  <2>1. Len(taskQueue') = Len(taskQueue) - 1
    BY <1>3, HeadTailProperties DEF Take
  <2>2. /\ Awake' = Awake \ {th} /\ th \in Awake
        /\ Notifying' = Notifying /\ Waiting' = Waiting /\ stop' = stop
    BY <1>3 DEF Take, Acquired, Awake, Waiting, Notifying
  <2>3. Cardinality(Awake') = Cardinality(Awake) - 1
    BY <2>2, FiniteSides, FS_RemoveElement
  <2> QED BY <1>0, <2>1, <2>2, <2>3, FiniteSides
<1>4. ASSUME NEW th \in Threads, Finish(th)
      PROVE  EnoughWakeUps'
  <2>1. /\ Awake' = Awake \cup {th} /\ th \notin Awake
        /\ Notifying' = Notifying /\ Waiting' = Waiting
        /\ stop' = stop /\ taskQueue' = taskQueue
    BY <1>4 DEF Finish, Awake, Waiting, Notifying
  <2>2. Cardinality(Awake') = Cardinality(Awake) + 1
    BY <2>1, FiniteSides, FS_AddElement
  <2> QED BY <1>0, <2>1, <2>2, FiniteSides
<1>5. ASSUME NEW th \in Threads, ThreadMoves(th)
      PROVE  EnoughWakeUps'
  <2>1. CASE Test(th)
    \* While ~stop the thread stays awake.
    <3>1. stop' = stop /\ taskQueue' = taskQueue /\ Notifying' = Notifying
      BY <2>1 DEF Test, Notifying
    <3>2. ASSUME ~stop
          PROVE  Awake' = Awake /\ Waiting' = Waiting
      BY <2>1, <3>2 DEF Test, Awake, Waiting
    <3> QED BY <3>1, <3>2
  <2>2. CASE Leave(th)
    BY <2>2 DEF Leave
  <2>3. CASE FindNothing(th) \/ Block(th)
    <3>1. taskQueue' = <<>>
      BY <2>3 DEF FindNothing, Block, BlockProtected
    <3>2. Len(taskQueue') = 0
      BY <3>1, EmptySeq
    <3>3. Cardinality(Awake') \in Nat /\ Cardinality(Notifying') \in Nat
      <4>1. Awake' \subseteq Threads /\ Notifying' \subseteq Submitters
        BY DEF Awake, Notifying
      <4> QED BY <4>1, FiniteAssumption, FS_Subset, FS_CardinalityType
    <3> QED BY <3>2, <3>3
  <2>4. CASE SpuriousWakeUp(th)
    <3>1. /\ Awake' = Awake \cup {th} /\ th \notin Awake
          /\ Notifying' = Notifying /\ Waiting # {}
          /\ stop' = stop /\ taskQueue' = taskQueue
      BY <2>4 DEF SpuriousWakeUp, Awake, Waiting, Notifying
    <3>2. Cardinality(Awake') = Cardinality(Awake) + 1
      BY <3>1, FiniteSides, FS_AddElement
    <3> QED BY <1>0, <3>1, <3>2, FiniteSides
  <2> QED BY <1>5, <2>1, <2>2, <2>3, <2>4 DEF ThreadMoves
<1>6. ASSUME StopMoves
      PROVE  EnoughWakeUps'
  <2>1. CASE SetStop
    BY <2>1 DEF SetStop
  <2>2. CASE NotifyAll
    \* Nobody is left waiting.
    <3>1. Waiting' = {}
      BY <2>2 DEF NotifyAll, Waiting
    <3> QED BY <3>1
  <2>3. CASE Join
    BY <2>3 DEF Join, threadVars, Awake, Waiting, Notifying
  <2> QED BY <1>6, <2>1, <2>2, <2>3 DEF StopMoves
<1>7. ASSUME UNCHANGED vars
      PROVE  EnoughWakeUps'
  BY <1>7 DEF vars, threadVars, Awake, Waiting, Notifying
<1> QED
  BY <1>1, <1>2, <1>3, <1>4, <1>5, <1>6, <1>7, NextSteps, Zenon

-----------------------------------------------------------------------------
(* Every task is taken once, in order.                                     *)

\* Taking moves the head of the queue to the end of what was taken.
LEMMA NextTakenInOrder ==
  ASSUME TypeOK, TakenInOrder, [Next]_vars
  PROVE  TakenInOrder'
<1> USE DEF TypeOK, TakenInOrder
<1>1. ASSUME NEW s \in Submitters, NEW t \in Tasks, Push(s, t)
      PROVE  TakenInOrder'
  <2>1. /\ Append(taskQueue, t) = taskQueue \o <<t>>
        /\ Append(taken \o taskQueue, t) = (taken \o taskQueue) \o <<t>>
        /\ <<t>> \in Seq(Tasks)
    BY ConcatProperties, AppendIsConcat
  <2>2. Append(taken \o taskQueue, t) = taken \o Append(taskQueue, t)
    BY <2>1, ConcatAssociative
  <2> QED BY <1>1, <2>2 DEF Push
<1>2. ASSUME NEW s \in Submitters, NotifyOne(s)
      PROVE  TakenInOrder'
  BY <1>2 DEF NotifyOne
<1>3. ASSUME NEW th \in Threads, Take(th)
      PROVE  TakenInOrder'
  BY <1>3, MoveHead DEF Take
<1>4. ASSUME NEW th \in Threads, Finish(th)
      PROVE  TakenInOrder'
  BY <1>4 DEF Finish
<1>5. ASSUME NEW th \in Threads, ThreadMoves(th)
      PROVE  TakenInOrder'
  BY <1>5 DEF ThreadMoves, Test, Leave, FindNothing, Block, SpuriousWakeUp
<1>6. ASSUME StopMoves
      PROVE  TakenInOrder'
  BY <1>6 DEF StopMoves, SetStop, NotifyAll, Join
<1>7. ASSUME UNCHANGED vars
      PROVE  TakenInOrder'
  BY <1>7 DEF vars
<1> QED
  BY <1>1, <1>2, <1>3, <1>4, <1>5, <1>6, <1>7, NextSteps, Zenon

\* A task is added by one submitter, once.
LEMMA NextAddedOnce ==
  ASSUME TypeOK, AddedOnce, [Next]_vars
  PROVE  AddedOnce'
<1> USE DEF TypeOK, AddedOnce
<1>1. ASSUME NEW s \in Submitters, NEW t \in Tasks, Push(s, t)
      PROVE  AddedOnce'
  <2>1. /\ Len(submitted) \in Nat
        /\ submitted' = Append(submitted, t)
        /\ Len(submitted') = Len(submitted) + 1
        /\ \A i \in 1..Len(submitted) : submitted'[i] = submitted[i]
        /\ submitted'[Len(submitted) + 1] = t
    BY <1>1, AppendProperties, LenProperties DEF Push
  <2>2. \A i \in 1..Len(submitted) : submitted[i] # t
    BY <1>1 DEF Push, Elements
  <2>3. ASSUME NEW i \in 1..Len(submitted'), NEW j \in 1..Len(submitted'),
               submitted'[i] = submitted'[j]
        PROVE  i = j
    <3>1. CASE i <= Len(submitted) /\ j <= Len(submitted)
      BY <2>1, <2>3, <3>1
    <3>2. CASE i <= Len(submitted) /\ j = Len(submitted) + 1
      BY <2>1, <2>2, <2>3, <3>2
    <3>3. CASE i = Len(submitted) + 1 /\ j <= Len(submitted)
      BY <2>1, <2>2, <2>3, <3>3
    <3> QED BY <2>1, <3>1, <3>2, <3>3
  <2> QED BY <2>3
<1>2. ASSUME NEW s \in Submitters, NotifyOne(s)
      PROVE  AddedOnce'
  BY <1>2 DEF NotifyOne
<1>3. ASSUME NEW th \in Threads, Take(th)
      PROVE  AddedOnce'
  BY <1>3 DEF Take
<1>4. ASSUME NEW th \in Threads, Finish(th)
      PROVE  AddedOnce'
  BY <1>4 DEF Finish
<1>5. ASSUME NEW th \in Threads, ThreadMoves(th)
      PROVE  AddedOnce'
  BY <1>5 DEF ThreadMoves, Test, Leave, FindNothing, Block, SpuriousWakeUp
<1>6. ASSUME StopMoves
      PROVE  AddedOnce'
  BY <1>6 DEF StopMoves, SetStop, NotifyAll, Join
<1>7. ASSUME UNCHANGED vars
      PROVE  AddedOnce'
  BY <1>7 DEF vars
<1> QED
  BY <1>1, <1>2, <1>3, <1>4, <1>5, <1>6, <1>7, NextSteps, Zenon

-----------------------------------------------------------------------------
(* No task is executed twice at a time.                                    *)

\* The task about to be taken is none of those taken before.
LEMMA HeadIsNew ==
  ASSUME TypeOK, TakenInOrder, AddedOnce, taskQueue # <<>>
  PROVE  Head(taskQueue) \notin Elements(taken)
<1> USE DEF TypeOK, TakenInOrder
<1>1. /\ Len(taken) \in Nat
      /\ Len(taken) < Len(submitted)
      /\ submitted[Len(taken) + 1] = Head(taskQueue)
  BY MoveHead, LenProperties
<1>2. Len(submitted) \in Nat
  BY LenProperties
<1>3. /\ Len(submitted) = Len(taken) + Len(taskQueue)
      /\ \A i \in 1..(Len(taken) + Len(taskQueue)) :
           submitted[i] = IF i <= Len(taken) THEN taken[i]
                                             ELSE taskQueue[i - Len(taken)]
  BY ConcatProperties
<1>4. ASSUME NEW i \in 1..Len(taken), taken[i] = Head(taskQueue)
      PROVE  FALSE
  <2>1. i \in 1..Len(submitted) /\ Len(taken) + 1 \in 1..Len(submitted)
    BY <1>1, <1>2
  <2>2. submitted[i] = submitted[Len(taken) + 1]
    BY <1>1, <1>3, <1>4, <2>1
  <2>3. i = Len(taken) + 1
    BY <2>1, <2>2 DEF AddedOnce
  <2> QED BY <1>1, <2>3
<1> QED BY <1>4 DEF Elements

\* A thread runs what it took.
LEMMA NextRunningWasTaken ==
  ASSUME TypeOK, RunningWasTaken, [Next]_vars
  PROVE  RunningWasTaken'
<1> USE DEF TypeOK, RunningWasTaken
<1>1. ASSUME NEW th \in Threads, Take(th)
      PROVE  RunningWasTaken'
  <2>1. /\ Head(taskQueue) \in Tasks
        /\ Len(taken) \in Nat
        /\ taken' = Append(taken, Head(taskQueue))
    BY <1>1, HeadTailProperties, LenProperties DEF Take
  <2>2. /\ Len(taken') = Len(taken) + 1
        /\ \A i \in 1..Len(taken) : taken'[i] = taken[i]
        /\ taken'[Len(taken) + 1] = Head(taskQueue)
    BY <2>1, AppendProperties
  <2>3. Elements(taken)' = Elements(taken) \cup {Head(taskQueue)}
    BY <2>1, <2>2 DEF Elements
  <2> QED BY <1>1, <2>3 DEF Take
<1>2. ASSUME NEW th \in Threads, Finish(th)
      PROVE  RunningWasTaken'
  BY <1>2 DEF Finish, Elements
<1>3. ASSUME task' = task, taken' = taken
      PROVE  RunningWasTaken'
  BY <1>3 DEF Elements
<1>4. ASSUME NEW s \in Submitters, NEW t \in Tasks, Push(s, t)
      PROVE  RunningWasTaken'
  BY <1>3, <1>4 DEF Push, threadVars
<1>5. ASSUME NEW s \in Submitters, NotifyOne(s)
      PROVE  RunningWasTaken'
  BY <1>3, <1>5 DEF NotifyOne
<1>6. ASSUME NEW th \in Threads, ThreadMoves(th)
      PROVE  RunningWasTaken'
  BY <1>3, <1>6 DEF ThreadMoves, Test, Leave, FindNothing, Block, SpuriousWakeUp
<1>7. ASSUME StopMoves
      PROVE  RunningWasTaken'
  BY <1>3, <1>7 DEF StopMoves, SetStop, NotifyAll, Join, threadVars
<1>8. ASSUME UNCHANGED vars
      PROVE  RunningWasTaken'
  BY <1>3, <1>8 DEF vars, threadVars
<1> QED
  BY <1>1, <1>2, <1>4, <1>5, <1>6, <1>7, <1>8, NextSteps, Zenon

\* What is taken is the head of the queue, hence nobody's task.
LEMMA NextOneThreadPerTask ==
  ASSUME TypeOK, TakenInOrder, AddedOnce, RunningWasTaken, OneThreadPerTask,
         [Next]_vars
  PROVE  OneThreadPerTask'
<1> USE DEF TypeOK, OneThreadPerTask
<1>1. ASSUME NEW th \in Threads, Take(th)
      PROVE  OneThreadPerTask'
  <2>1. \A u \in Threads : task[u] # NoTask => task[u] # Head(taskQueue)
    BY <1>1, HeadIsNew DEF Take, RunningWasTaken
  <2> QED BY <1>1, <2>1 DEF Take
<1>2. ASSUME NEW th \in Threads, Finish(th)
      PROVE  OneThreadPerTask'
  BY <1>2 DEF Finish
<1>3. ASSUME task' = task
      PROVE  OneThreadPerTask'
  BY <1>3
<1>4. ASSUME NEW s \in Submitters, NEW t \in Tasks, Push(s, t)
      PROVE  OneThreadPerTask'
  BY <1>3, <1>4 DEF Push, threadVars
<1>5. ASSUME NEW s \in Submitters, NotifyOne(s)
      PROVE  OneThreadPerTask'
  BY <1>3, <1>5 DEF NotifyOne
<1>6. ASSUME NEW th \in Threads, ThreadMoves(th)
      PROVE  OneThreadPerTask'
  BY <1>3, <1>6 DEF ThreadMoves, Test, Leave, FindNothing, Block, SpuriousWakeUp
<1>7. ASSUME StopMoves
      PROVE  OneThreadPerTask'
  BY <1>3, <1>7 DEF StopMoves, SetStop, NotifyAll, Join, threadVars
<1>8. ASSUME UNCHANGED vars
      PROVE  OneThreadPerTask'
  BY <1>3, <1>8 DEF vars, threadVars
<1> QED
  BY <1>1, <1>2, <1>4, <1>5, <1>6, <1>7, <1>8, NextSteps, Zenon

\* PoolInv holds of every state of the pool (ThreadPool.cpp:17-84).
THEOREM PoolInvariant == SafetySpec => []PoolInv
<1>1. PoolInv /\ [Next]_vars => PoolInv'
  BY NextTypeOK, NextBlockProtected, NextEnoughWakeUps, NextTakenInOrder,
     NextAddedOnce, NextRunningWasTaken, NextOneThreadPerTask
  DEF PoolInv
<1> QED BY InitPoolInv, <1>1, PTL DEF SafetySpec

-----------------------------------------------------------------------------
(* The properties the runs check.                                          *)

\* Every variable keeps its type; a thread has a task exactly while it runs one
\* (ThreadPool.cpp:20-44).
THEOREM PoolTypeCorrect == SafetySpec => []TypeOK
<1>1. PoolInv => TypeOK
  BY DEF PoolInv
<1> QED BY <1>1, PoolInvariant, PTL

\* While the pool is open and a thread sleeps, every queued task has a thread or a
\* notification of its own on the way, for any number of threads that add and of
\* threads of the pool (ThreadPool.cpp:30-41, 61-69).
THEOREM NotificationsSuffice == SafetySpec => []EnoughWakeUps
<1>1. PoolInv => EnoughWakeUps
  BY DEF PoolInv
<1> QED BY <1>1, PoolInvariant, PTL

\* Tasks are taken once each, in the order in which they were added
\* (ThreadPool.cpp:38-40, 61-66).
THEOREM TasksInOrder == SafetySpec => []TakenInOrder
<1>1. PoolInv => TakenInOrder
  BY DEF PoolInv
<1> QED BY <1>1, PoolInvariant, PTL

\* No task is executed by two threads (ThreadPool.cpp:38-43).
THEOREM TaskNotShared == SafetySpec => []OneThreadPerTask
<1>1. PoolInv => OneThreadPerTask
  BY DEF PoolInv
<1> QED BY <1>1, PoolInvariant, PTL

-----------------------------------------------------------------------------
(* The abstract pool.                                                      *)

\* While a thread does not run a task, fewer tasks run than there are threads.
LEMMA ThreadFree ==
  ASSUME NEW th \in Threads, pc[th] # "run"
  PROVE  Cardinality(Running) < Cardinality(Threads)
<1> DEFINE Busy == {t \in Threads : pc[t] = "run"}
           f == [t \in Busy |-> task[t]]
<1>1. /\ IsFiniteSet(Threads \ {th})
      /\ Cardinality(Threads \ {th}) = Cardinality(Threads) - 1
  BY FiniteAssumption, FS_RemoveElement
<1>2. Busy \in SUBSET (Threads \ {th})
  OBVIOUS
<1>3. IsFiniteSet(Busy) /\ Cardinality(Busy) <= Cardinality(Threads \ {th})
  BY <1>1, <1>2, FS_Subset
<1>4. f \in Surjection(Busy, Running)
  BY DEF Surjection, Running
<1>5. IsFiniteSet(Running) /\ Cardinality(Running) <= Cardinality(Busy)
  BY <1>3, <1>4, FS_Surjection
<1>6. /\ Cardinality(Running) \in Nat /\ Cardinality(Busy) \in Nat
      /\ Cardinality(Threads) \in Nat
  BY <1>3, <1>5, FiniteAssumption, FS_CardinalityType
<1> QED BY <1>1, <1>3, <1>5, <1>6

\* What runs changes only when a thread takes a task or is done with one.
LEMMA RunningFrame ==
  ASSUME task' = task, {t \in Threads : pc[t] = "run"}' = {t \in Threads : pc[t] = "run"}
  PROVE  Running' = Running
BY DEF Running

\* Every step of the pool is a step of the abstract one or leaves it alone: a push
\* accepts a task, a thread that takes one starts the oldest and there was a free
\* thread for it, and setting m_Stop closes it.
THEOREM PoolImplementsTaskPool == SafetySpec => Pool!Safety
<1>1. Init => Pool!Init
  <2> SUFFICES ASSUME Init PROVE Pool!Init
    OBVIOUS
  <2>1. submitted = <<>> /\ Len(taken) = 0
    BY EmptySeq DEF Init
  <2>2. Running = {}
    BY DEF Init, Running
  <2>3. (~stop) = TRUE
    BY Zenon DEF Init
  <2> QED BY <2>1, <2>2, <2>3, Zenon DEF Pool!Init
<1>2. PoolInv /\ [Next]_vars => [Pool!Next]_(Pool!poolVars)
  <2> SUFFICES ASSUME PoolInv, [Next]_vars
               PROVE  [Pool!Next]_(Pool!poolVars)
    OBVIOUS
  <2> USE DEF PoolInv, TypeOK, Pool!poolVars
  <2>1. ASSUME NEW s \in Submitters, NEW t \in Tasks, Push(s, t)
        PROVE  Pool!Accept(t)
    <3>1. Running' = Running
      BY <2>1, RunningFrame DEF Push, threadVars
    <3>2. \A i \in 1..Len(submitted) : submitted[i] # t
      BY <2>1 DEF Push, Elements
    <3> QED BY <2>1, <3>1, <3>2, Zenon DEF Push, Pool!Accept
  <2>2. ASSUME NEW s \in Submitters, NotifyOne(s)
        PROVE  UNCHANGED Pool!poolVars
    <3>1. {t \in Threads : pc[t] = "run"}' = {t \in Threads : pc[t] = "run"}
      BY <2>2 DEF NotifyOne, Waiting
    <3> QED BY <2>2, <3>1, RunningFrame DEF NotifyOne
  <2>3. ASSUME NEW th \in Threads, Take(th)
        PROVE  Pool!Start
    <3>1. /\ Len(taken) < Len(submitted)
          /\ submitted[Len(taken) + 1] = Head(taskQueue)
      BY <2>3, MoveHead DEF Take, TakenInOrder
    <3>2. Len(taken') = Len(taken) + 1
      BY <2>3, HeadTailProperties, AppendProperties DEF Take
    <3>3. Cardinality(Running) < Cardinality(Threads)
      BY <2>3, ThreadFree DEF Take, Acquired
    <3>4. Running' = Running \cup {Head(taskQueue)}
      BY <2>3 DEF Take, Acquired, Running
    <3>5. submitted' = submitted /\ (~stop)' = (~stop)
      BY <2>3 DEF Take
    <3>6. Pool!Cardinality(Running) = Cardinality(Running)
      BY DEF Pool!Cardinality, Cardinality
    <3> QED BY <3>1, <3>2, <3>3, <3>4, <3>5, <3>6, Zenon DEF Pool!Start
  <2>4. ASSUME NEW th \in Threads, Finish(th)
        PROVE  Pool!Finish(task[th]) /\ task[th] \in Tasks
    <3>1. task[th] \in Running /\ task[th] \in Tasks
      BY <2>4 DEF Finish, Running
    <3>2. Running' = Running \ {task[th]}
      BY <2>4 DEF Finish, Running, OneThreadPerTask
    <3> QED BY <2>4, <3>1, <3>2 DEF Finish, Pool!Finish
  <2>5. ASSUME NEW th \in Threads, ThreadMoves(th)
        PROVE  UNCHANGED Pool!poolVars
    <3>1. /\ task' = task /\ taken' = taken /\ submitted' = submitted
          /\ stop' = stop
      BY <2>5 DEF ThreadMoves, Test, Leave, FindNothing, Block, SpuriousWakeUp
    <3>2. {t \in Threads : pc[t] = "run"}' = {t \in Threads : pc[t] = "run"}
      BY <2>5
      DEF ThreadMoves, Test, Leave, FindNothing, Block, SpuriousWakeUp, Acquired
    <3> QED BY <3>1, <3>2, RunningFrame
  <2>6. ASSUME StopMoves
        PROVE  Pool!Close \/ UNCHANGED Pool!poolVars
    <3>1. CASE SetStop
      <4>1. Running' = Running
        BY <3>1, RunningFrame DEF SetStop, threadVars
      <4>2. (~stop)' = FALSE /\ ~stop
        BY <3>1, Zenon DEF SetStop
      <4> QED BY <3>1, <4>1, <4>2 DEF SetStop, Pool!Close
    <3>2. CASE NotifyAll
      <4>1. {t \in Threads : pc[t] = "run"}' = {t \in Threads : pc[t] = "run"}
        BY <3>2 DEF NotifyAll, Waiting
      <4> QED BY <3>2, <4>1, RunningFrame DEF NotifyAll
    <3>3. CASE Join
      BY <3>3, RunningFrame DEF Join, threadVars
    <3> QED BY <2>6, <3>1, <3>2, <3>3 DEF StopMoves
  <2>7. ASSUME UNCHANGED vars
        PROVE  UNCHANGED Pool!poolVars
    BY <2>7, RunningFrame DEF vars, threadVars
  <2>8. ASSUME Pool!Next \/ UNCHANGED Pool!poolVars
        PROVE  [Pool!Next]_(Pool!poolVars)
    BY <2>8
  <2> HIDE DEF PoolInv, TypeOK, Pool!poolVars
  <2> QED
    BY <2>1, <2>2, <2>3, <2>4, <2>5, <2>6, <2>7, <2>8, NextSteps, Zenon
    DEF Pool!Next
<1> QED BY <1>1, <1>2, PoolInvariant, PTL DEF SafetySpec, Pool!Safety
==============================================================================
