--------------------------- MODULE ShutdownProofs ---------------------------
(***************************************************************************)
(* Proofs about Shutdown for any number of I/O threads and sub-loops.  The *)
(* system uses its pool as ThreadPool allows, so that every theorem about  *)
(* ThreadPool holds of it, by ThreadPoolProofs and not by a second proof;  *)
(* a mutex is held by the thread inside its scope; and the server is       *)
(* deleted only when no I/O thread is left.                                *)
(***************************************************************************)
EXTENDS Shutdown, FiniteSetTheorems, TLAPS

PoolProofs == INSTANCE ThreadPoolProofs
                WITH Submitters <- {Main}, Tasks <- Loops, Returning <- {}

-----------------------------------------------------------------------------
(* The pool inside the server is the pool of ThreadPool.                   *)

\* What ThreadPool assumes of its constants.
LEMMA PoolAssumptions == PoolProofs!PoolAssumption /\ PoolProofs!FiniteAssumption
<1>1. PoolProofs!PoolAssumption
  BY ShutdownAssumption DEF PoolProofs!PoolAssumption
<1>2. IsFiniteSet({Main}) /\ IsFiniteSet(Threads)
  BY FS_Singleton, ShutdownAssumption
<1>3. PoolProofs!FiniteAssumption
  BY <1>2, Zenon DEF PoolProofs!FiniteAssumption, PoolProofs!IsFiniteSet, IsFiniteSet
<1> QED BY <1>1, <1>3

\* The two instances of ThreadPool, with its proofs and without, say the same.
LEMMA SamePool ==
  /\ PoolProofs!Init <=> Pool!Init
  /\ [PoolProofs!Next]_(PoolProofs!vars) <=> [Pool!Next]_(Pool!vars)
  /\ PoolProofs!PoolInv <=> Pool!PoolInv
<1>1. PoolProofs!Init <=> Pool!Init
  BY DEF PoolProofs!Init, Pool!Init
<1>2. PoolProofs!Next <=> Pool!Next
  BY Zenon
  DEF Pool!Next, Pool!Push, Pool!NotifyOne, Pool!Thread, Pool!Test, Pool!Take,
      Pool!Leave, Pool!FindNothing, Pool!Block, Pool!Acquired, Pool!SpuriousWakeUp,
      Pool!Finish, Pool!SetStop, Pool!NotifyAll, Pool!Join, Pool!Terminated,
      Pool!Elements, Pool!Waiting, Pool!vars, Pool!threadVars,
      PoolProofs!Next, PoolProofs!Push, PoolProofs!NotifyOne, PoolProofs!Thread,
      PoolProofs!Test, PoolProofs!Take, PoolProofs!Leave, PoolProofs!FindNothing,
      PoolProofs!Block, PoolProofs!Acquired, PoolProofs!SpuriousWakeUp,
      PoolProofs!Finish, PoolProofs!SetStop, PoolProofs!NotifyAll, PoolProofs!Join,
      PoolProofs!Terminated, PoolProofs!Elements, PoolProofs!Waiting,
      PoolProofs!vars, PoolProofs!threadVars
<1>3. PoolProofs!vars = Pool!vars /\ (UNCHANGED PoolProofs!vars <=> UNCHANGED Pool!vars)
  BY DEF Pool!vars, Pool!threadVars, PoolProofs!vars, PoolProofs!threadVars
<1>4. [PoolProofs!Next]_(PoolProofs!vars) <=> [Pool!Next]_(Pool!vars)
  BY <1>2, <1>3
<1>5. \A S : PoolProofs!Cardinality(S) = Pool!Cardinality(S)
  BY Zenon DEF PoolProofs!Cardinality, Pool!Cardinality
<1>6. PoolProofs!PoolInv <=> Pool!PoolInv
  BY <1>5, Zenon
  DEF Pool!PoolInv, Pool!TypeOK, Pool!BlockProtected, Pool!EnoughWakeUps,
      Pool!TakenInOrder, Pool!AddedOnce, Pool!RunningWasTaken, Pool!OneThreadPerTask,
      Pool!Waiting, Pool!Awake, Pool!Notifying, Pool!Elements,
      PoolProofs!PoolInv, PoolProofs!TypeOK, PoolProofs!BlockProtected,
      PoolProofs!EnoughWakeUps, PoolProofs!TakenInOrder, PoolProofs!AddedOnce,
      PoolProofs!RunningWasTaken, PoolProofs!OneThreadPerTask, PoolProofs!Waiting,
      PoolProofs!Awake, PoolProofs!Notifying, PoolProofs!Elements
<1> QED BY <1>1, <1>4, <1>6

\* The steps that leave the pool alone.
Aside ==
  \/ Constructed \/ \E l \in Loops : LockTcpMap(l)
  \/ UnlockTcpMap \/ LockLoopMap \/ UnlockLoopMap
  \/ \E th \in Threads :
       \/ Dispatch(th) \/ Scan(th) \/ ScanRaces(th) \/ LostInLibc(th)
       \/ LockLoop(th) \/ UnlockLoop(th) \/ LockTcp(th) \/ UnlockTcp(th)
  \/ Signal \/ StopMainLoop \/ (\E l \in Loops : StopSubLoop(l))
  \/ DeleteAndExit \/ HandlerLost

\* The steps, in the order in which the proofs consider them.
LEMMA NextSteps ==
  ASSUME [Next]_vars, NEW Goal,
         AddLoop => Goal,
         \A th \in Threads : PoolThread(th) => Goal,
         \A th \in Threads : Return(th) => Goal,
         StopPool => Goal,
         JoinPool => Goal,
         Aside => Goal,
         UNCHANGED vars => Goal
  PROVE  Goal
BY Zenon DEF Next, MainThread, IoThread, Handler, Ended, Aside

\* The other steps leave the pool alone.
LEMMA AsideFrame == Aside => UNCHANGED poolVars
BY DEF Aside, Constructed, LockTcpMap, UnlockTcpMap, LockLoopMap, UnlockLoopMap,
       Dispatch, Scan, ScanRaces, LostInLibc, LockLoop, UnlockLoop, LockTcp, UnlockTcp,
       Signal, StopMainLoop, StopSubLoop, DeleteAndExit, HandlerLost

\* Every step is one of the pool, or leaves it alone.
LEMMA StepsOfPool == [Next]_vars => [Pool!Next]_(Pool!vars)
<1> SUFFICES ASSUME [Next]_vars
             PROVE  [Pool!Next]_(Pool!vars)
  OBVIOUS
<1>0. UNCHANGED poolVars => UNCHANGED Pool!vars
  BY DEF poolVars, Pool!vars, Pool!threadVars
<1>1. ASSUME AddLoop PROVE Pool!Next
  BY <1>1, Zenon DEF AddLoop, Pool!Next
<1>2. ASSUME NEW th \in Threads, PoolThread(th) PROVE Pool!Next
  BY <1>2, Zenon DEF PoolThread, Pool!Next
<1>3. ASSUME NEW th \in Threads, Return(th) PROVE Pool!Next
  BY <1>3, Zenon DEF Return, Pool!Next
<1>4. ASSUME StopPool PROVE Pool!Next
  BY <1>4, Zenon DEF StopPool, Pool!Next
<1>5. ASSUME JoinPool PROVE Pool!Next
  BY <1>5, Zenon DEF JoinPool, Pool!Next
<1>6. ASSUME Aside \/ UNCHANGED vars PROVE UNCHANGED Pool!vars
  <2>1. UNCHANGED vars => UNCHANGED poolVars
    BY DEF vars
  <2> QED BY <1>0, <1>6, <2>1, AsideFrame
<1> QED
  BY <1>1, <1>2, <1>3, <1>4, <1>5, <1>6, NextSteps, Zenon

\* The server uses the pool of its I/O threads as ThreadPool describes a pool: it adds
\* each sub-loop once, a task returns only after it was taken, and Stop is called once
\* (TcpServer.cpp:13-31, 40-52 against ThreadPool.cpp).
THEOREM ImplementsThreadPool == SafetySpec => Pool!SafetySpec
<1>1. Init => Pool!Init
  BY DEF Init
<1> QED BY <1>1, StepsOfPool, PTL DEF SafetySpec, Pool!SafetySpec

\* What holds of every pool holds of this one: no notification of the constructor is
\* lost, the sub-loops are taken in their order, and no two threads run one sub-loop
\* (ThreadPool.cpp:19-66).
THEOREM PoolInvHolds == SafetySpec => []Pool!PoolInv
<1>1. Pool!SafetySpec => PoolProofs!SafetySpec
  BY SamePool, PTL DEF Pool!SafetySpec, PoolProofs!SafetySpec
<1>2. PoolProofs!SafetySpec => []PoolProofs!PoolInv
  BY PoolProofs!PoolInvariant, PoolAssumptions
<1>3. PoolProofs!PoolInv => Pool!PoolInv
  BY SamePool
<1> QED BY <1>1, <1>2, <1>3, ImplementsThreadPool, PTL

-----------------------------------------------------------------------------
(* The mutexes and the deletion of the server.                             *)

\* The invariant holds before the server is constructed.
LEMMA InitShutdownInv == Init => ShutdownInv
<1> SUFFICES ASSUME Init PROVE ShutdownInv
  OBVIOUS
<1>1. Pool!TypeOK
  BY SamePool, PoolProofs!InitPoolInv, PoolAssumptions DEF Init, Pool!PoolInv
<1>2. TypeOK
  BY <1>1, ShutdownAssumption DEF Init, TypeOK
<1>3. HoldersAreInside
  BY ShutdownAssumption DEF Init, HoldersAreInside
<1>4. ~stop
  BY Zenon DEF Init, Pool!Init
<1>5. LoopsStopFirst /\ DeletedWhenUnused
  BY <1>4 DEF Init, LoopsStopFirst, DeletedWhenUnused
<1> QED BY <1>2, <1>3, <1>5 DEF ShutdownInv

\* A step of the pool does not touch a thread that is inside EventLoop::Run.
LEMMA PoolMoves ==
  ASSUME Pool!TypeOK, NEW th \in Threads, NEW other \in Threads,
         Pool!Thread(th) \/ Pool!SpuriousWakeUp(th)
  PROVE  /\ pc[th] \notin {"run", "exited"}
         /\ stop' = stop /\ stopPc' = stopPc
         /\ pc[other] \in {"run", "exited"} =>
              pc'[other] = pc[other] /\ task'[other] = task[other]
<1> USE DEF Pool!TypeOK
<1>1. CASE Pool!Test(th)
  BY <1>1 DEF Pool!Test
<1>2. CASE Pool!Take(th)
  BY <1>2 DEF Pool!Take, Pool!Acquired
<1>3. CASE Pool!Leave(th)
  BY <1>3 DEF Pool!Leave, Pool!Acquired
<1>4. CASE Pool!FindNothing(th)
  BY <1>4 DEF Pool!FindNothing, Pool!Acquired
<1>5. CASE Pool!Block(th)
  BY <1>5 DEF Pool!Block
<1>6. CASE Pool!SpuriousWakeUp(th)
  BY <1>6 DEF Pool!SpuriousWakeUp
<1> QED BY <1>1, <1>2, <1>3, <1>4, <1>5, <1>6 DEF Pool!Thread

\* A step of a caller of AddTask or Stop does not, either.
LEMMA CallersMove ==
  ASSUME Pool!TypeOK, NEW th \in Threads,
         \/ \E l \in Loops : Pool!Push(Main, l)
         \/ Pool!NotifyOne(Main) \/ Pool!SetStop \/ Pool!NotifyAll \/ Pool!Join
  PROVE  /\ task'[th] = task[th]
         /\ pc[th] \in {"run", "exited"} => pc'[th] = pc[th]
<1> USE DEF Pool!TypeOK
<1>1. ASSUME NEW l \in Loops, Pool!Push(Main, l)
      PROVE  task'[th] = task[th] /\ pc'[th] = pc[th]
  BY <1>1 DEF Pool!Push, Pool!threadVars
<1>2. CASE Pool!NotifyOne(Main)
  BY <1>2 DEF Pool!NotifyOne, Pool!Waiting
<1>3. CASE Pool!SetStop \/ Pool!Join
  BY <1>3 DEF Pool!SetStop, Pool!Join, Pool!threadVars
<1>4. CASE Pool!NotifyAll
  BY <1>4 DEF Pool!NotifyAll, Pool!Waiting
<1> QED BY <1>1, <1>2, <1>3, <1>4

\* The types of what Shutdown adds to the pool.
LEMMA NextTypeOK ==
  ASSUME ShutdownInv, Pool!TypeOK', [Next]_vars
  PROVE  TypeOK'
<1> USE DEF ShutdownInv, TypeOK, HoldersAreInside
<1>0. Pool!TypeOK /\ pc \in [Threads -> {"test", "acquire", "block", "waiting", "run",
                                        "exited"}]
  BY DEF Pool!TypeOK
<1>1. ASSUME AddLoop PROVE TypeOK'
  BY <1>0, <1>1, CallersMove DEF AddLoop, mainVars, mutexes, harm
<1>2. ASSUME NEW th \in Threads, PoolThread(th) PROVE TypeOK'
  BY <1>0, <1>2, PoolMoves DEF PoolThread, mainVars, mutexes, harm
<1>3. ASSUME NEW th \in Threads, Return(th) PROVE TypeOK'
  BY <1>0, <1>3 DEF Return, InRun, Pool!Finish, mainVars, mutexes, harm
<1>4. ASSUME StopPool PROVE TypeOK'
  BY <1>0, <1>4, CallersMove DEF StopPool, mainVars, mutexes, harm
<1>5. ASSUME JoinPool PROVE TypeOK'
  BY <1>0, <1>5, CallersMove DEF JoinPool, mainVars, mutexes, harm
<1>6. ASSUME Aside PROVE TypeOK'
  <2>0. pc' = pc
    BY <1>6, AsideFrame DEF poolVars
  <2>1. CASE Constructed \/ (\E l \in Loops : LockTcpMap(l)) \/ UnlockTcpMap
    BY <2>0, <2>1 DEF Constructed, LockTcpMap, UnlockTcpMap, mutexes, harm
  <2>2. CASE LockLoopMap \/ UnlockLoopMap
    BY <2>0, <2>2 DEF LockLoopMap, UnlockLoopMap, harm
  <2>3. ASSUME NEW th \in Threads,
               Dispatch(th) \/ Scan(th) \/ ScanRaces(th) \/ LostInLibc(th)
        PROVE  TypeOK'
    BY <2>0, <2>3
    DEF Dispatch, Scan, ScanRaces, LostInLibc, InRun, mainVars, mutexes, harm
  <2>4. ASSUME NEW th \in Threads, LockLoop(th) \/ UnlockLoop(th) PROVE TypeOK'
    BY <2>0, <2>4 DEF LockLoop, UnlockLoop, InRun, mainVars, harm
  <2>5. ASSUME NEW th \in Threads, LockTcp(th) \/ UnlockTcp(th) PROVE TypeOK'
    BY <2>0, <2>5 DEF LockTcp, UnlockTcp, InRun, mainVars, harm
  <2>6. CASE \/ Signal \/ StopMainLoop \/ (\E l \in Loops : StopSubLoop(l))
             \/ DeleteAndExit \/ HandlerLost
    BY <2>0, <2>6
    DEF Signal, StopMainLoop, StopSubLoop, DeleteAndExit, HandlerLost, mainVars,
        mutexes, harm
  <2> QED BY <1>6, <2>1, <2>2, <2>3, <2>4, <2>5, <2>6 DEF Aside
<1>7. ASSUME UNCHANGED vars PROVE TypeOK'
  BY <1>0, <1>7 DEF vars, poolVars, mainVars, mutexes, harm
<1> QED
  BY <1>1, <1>2, <1>3, <1>4, <1>5, <1>6, <1>7, NextSteps, Zenon

\* Whoever enters a map has found its mutex free, and a thread whose task changes is
\* in no map.
LEMMA NextHoldersAreInside ==
  ASSUME ShutdownInv, [Next]_vars
  PROVE  HoldersAreInside'
<1> USE DEF ShutdownInv, TypeOK, HoldersAreInside
<1>0. /\ Pool!TypeOK
      /\ pc \in [Threads -> {"test", "acquire", "block", "waiting", "run", "exited"}]
      /\ task \in [Threads -> Loops \cup {NoTask}]
      /\ \A th \in Threads : pc[th] = "run" => task[th] \in Loops
  BY DEF Pool!TypeOK
<1>1. ASSUME AddLoop PROVE HoldersAreInside'
  BY <1>0, <1>1, CallersMove DEF AddLoop, mainVars, mutexes
<1>2. ASSUME NEW th \in Threads, PoolThread(th) PROVE HoldersAreInside'
  BY <1>0, <1>2, PoolMoves DEF PoolThread, mainVars, mutexes
<1>3. ASSUME NEW th \in Threads, Return(th) PROVE HoldersAreInside'
  BY <1>0, <1>3 DEF Return, InRun, Pool!Finish, mainVars, mutexes
<1>4. ASSUME StopPool PROVE HoldersAreInside'
  BY <1>0, <1>4, CallersMove DEF StopPool, mainVars, mutexes
<1>5. ASSUME JoinPool PROVE HoldersAreInside'
  BY <1>0, <1>5, CallersMove DEF JoinPool, mainVars, mutexes
<1>6. ASSUME Aside PROVE HoldersAreInside'
  <2>0. task' = task
    BY <1>6, AsideFrame DEF poolVars
  <2>1. CASE Constructed \/ (\E l \in Loops : LockTcpMap(l)) \/ UnlockTcpMap
    BY <2>0, <2>1, ShutdownAssumption
    DEF Constructed, LockTcpMap, UnlockTcpMap, mutexes
  <2>2. CASE LockLoopMap \/ UnlockLoopMap
    BY <2>0, <2>2, ShutdownAssumption DEF LockLoopMap, UnlockLoopMap
  <2>3. ASSUME NEW th \in Threads,
               Dispatch(th) \/ Scan(th) \/ ScanRaces(th) \/ LostInLibc(th)
        PROVE  HoldersAreInside'
    BY <2>0, <2>3
    DEF Dispatch, Scan, ScanRaces, LostInLibc, InRun, mainVars, mutexes, harm
  <2>4. ASSUME NEW th \in Threads, LockLoop(th) \/ UnlockLoop(th)
        PROVE  HoldersAreInside'
    BY <1>0, <2>0, <2>4, ShutdownAssumption DEF LockLoop, UnlockLoop, InRun, mainVars
  <2>5. ASSUME NEW th \in Threads, LockTcp(th) \/ UnlockTcp(th)
        PROVE  HoldersAreInside'
    BY <2>0, <2>5, ShutdownAssumption DEF LockTcp, UnlockTcp, InRun, mainVars
  <2>6. CASE \/ Signal \/ StopMainLoop \/ (\E l \in Loops : StopSubLoop(l))
             \/ DeleteAndExit \/ HandlerLost
    BY <2>0, <2>6
    DEF Signal, StopMainLoop, StopSubLoop, DeleteAndExit, HandlerLost, mainVars,
        mutexes, harm
  <2> QED BY <1>6, <2>1, <2>2, <2>3, <2>4, <2>5, <2>6 DEF Aside
<1>7. ASSUME UNCHANGED vars PROVE HoldersAreInside'
  BY <1>7 DEF vars, poolVars, mainVars, mutexes
<1> QED
  BY <1>1, <1>2, <1>3, <1>4, <1>5, <1>6, <1>7, NextSteps, Zenon

\* The pool is stopped by StopPool only, and a loop that was stopped remains so.
LEMMA NextLoopsStopFirst ==
  ASSUME ShutdownInv, [Next]_vars
  PROVE  LoopsStopFirst'
<1> USE DEF ShutdownInv, TypeOK, LoopsStopFirst
<1>1. ASSUME AddLoop PROVE LoopsStopFirst'
  BY <1>1 DEF AddLoop, Pool!Push, Pool!NotifyOne
<1>2. ASSUME NEW th \in Threads, PoolThread(th) PROVE LoopsStopFirst'
  BY <1>2, PoolMoves DEF PoolThread
<1>3. ASSUME NEW th \in Threads, Return(th) PROVE LoopsStopFirst'
  BY <1>3 DEF Return, Pool!Finish
<1>4. ASSUME StopPool PROVE LoopsStopFirst'
  BY <1>4 DEF StopPool
<1>5. ASSUME JoinPool PROVE LoopsStopFirst'
  BY <1>5 DEF JoinPool, Pool!Join
<1>6. ASSUME Aside PROVE LoopsStopFirst'
  BY <1>6, AsideFrame
  DEF Aside, poolVars, Constructed, LockTcpMap, UnlockTcpMap, LockLoopMap,
      UnlockLoopMap, Dispatch, Scan, ScanRaces, LostInLibc, LockLoop, UnlockLoop,
      LockTcp, UnlockTcp, Signal, StopMainLoop, StopSubLoop, DeleteAndExit, HandlerLost
<1>7. ASSUME UNCHANGED vars PROVE LoopsStopFirst'
  BY <1>7 DEF vars, poolVars
<1> QED
  BY <1>1, <1>2, <1>3, <1>4, <1>5, <1>6, <1>7, NextSteps, Zenon

\* The last join returned when all threads had left, which none of them takes back; a
\* thread that has left is in no map, and so holds no mutex.
LEMMA NextDeletedWhenUnused ==
  ASSUME ShutdownInv, TypeOK', HoldersAreInside', [Next]_vars
  PROVE  DeletedWhenUnused'
<1> SUFFICES ASSUME sigPc' \in {"delete", "exited"}
             PROVE  \A th \in Threads : pc'[th] = "exited"
  <2>1. ASSUME \A th \in Threads : pc'[th] = "exited"
        PROVE  \A th \in Threads : ioPc'[th] = "test"
    BY <2>1 DEF TypeOK
  <2>2. ASSUME \A th \in Threads : ioPc'[th] = "test"
        PROVE  tcpMtx' \notin Threads /\ \A l \in Loops : loopMtx'[l] \notin Threads
    BY <2>2 DEF HoldersAreInside
  <2> QED BY <2>1, <2>2 DEF DeletedWhenUnused
<1> USE DEF ShutdownInv, TypeOK, DeletedWhenUnused
<1>1. ASSUME AddLoop PROVE FALSE
  BY <1>1 DEF AddLoop, MainRuns
<1>2. ASSUME NEW th \in Threads, PoolThread(th) PROVE FALSE
  BY <1>2, PoolMoves DEF PoolThread
<1>3. ASSUME NEW th \in Threads, Return(th) PROVE FALSE
  BY <1>3 DEF Return, InRun
<1>4. ASSUME StopPool PROVE FALSE
  BY <1>4 DEF StopPool
<1>5. ASSUME JoinPool PROVE \A th \in Threads : pc'[th] = "exited"
  BY <1>5 DEF JoinPool, Pool!Join, Pool!threadVars
<1>6. ASSUME Aside PROVE \A th \in Threads : pc'[th] = "exited"
  <2>1. pc' = pc
    BY <1>6, AsideFrame DEF poolVars
  <2>2. sigPc \in {"delete", "exited"}
    BY <1>6
    DEF Aside, Constructed, LockTcpMap, UnlockTcpMap, LockLoopMap, UnlockLoopMap,
        Dispatch, Scan, ScanRaces, LostInLibc, LockLoop, UnlockLoop, LockTcp,
        UnlockTcp, Signal, StopMainLoop, StopSubLoop, DeleteAndExit, HandlerLost
  <2> QED BY <2>1, <2>2
<1>7. ASSUME UNCHANGED vars PROVE \A th \in Threads : pc'[th] = "exited"
  BY <1>7 DEF vars, poolVars
<1> QED
  BY <1>1, <1>2, <1>3, <1>4, <1>5, <1>6, <1>7, NextSteps, Zenon

\* The invariant is inductive, in the states that are ones of the pool.
LEMMA NextShutdownInv == ShutdownInv /\ Pool!TypeOK' /\ [Next]_vars => ShutdownInv'
<1> SUFFICES ASSUME ShutdownInv, Pool!TypeOK', [Next]_vars
             PROVE  ShutdownInv'
  OBVIOUS
<1>1. TypeOK' /\ HoldersAreInside' /\ LoopsStopFirst'
  BY NextTypeOK, NextHoldersAreInside, NextLoopsStopFirst
<1>2. DeletedWhenUnused'
  BY <1>1, NextDeletedWhenUnused
<1> QED BY <1>1, <1>2 DEF ShutdownInv

\* Whatever the main thread and the I/O threads were doing when the signal came: each
\* mutex belongs to the thread inside its scope, the pool is stopped after the sub-loops,
\* and the server is deleted when all I/O threads have left and hold nothing of it
\* (HttpServer.cpp:37-42, TcpServer.cpp:40-52).
THEOREM ShutdownInvHolds == SafetySpec => []ShutdownInv
<1>1. Pool!PoolInv => Pool!TypeOK
  BY DEF Pool!PoolInv
<1> QED
  BY <1>1, InitShutdownInv, NextShutdownInv, PoolInvHolds, PTL DEF SafetySpec
==============================================================================
