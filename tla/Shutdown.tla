------------------------------ MODULE Shutdown -------------------------------
(***************************************************************************)
(* Stopping the server by SIGINT or SIGTERM (bin/server.cpp): the handler  *)
(* Stop runs on the main thread, wherever that thread happens to be, and   *)
(* goes through HttpServer::Stop and TcpServer::Stop, which join the I/O   *)
(* threads; then it deletes the server and exits.  What the handler        *)
(* interrupted never goes on, and keeps the mutexes it holds: the one of   *)
(* TcpServer::m_Conns or the one of a sub-loop's m_Conns, and libc's own   *)
(* if it was inside malloc or stdio.  The I/O threads lock the same        *)
(* mutexes to close connections and to erase idle ones, but the timer      *)
(* looks for idle ones in the map of its loop without the mutex.           *)
(*                                                                         *)
(* The pool of the I/O threads is ThreadPool, with EventLoop::Run of each  *)
(* sub-loop as a task that the constructor adds and that returns when its  *)
(* loop is stopped.  As in bin/server.cpp there are no workers.  One       *)
(* signal comes; a loop that was stopped is woken up, and epoll_wait does  *)
(* not fail (EventLoop).                                                   *)
(***************************************************************************)
EXTENDS Naturals, Sequences, FiniteSets

CONSTANTS
  Threads,          \* the I/O threads
  Loops,            \* m_SubLoops; as tasks of the pool: EventLoop::Run
  Main,             \* the main thread
  NoThread, NoTask

ASSUME ShutdownAssumption ==
  /\ Main \notin Threads /\ NoThread \notin Threads \cup {Main} /\ NoTask \notin Loops
  /\ IsFiniteSet(Threads) /\ IsFiniteSet(Loops)

VARIABLES
  taskQueue, mtx, stop, pc, task, subPc, stopPc, submitted, taken, \* ThreadPool
  mainPc, mainLoop, \* the main thread; the sub-loop of the connection it accepts
  tcpMtx,           \* who holds TcpServer::m_ConnsMtx
  loopMtx,          \* who holds EventLoop::m_ConnsMtx of each sub-loop
  ioPc,             \* each I/O thread inside EventLoop::Run
  loopStop,         \* the sub-loops with m_Stop
  sigPc,            \* the signal handler, and the end of the process
  inLibc,           \* the handler interrupted a call of malloc, free or stdio
  lost              \* the threads that go on no more, and not because of a mutex above

Pool == INSTANCE ThreadPool
          WITH Submitters <- {Main}, Tasks <- Loops, Returning <- {}

poolVars == <<taskQueue, mtx, stop, pc, task, subPc, stopPc, submitted, taken>>
mainVars == <<mainPc, mainLoop>>
mutexes == <<tcpMtx, loopMtx>>
harm == <<inLibc, lost>>
vars == <<poolVars, mainVars, mutexes, ioPc, loopStop, sigPc, harm>>

\* The handlers are installed; HttpServer is being constructed.
Init ==
  /\ Pool!Init
  /\ mainPc = "construct" /\ mainLoop = NoTask
  /\ tcpMtx = NoThread /\ loopMtx = [l \in Loops |-> NoThread]
  /\ ioPc = [th \in Threads |-> "test"]
  /\ loopStop = {}
  /\ sigPc = "none"
  /\ inLibc = FALSE /\ lost = {}

Alive == sigPc \notin {"exited", "crashed"}

-----------------------------------------------------------------------------
(* The main thread, as long as no signal has come.                         *)

MainRuns == sigPc = "none"

\* The constructor of TcpServer: m_ThreadPool.AddTask for each sub-loop.
AddLoop ==
  /\ MainRuns /\ mainPc = "construct"
  /\ \/ \E l \in Loops : Pool!Push(Main, l)
     \/ Pool!NotifyOne(Main)
  /\ UNCHANGED <<mainVars, mutexes, ioPc, loopStop, sigPc, harm>>

\* httpServer = new HttpServer(...), and Start.
Constructed ==
  /\ MainRuns /\ mainPc = "construct"
  /\ Len(submitted) = Cardinality(Loops) /\ subPc[Main] = "idle"
  /\ mainPc' = "run"
  /\ UNCHANGED <<poolVars, mainLoop, mutexes, ioPc, loopStop, sigPc, harm>>

\* OnNewConnection: m_ConnsMtx is locked; the connection belongs to l.
LockTcpMap(l) ==
  /\ MainRuns /\ mainPc = "run"
  /\ tcpMtx = NoThread
  /\ tcpMtx' = Main
  /\ mainPc' = "tcpMap" /\ mainLoop' = l
  /\ UNCHANGED <<poolVars, loopMtx, ioPc, loopStop, sigPc, harm>>

UnlockTcpMap ==
  /\ MainRuns /\ mainPc = "tcpMap"
  /\ tcpMtx' = NoThread
  /\ mainPc' = "between"
  /\ UNCHANGED <<poolVars, mainLoop, loopMtx, ioPc, loopStop, sigPc, harm>>

\* EventLoop::OnNewConnection, which locks the mutex of the sub-loop.
LockLoopMap ==
  /\ MainRuns /\ mainPc = "between"
  /\ loopMtx[mainLoop] = NoThread
  /\ loopMtx' = [loopMtx EXCEPT ![mainLoop] = Main]
  /\ mainPc' = "loopMap"
  /\ UNCHANGED <<poolVars, mainLoop, tcpMtx, ioPc, loopStop, sigPc, harm>>

UnlockLoopMap ==
  /\ MainRuns /\ mainPc = "loopMap"
  /\ loopMtx' = [loopMtx EXCEPT ![mainLoop] = NoThread]
  /\ mainPc' = "run" /\ mainLoop' = NoTask
  /\ UNCHANGED <<poolVars, tcpMtx, ioPc, loopStop, sigPc, harm>>

-----------------------------------------------------------------------------
(* An I/O thread.                                                          *)

\* The thread function of the pool; task() returns only from the test below.
PoolThread(th) ==
  /\ Alive /\ th \notin lost
  /\ Pool!Thread(th) \/ Pool!SpuriousWakeUp(th)
  /\ UNCHANGED <<mainVars, mutexes, ioPc, loopStop, sigPc, harm>>

InRun(th, at) == Alive /\ th \notin lost /\ pc[th] = "run" /\ ioPc[th] = at

\* while (!m_Stop): Run returns, and with it the task of the thread.
Return(th) ==
  /\ InRun(th, "test")
  /\ task[th] \in loopStop
  /\ Pool!Finish(th)
  /\ UNCHANGED <<mainVars, mutexes, ioPc, loopStop, sigPc, harm>>

\* epoll_wait returns: a connection is closed or failed, the timer is due, or there is
\* nothing that needs a map.
Dispatch(th) ==
  /\ InRun(th, "test")
  /\ task[th] \notin loopStop
  /\ \E at \in {"wantTcp", "scan", "test"} : ioPc' = [ioPc EXCEPT ![th] = at]
  /\ UNCHANGED <<poolVars, mainVars, mutexes, loopStop, sigPc, harm>>

\* HandleTimer goes through m_Conns without its mutex, and finds idle connections or
\* none; with none, there may be another event, or the end of the dispatch.
Scan(th) ==
  /\ InRun(th, "scan")
  /\ \E at \in {"wantLoop", "wantTcp", "test"} : ioPc' = [ioPc EXCEPT ![th] = at]
  /\ UNCHANGED <<poolVars, mainVars, mutexes, loopStop, sigPc, harm>>

\* The main thread is inserting into the same map, or was interrupted in the middle of
\* it: undefined.  The iteration follows a dangling pointer, or never finds the end.
ScanRaces(th) ==
  /\ InRun(th, "scan")
  /\ mainPc = "loopMap" /\ mainLoop = task[th]
  /\ \/ sigPc' = "crashed" /\ UNCHANGED lost
     \/ lost' = lost \cup {th} /\ UNCHANGED sigPc
  /\ UNCHANGED <<poolVars, mainVars, mutexes, ioPc, loopStop, inLibc>>

\* HandleTimer: m_Conns.erase(fd), under the mutex of the loop.
LockLoop(th) ==
  /\ InRun(th, "wantLoop")
  /\ loopMtx[task[th]] = NoThread
  /\ loopMtx' = [loopMtx EXCEPT ![task[th]] = th]
  /\ ioPc' = [ioPc EXCEPT ![th] = "inLoop"]
  /\ UNCHANGED <<poolVars, mainVars, tcpMtx, loopStop, sigPc, harm>>

\* Mutant: the mutex is locked by hand, and its unlock forgotten.
KeepLoop(th) ==
  /\ InRun(th, "inLoop")
  /\ ioPc' = [ioPc EXCEPT ![th] = "wantTcp"]
  /\ UNCHANGED <<poolVars, mainVars, mutexes, loopStop, sigPc, harm>>

UnlockLoop(th) ==
  /\ InRun(th, "inLoop")
  /\ loopMtx' = [loopMtx EXCEPT ![task[th]] = NoThread]
  /\ ioPc' = [ioPc EXCEPT ![th] = "wantTcp"]
  /\ UNCHANGED <<poolVars, mainVars, tcpMtx, loopStop, sigPc, harm>>

\* OnCloseConnection, OnErrorConnection, RemoveConnetion: m_Conns.erase(fd).
LockTcp(th) ==
  /\ InRun(th, "wantTcp")
  /\ tcpMtx = NoThread
  /\ tcpMtx' = th
  /\ ioPc' = [ioPc EXCEPT ![th] = "inTcp"]
  /\ UNCHANGED <<poolVars, mainVars, loopMtx, loopStop, sigPc, harm>>

\* The next of the batch or of the idle connections, or the end of the dispatch.
UnlockTcp(th) ==
  /\ InRun(th, "inTcp")
  /\ tcpMtx' = NoThread
  /\ \E at \in {"wantTcp", "wantLoop", "scan", "test"} :
       ioPc' = [ioPc EXCEPT ![th] = at]
  /\ UNCHANGED <<poolVars, mainVars, loopMtx, loopStop, sigPc, harm>>

\* The connections were allocated by the main thread: a thread that frees one, or that
\* allocates, waits for ever for the lock that the interrupted call holds.
LostInLibc(th) ==
  /\ InRun(th, ioPc[th]) /\ inLibc
  /\ lost' = lost \cup {th}
  /\ UNCHANGED <<poolVars, mainVars, mutexes, ioPc, loopStop, sigPc, inLibc>>

-----------------------------------------------------------------------------
(* The signal handler.                                                     *)

\* httpServer->Stop(), through a null pointer while the server is constructed.
\* HttpServer::Stop begins with the pool of the workers, which has no thread.
Signal ==
  /\ sigPc = "none"
  /\ sigPc' = IF mainPc = "construct" THEN "crashed" ELSE "mainLoop"
  /\ inLibc' \in BOOLEAN
  /\ UNCHANGED <<poolVars, mainVars, mutexes, ioPc, loopStop, lost>>

\* m_MainLoop->Stop(): the main loop, which was interrupted, does not go on.
StopMainLoop ==
  /\ sigPc = "mainLoop"
  /\ sigPc' = "subLoops"
  /\ UNCHANGED <<poolVars, mainVars, mutexes, ioPc, loopStop, harm>>

\* m_SubLoops[i]->Stop(), one after the other.
StopSubLoop(l) ==
  /\ sigPc = "subLoops" /\ l \notin loopStop
  /\ loopStop' = loopStop \cup {l}
  /\ UNCHANGED <<poolVars, mainVars, mutexes, ioPc, sigPc, harm>>

\* Mutant: the pool is stopped before all loops are.
StopPoolEarly ==
  /\ sigPc \in {"subLoops", "pool"}
  /\ Pool!SetStop \/ Pool!NotifyAll
  /\ sigPc' = "pool"
  /\ UNCHANGED <<mainVars, mutexes, ioPc, loopStop, harm>>

\* m_ThreadPool.Stop()
StopPool ==
  /\ (sigPc = "subLoops" /\ loopStop = Loops) \/ sigPc = "pool"
  /\ Pool!SetStop \/ Pool!NotifyAll
  /\ sigPc' = "pool"
  /\ UNCHANGED <<mainVars, mutexes, ioPc, loopStop, harm>>

\* Mutant: the threads are detached and not joined.
DoNotJoin ==
  /\ sigPc = "pool" /\ stopPc = "join"
  /\ sigPc' = "delete"
  /\ UNCHANGED <<poolVars, mainVars, mutexes, ioPc, loopStop, harm>>

\* The last join returned.
JoinPool ==
  /\ sigPc = "pool"
  /\ Pool!Join
  /\ sigPc' = "delete"
  /\ UNCHANGED <<mainVars, mutexes, ioPc, loopStop, harm>>

\* delete httpServer; printf; exit(0).  A map that the main thread was inserting into is
\* destroyed as it is, and a heap that it was changing is changed again.
DeleteAndExit ==
  /\ sigPc = "delete" /\ Main \notin lost
  /\ sigPc' \in IF inLibc \/ mainPc \in {"tcpMap", "loopMap"} THEN {"exited", "crashed"}
                ELSE {"exited"}
  /\ UNCHANGED <<poolVars, mainVars, mutexes, ioPc, loopStop, harm>>

\* ... or the handler waits for the lock that its own thread holds in libc.
HandlerLost ==
  /\ sigPc = "delete" /\ inLibc
  /\ lost' = lost \cup {Main}
  /\ UNCHANGED <<poolVars, mainVars, mutexes, ioPc, loopStop, sigPc, inLibc>>

Ended == ~Alive /\ UNCHANGED vars

-----------------------------------------------------------------------------
MainThread ==
  \/ AddLoop \/ Constructed
  \/ \E l \in Loops : LockTcpMap(l)
  \/ UnlockTcpMap \/ LockLoopMap \/ UnlockLoopMap

\* What an I/O thread does without being obliged to wait for another.
IoThread(th) ==
  Return(th) \/ Dispatch(th) \/ Scan(th) \/ UnlockLoop(th) \/ UnlockTcp(th)

Handler ==
  \/ StopMainLoop
  \/ \E l \in Loops : StopSubLoop(l)
  \/ StopPool \/ JoinPool \/ DeleteAndExit

Next ==
  \/ MainThread
  \/ \E th \in Threads :
       \/ PoolThread(th) \/ IoThread(th) \/ LockLoop(th) \/ LockTcp(th)
       \/ ScanRaces(th) \/ LostInLibc(th)
  \/ Signal
  \/ Handler \/ HandlerLost
  \/ Ended

SafetySpec == Init /\ [][Next]_vars

(***************************************************************************)
(* Threads run, a mutex that is free again and again is acquired in the    *)
(* end, and what one epoll_wait returned is finite.  No connection has to  *)
(* be accepted and no signal has to come; there is no spurious wake-up to  *)
(* count on.                                                               *)
(***************************************************************************)
Fairness ==
  /\ WF_vars(AddLoop \/ Constructed \/ UnlockTcpMap \/ UnlockLoopMap)
  /\ SF_vars(LockLoopMap)
  /\ \A th \in Threads :
       /\ SF_vars(PoolThread(th) /\ Pool!Thread(th))
       /\ WF_vars(IoThread(th))
       /\ SF_vars(LockLoop(th) \/ LockTcp(th))
       /\ SF_vars(UnlockTcp(th) /\ ioPc'[th] = "test")
  /\ WF_vars(Handler)

Spec == SafetySpec /\ Fairness

-----------------------------------------------------------------------------
(* Properties                                                              *)

TypeOK ==
  /\ Pool!TypeOK
  /\ mainPc \in {"construct", "run", "tcpMap", "between", "loopMap"}
  /\ mainLoop \in Loops \cup {NoTask}
  /\ tcpMtx \in Threads \cup {Main, NoThread}
  /\ loopMtx \in [Loops -> Threads \cup {Main, NoThread}]
  /\ ioPc \in [Threads -> {"test", "scan", "wantLoop", "inLoop", "wantTcp", "inTcp"}]
  /\ \A th \in Threads : ioPc[th] # "test" => pc[th] = "run"
  /\ loopStop \subseteq Loops
  /\ sigPc \in {"none", "mainLoop", "subLoops", "pool", "delete", "exited", "crashed"}
  /\ inLibc \in BOOLEAN /\ lost \subseteq Threads \cup {Main}

\* A mutex is held by the thread that is inside its scope and by no other, an I/O thread
\* by the one of its own loop, the main thread by the one of the connection it accepts;
\* what the signal interrupts keeps it (EventLoop.cpp:156-162, TcpServer.cpp:62-66,
\* 77-81).
HoldersAreInside ==
  /\ \A th \in Threads :
       /\ tcpMtx = th <=> ioPc[th] = "inTcp"
       /\ \A l \in Loops : loopMtx[l] = th <=> ioPc[th] = "inLoop" /\ task[th] = l
  /\ tcpMtx = Main <=> mainPc = "tcpMap"
  /\ \A l \in Loops : loopMtx[l] = Main <=> mainPc = "loopMap" /\ mainLoop = l
  /\ mainLoop \in Loops <=> mainPc \in {"tcpMap", "between", "loopMap"}

\* The pool is stopped after all the sub-loops, whose tasks would not return
\* otherwise (TcpServer.cpp:40-52).
LoopsStopFirst ==
  sigPc \in {"pool", "delete", "exited"} \/ stop => loopStop = Loops

\* th waits for a mutex of the thread that the handler has interrupted.
LockedOut(th) ==
  /\ sigPc # "none"
  /\ \/ InRun(th, "wantTcp") /\ tcpMtx = Main
     \/ InRun(th, "wantLoop") /\ loopMtx[task[th]] = Main

\* th went to sleep on the condition variable of the pool after m_Stop was set and
\* notified.
Unnotified(th) == stopPc = "join" /\ pc[th] = "waiting"

\* The server is deleted only when no I/O thread can use it any more: all of them
\* have left, whatever they were doing when the signal came, and their tasks and
\* mutexes with them (HttpServer.cpp:37-42, TcpServer.cpp:40-52).
DeletedWhenUnused ==
  sigPc \in {"delete", "exited"} =>
    /\ \A th \in Threads : pc[th] = "exited" /\ ioPc[th] = "test"
    /\ tcpMtx \notin Threads /\ \A l \in Loops : loopMtx[l] \notin Threads

\* The types, the mutexes and the deletion of the server as stated above: inductive.
ShutdownInv == TypeOK /\ HoldersAreInside /\ LoopsStopFirst /\ DeletedWhenUnused

\* A signal that interrupts the main thread outside the scopes of the two mutexes and
\* outside libc ends the process in an orderly way, unless an I/O thread misses the
\* notification of the pool or was lost before in a map half filled: all other threads
\* leave their loops, even those that are inside the maps.
CleanSignalExits ==
  (sigPc = "mainLoop" /\ mainPc \notin {"tcpMap", "loopMap"} /\ ~inLibc /\ lost = {})
    ~> (sigPc = "exited" \/ \E th \in Threads : Unnotified(th))

\* The handler gets stuck for known reasons only: a thread locked out by what the handler
\* interrupted, one that missed the notification, and one that was lost, in libc or in
\* a map half filled.
StuckForKnownReasons ==
  (sigPc = "mainLoop")
    ~> (~Alive \/ lost # {} \/ \E th \in Threads : LockedOut(th) \/ Unnotified(th))

\* A signal ends the process, in order if it comes at a good moment, unless one of the
\* waits stated above stops the handler (bin/server.cpp:18-25).
SignalEnds == CleanSignalExits /\ StuckForKnownReasons

\* Without a signal nobody waits for ever for the mutexes: the timer, which uses both,
\* the closing of connections and the accept do not block one another
\* (EventLoop.cpp:156-162, TcpServer.cpp:62-66, 77-81).
MutexesAreGiven ==
  /\ \A th \in Threads :
       ioPc[th] \in {"wantLoop", "wantTcp"}
         ~> (ioPc[th] \in {"inLoop", "inTcp", "test"} \/ sigPc # "none")
  /\ mainPc = "between" ~> (mainPc = "run" \/ sigPc # "none")

-----------------------------------------------------------------------------
\* "In the signal handler, stop the main and sub event loops and the workers; the
\* server exits by itself" (bin/server.cpp:12-14): the handler does not join a thread
\* that waits for a mutex of the thread the handler runs on.
HandlerNeverDeadlocks ==
  ~(stopPc = "join" /\ \E th \in Threads : LockedOut(th))
==============================================================================
