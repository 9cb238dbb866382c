-------------------------- MODULE ConnectionsProofs --------------------------
(***************************************************************************)
(* Proofs about Connections for any number of connections, descriptors and *)
(* workers: ConnsInv is inductive, hence the two maps agree as far as they *)
(* promise to, a descriptor has one open connection at most, no insertion  *)
(* overwrites an entry, and the timer erases what it may erase.            *)
(***************************************************************************)
EXTENDS Connections, QueueLemmas

-----------------------------------------------------------------------------
(* The steps.                                                              *)

\* The steps of the loop and of the workers that leave alone who is in which map,
\* the main thread and the work of the timer.
LoopAside ==
  \/ \E b \in SUBSET (Conns \cup {TimerChannel, WakeChannel}) : EpollReturn(b)
  \/ EpollFails \/ DispatchDone
  \/ \E c \in Conns : HandleDestroyed(c) \/ ReadPart(c) \/ OnWrite(c)
  \/ HandleTimer \/ TimerDone
  \/ HandleWakeUp \/ SendInLoop \/ DrainDone

\* Every step is one of those that touch the maps, the timer or the holders, or stands aside.
LEMMA NextSteps ==
  ASSUME [Next]_vars, NEW Goal,
         \A c \in Conns, fd \in Fds : NewConnection(c, fd) => Goal,
         SetCallbacks => Goal,
         InsertTcp => Goal,
         InsertLoop => Goal,
         LoopAside => Goal,
         \A c \in Conns : ReadMessage(c) => Goal,
         \A c \in Conns : CloseConnection(c) => Goal,
         ScanConns => Goal,
         \A fd \in Fds : EraseLoop(fd) => Goal,
         RemoveTcp => Goal,
         \A w \in Workers : Worker(w) => Goal,
         \A c \in Conns : Elapse(c) => Goal,
         UNCHANGED vars => Goal
  PROVE  Goal
BY Zenon DEF Next, Main, Loop, LoopAside, Crashed

\* What a step of LoopAside leaves alone, and what it may do to the rest.
AsideFrame ==
  /\ UNCHANGED <<fdOf, mainPc, mainConn, callbacks, tcpConns, loopConns, disconnect,
                 inEpoll, tree, quiet, readyToErase, erasing, workQueue, workerPc,
                 workerConn>>
  /\ loopPc # "remove"
  /\ loopPc' \in {"poll", "dispatch", "scan", "drain", "exit", "undefined"}
  /\ loopPc = "erase" => readyToErase = {}
  /\ loopQueue' = loopQueue \/ (loopQueue # <<>> /\ loopQueue' = Tail(loopQueue))
  /\ \/ batch' \subseteq batch
     \/ batch' \subseteq Conns \cup {TimerChannel, WakeChannel}

\* The steps of the loop that stand aside leave the maps and the holders alone.
LEMMA LoopAsideFrame ==
  ASSUME LoopAside
  PROVE  AsideFrame
<1> USE DEF mainVars, mapVars, epollVars, timerVars, workerVars, AsideFrame
<1>1. ASSUME NEW b \in SUBSET (Conns \cup {TimerChannel, WakeChannel}), EpollReturn(b)
      PROVE  AsideFrame
  BY <1>1 DEF EpollReturn
<1>2. CASE EpollFails \/ DispatchDone
  BY <1>2 DEF EpollFails, DispatchDone
<1>3. ASSUME NEW c \in Conns, HandleDestroyed(c) \/ ReadPart(c) \/ OnWrite(c)
      PROVE  AsideFrame
  BY <1>3 DEF HandleDestroyed, ReadPart, OnWrite, CallCallback, Dispatched
<1>4. CASE HandleTimer
  BY <1>4 DEF HandleTimer
<1>5. CASE TimerDone
  BY <1>5 DEF TimerDone
<1>6. CASE HandleWakeUp
  BY <1>6 DEF HandleWakeUp
<1>7. CASE SendInLoop
  BY <1>7 DEF SendInLoop
<1>8. CASE DrainDone
  BY <1>8 DEF DrainDone
<1> HIDE DEF AsideFrame
<1> QED BY <1>1, <1>2, <1>3, <1>4, <1>5, <1>6, <1>7, <1>8, Zenon DEF LoopAside

\* What a step of a worker leaves alone.
LEMMA WorkerFrame ==
  ASSUME NEW w \in Workers, Worker(w)
  PROVE  UNCHANGED <<fdOf, mainPc, mainConn, callbacks, tcpConns, loopConns, disconnect,
                     inEpoll, tree, quiet, loopPc, batch, readyToErase, erasing>>
BY DEF Worker, TakeRequest, TestDisconnect, QueueReply, ReleaseRequest,
       mainVars, mapVars, epollVars, timerVars

-----------------------------------------------------------------------------
(* The invariant holds at the beginning.                                   *)

\* The invariant holds before the first connection.
LEMMA InitConnsInv == Init => ConnsInv
<1> SUFFICES ASSUME Init PROVE ConnsInv
  OBVIOUS
<1> USE ConnsAssumption
<1>1. TypeOK
  <2>1. <<>> \in Seq(Conns)
    BY EmptySeq
  <2> QED BY <2>1 DEF Init, TypeOK
<1>2. MainCreated /\ TcpEntryIsInLoop /\ ReadyIsQuiet /\ ErasedIsIdleOrNewer
  BY DEF Init, MainCreated, TcpEntryIsInLoop, ReadyIsQuiet, ErasedIsIdleOrNewer
<1>3. OneConnPerFd
  BY DEF Init, OneConnPerFd, Alive, Created
<1> QED BY <1>1, <1>2, <1>3 DEF ConnsInv

-----------------------------------------------------------------------------
(* The types.                                                              *)

\* Every step keeps the types.
LEMMA NextTypeOK ==
  ASSUME TypeOK, [Next]_vars
  PROVE  TypeOK'
<1> USE ConnsAssumption DEF TypeOK
<1>1. ASSUME NEW c \in Conns, NEW fd \in Fds, NewConnection(c, fd)
      PROVE  TypeOK'
  BY <1>1 DEF NewConnection, mapVars, timerVars, workerVars
<1>2. CASE SetCallbacks
  BY <1>2 DEF SetCallbacks, BeginSetCallbacks, EndSetCallbacks, mapVars, epollVars,
              timerVars, workerVars
<1>3. CASE InsertTcp
  BY <1>3 DEF InsertTcp, epollVars, timerVars, workerVars
<1>4. CASE InsertLoop
  BY <1>4 DEF InsertLoop, epollVars, timerVars, workerVars
<1>5. CASE LoopAside
  <2>1. loopQueue' \in Seq(Conns)
    <3>1. loopQueue # <<>> => Tail(loopQueue) \in Seq(Conns)
      BY HeadTailProperties
    <3> QED BY <1>5, <3>1, LoopAsideFrame DEF AsideFrame
  <2>2. erasing' # NoFd <=> loopPc' = "remove"
    BY <1>5, LoopAsideFrame DEF AsideFrame
  <2>3. batch' \subseteq Conns \cup {TimerChannel, WakeChannel}
    BY <1>5, LoopAsideFrame DEF AsideFrame
  <2>4. erasing' \in Fds \cup {NoFd} /\ readyToErase' \subseteq Fds
    BY <1>5, LoopAsideFrame DEF AsideFrame
  <2>5. /\ fdOf' \in [Conns -> Fds \cup {NoFd}]
        /\ mainPc' \in {"accept", "callbacks", "setting", "tcpMap", "loopMap"}
        /\ mainConn' \in Conns \cup {NoConn}
        /\ mainConn' = NoConn <=> mainPc' = "accept"
        /\ callbacks' \subseteq Conns
        /\ tcpConns' \in [Fds -> Conns \cup {NoConn}]
        /\ loopConns' \in [Fds -> Conns \cup {NoConn}]
        /\ disconnect' \subseteq Conns /\ quiet' \subseteq Conns
        /\ inEpoll' \subseteq Conns /\ tree' \subseteq Conns
    BY <1>5, LoopAsideFrame DEF AsideFrame
  <2>6. /\ workQueue' \in Seq(Conns)
        /\ workerPc' \in [Workers -> {"idle", "send", "queue", "release"}]
        /\ workerConn' \in [Workers -> Conns \cup {NoConn}]
        /\ \A w \in Workers : workerConn'[w] = NoConn <=> workerPc'[w] = "idle"
    BY <1>5, LoopAsideFrame DEF AsideFrame
  <2>7. loopPc' \in {"poll", "dispatch", "scan", "erase", "remove", "drain",
                     "exit", "undefined"}
    BY <1>5, LoopAsideFrame DEF AsideFrame
  <2> QED BY <2>1, <2>2, <2>3, <2>4, <2>5, <2>6, <2>7
<1>6. ASSUME NEW c \in Conns, ReadMessage(c)
      PROVE  TypeOK'
  <2>1. Append(workQueue, c) \in Seq(Conns)
    BY AppendProperties
  <2> QED
    BY <1>6, <2>1 DEF ReadMessage, CallCallback, Dispatched, mainVars, mapVars, epollVars,
                      timerVars,
                      workerVars
<1>7. ASSUME NEW c \in Conns, CloseConnection(c)
      PROVE  TypeOK'
  BY <1>7 DEF CloseConnection, CallCallback, Dispatched, RemoveChannel, mainVars,
              timerVars, workerVars
<1>8. CASE ScanConns
  BY <1>8 DEF ScanConns, mainVars, mapVars, epollVars, workerVars
<1>9. ASSUME NEW fd \in Fds, EraseLoop(fd)
      PROVE  TypeOK'
  BY <1>9 DEF EraseLoop, mainVars, epollVars, workerVars
<1>10. CASE RemoveTcp
  BY <1>10 DEF RemoveTcp, mainVars, epollVars, workerVars
<1>11. ASSUME NEW w \in Workers, Worker(w)
       PROVE  TypeOK'
  <2>1. CASE TakeRequest(w)
    <3>1. Head(workQueue) \in Conns /\ Tail(workQueue) \in Seq(Conns)
      BY <2>1, HeadTailProperties DEF TakeRequest
    <3> QED BY <2>1, <3>1 DEF TakeRequest, mainVars, mapVars, epollVars, timerVars
  <2>2. CASE TestDisconnect(w)
    BY <2>2 DEF TestDisconnect, mainVars, mapVars, epollVars, timerVars
  <2>3. CASE QueueReply(w)
    <3>1. Append(loopQueue, workerConn[w]) \in Seq(Conns)
      BY <2>3, AppendProperties DEF QueueReply
    <3> QED BY <2>3, <3>1 DEF QueueReply, mainVars, mapVars, epollVars, timerVars
  <2>4. CASE ReleaseRequest(w)
    BY <2>4 DEF ReleaseRequest, mainVars, mapVars, epollVars, timerVars
  <2> QED BY <1>11, <2>1, <2>2, <2>3, <2>4 DEF Worker
<1>12. ASSUME NEW c \in Conns, Elapse(c)
       PROVE  TypeOK'
  BY <1>12 DEF Elapse, mainVars, mapVars, epollVars, timerVars, workerVars
<1>13. CASE UNCHANGED vars
  BY <1>13 DEF vars, mainVars, mapVars, epollVars, timerVars, workerVars
<1> HIDE DEF TypeOK
<1> QED
  BY <1>1, <1>2, <1>3, <1>4, <1>5, <1>6, <1>7, <1>8, <1>9, <1>10, <1>11, <1>12, <1>13,
     NextSteps, Zenon

-----------------------------------------------------------------------------
(* Who holds a connection.                                                 *)

\* Only the accept makes somebody hold a connection that nobody held.
LEMMA HeldOnlyShrinks ==
  ASSUME TypeOK, [Next]_vars, NEW c \in Conns, Held(c)',
         ~\E d \in Conns, fd \in Fds : NewConnection(d, fd)
  PROVE  Held(c) /\ fdOf' = fdOf
<1> DEFINE Goal == Held(c) /\ fdOf' = fdOf
<1> USE ConnsAssumption DEF TypeOK
<1>1. ASSUME NEW d \in Conns, NEW fd \in Fds, NewConnection(d, fd)
      PROVE  Goal
  BY <1>1
<1>2. ASSUME SetCallbacks
      PROVE  Goal
  BY <1>2 DEF SetCallbacks, BeginSetCallbacks, EndSetCallbacks, mapVars, epollVars,
              timerVars, workerVars, Held, Elements
<1>3. ASSUME InsertTcp
      PROVE  Goal
  BY <1>3 DEF InsertTcp, epollVars, timerVars, workerVars, Held, Elements
<1>4. ASSUME InsertLoop
      PROVE  Goal
  BY <1>4 DEF InsertLoop, epollVars, timerVars, workerVars, Held, Elements
<1>5. ASSUME LoopAside
      PROVE  Goal
  BY <1>5, LoopAsideFrame DEF AsideFrame, Held, Elements
<1>6. ASSUME NEW d \in Conns, ReadMessage(d)
      PROVE  Goal
  <2>1. Held(d) /\ fdOf' = fdOf
    BY <1>6 DEF ReadMessage, Alive
  <2>2. workQueue' = workQueue \/ workQueue' = Append(workQueue, d)
    BY <1>6 DEF ReadMessage
  <2>3. Elements(Append(workQueue, d)) \subseteq Elements(workQueue) \cup {d}
    BY AppendProperties DEF Elements
  <2>4. UNCHANGED <<mainConn, tcpConns, loopConns, workerConn>>
    BY <1>6 DEF ReadMessage, mainVars, mapVars, workerVars
  <2>5. CASE c = d
    BY <2>1, <2>5
  <2>6. CASE c # d
    <3>1. c \in Elements(workQueue)' => c \in Elements(workQueue)
      BY <2>2, <2>3, <2>6 DEF Elements
    <3> QED BY <2>1, <2>4, <3>1 DEF Held
  <2> QED BY <2>5, <2>6
<1>7. ASSUME NEW d \in Conns, CloseConnection(d)
      PROVE  Goal
  BY <1>7 DEF CloseConnection, mainVars, timerVars, workerVars, Held, Elements
<1>8. ASSUME ScanConns
      PROVE  Goal
  BY <1>8 DEF ScanConns, mainVars, mapVars, epollVars, workerVars, Held, Elements
<1>9. ASSUME NEW fd \in Fds, EraseLoop(fd)
      PROVE  Goal
  BY <1>9 DEF EraseLoop, mainVars, epollVars, workerVars, Held, Elements
<1>10. ASSUME RemoveTcp
       PROVE  Goal
  BY <1>10 DEF RemoveTcp, mainVars, epollVars, workerVars, Held, Elements
<1>11. ASSUME NEW w \in Workers, Worker(w)
       PROVE  Goal
  <2>1. UNCHANGED <<mainConn, tcpConns, loopConns, fdOf>>
    BY <1>11, WorkerFrame
  <2>2. CASE TakeRequest(w)
    <3>1. /\ workQueue # <<>>
          /\ workQueue' = Tail(workQueue)
          /\ workerConn' = [workerConn EXCEPT ![w] = Head(workQueue)]
      BY <2>2 DEF TakeRequest
    <3>2. /\ Head(workQueue) \in Elements(workQueue)
          /\ Elements(Tail(workQueue)) \subseteq Elements(workQueue)
      BY <3>1, HeadTailProperties, LenProperties DEF Elements
    <3> QED BY <2>1, <3>1, <3>2 DEF Held, Elements
  <2>3. CASE TestDisconnect(w) \/ QueueReply(w)
    BY <2>1, <2>3 DEF TestDisconnect, QueueReply, Held, Elements
  <2>4. CASE ReleaseRequest(w)
    BY <2>1, <2>4 DEF ReleaseRequest, Held, Elements
  <2> QED BY <1>11, <2>2, <2>3, <2>4 DEF Worker
<1>12. ASSUME NEW d \in Conns, Elapse(d)
       PROVE  Goal
  BY <1>12 DEF Elapse, mainVars, mapVars, epollVars, timerVars, workerVars, Held, Elements
<1>13. ASSUME UNCHANGED vars
       PROVE  Goal
  BY <1>13 DEF vars, mainVars, mapVars, epollVars, timerVars, workerVars, Held, Elements
<1> HIDE DEF Goal
<1>14. Goal
  BY <1>1, <1>2, <1>3, <1>4, <1>5, <1>6, <1>7, <1>8, <1>9, <1>10, <1>11, <1>12, <1>13,
     NextSteps, Zenon
<1> QED BY <1>14 DEF Goal

-----------------------------------------------------------------------------
(* The maps.                                                               *)

\* The steps that leave the maps, the descriptors and the main thread's conn alone.
LEMMA MapsFrame ==
  ASSUME [Next]_vars, NEW Goal,
         \A c \in Conns, fd \in Fds : NewConnection(c, fd) => Goal,
         InsertTcp => Goal,
         InsertLoop => Goal,
         \A c \in Conns : CloseConnection(c) => Goal,
         \A fd \in Fds : EraseLoop(fd) => Goal,
         RemoveTcp => Goal,
         UNCHANGED <<fdOf, mainConn, tcpConns, loopConns, erasing>> => Goal
  PROVE  Goal
<1> USE DEF mainVars, mapVars, epollVars, timerVars, workerVars
<1>1. SetCallbacks => Goal
  BY DEF SetCallbacks, BeginSetCallbacks, EndSetCallbacks
<1>2. LoopAside => Goal
  BY LoopAsideFrame DEF AsideFrame
<1>3. ASSUME NEW c \in Conns
      PROVE  ReadMessage(c) \/ Elapse(c) => Goal
  BY DEF ReadMessage, Elapse
<1>4. ScanConns => Goal
  BY DEF ScanConns
<1>5. ASSUME NEW w \in Workers
      PROVE  Worker(w) => Goal
  BY WorkerFrame
<1>6. UNCHANGED vars => Goal
  BY DEF vars
<1> QED BY <1>1, <1>2, <1>3, <1>4, <1>5, <1>6, NextSteps, Zenon

\* The main thread's conn exists, and entries are filed under their descriptor.
LEMMA NextFiled ==
  ASSUME TypeOK, MainCreated, OneConnPerFd, [Next]_vars
  PROVE  /\ MainCreated'
         /\ \A fd \in Fds : tcpConns'[fd] # NoConn => fdOf'[tcpConns'[fd]] = fd
         /\ \A fd \in Fds : loopConns'[fd] # NoConn => fdOf'[loopConns'[fd]] = fd
<1> DEFINE Goal ==
      /\ MainCreated'
      /\ \A fd \in Fds : tcpConns'[fd] # NoConn => fdOf'[tcpConns'[fd]] = fd
      /\ \A fd \in Fds : loopConns'[fd] # NoConn => fdOf'[loopConns'[fd]] = fd
<1> USE ConnsAssumption DEF TypeOK, MainCreated, OneConnPerFd, Created
<1>1. ASSUME NEW c \in Conns, NEW fd \in Fds, NewConnection(c, fd)
      PROVE  Goal
  <2>1. \A d \in Conns : fdOf[d] # NoFd => fdOf'[d] = fdOf[d]
    BY <1>1 DEF NewConnection
  <2>2. mainConn' = c /\ fdOf'[c] = fd /\ tcpConns' = tcpConns /\ loopConns' = loopConns
    BY <1>1 DEF NewConnection, mapVars
  <2> QED BY <2>1, <2>2
<1>2. ASSUME InsertTcp
      PROVE  Goal
  BY <1>2 DEF InsertTcp
<1>3. ASSUME InsertLoop
      PROVE  Goal
  BY <1>3 DEF InsertLoop
<1>4. ASSUME NEW c \in Conns, CloseConnection(c)
      PROVE  Goal
  BY <1>4 DEF CloseConnection, mainVars
<1>5. ASSUME NEW fd \in Fds, EraseLoop(fd)
      PROVE  Goal
  BY <1>5 DEF EraseLoop, mainVars
<1>6. ASSUME RemoveTcp
      PROVE  Goal
  BY <1>6 DEF RemoveTcp, mainVars
<1>7. ASSUME UNCHANGED <<fdOf, mainConn, tcpConns, loopConns, erasing>>
      PROVE  Goal
  BY <1>7
<1> HIDE DEF Goal
<1>8. Goal
  BY <1>1, <1>2, <1>3, <1>4, <1>5, <1>6, <1>7, MapsFrame, Zenon
<1> QED BY <1>8 DEF Goal

\* accept4 returns a descriptor that no open connection has, and nothing brings a
\* destroyed connection back.
LEMMA NextOneOpen ==
  ASSUME TypeOK, OneConnPerFd, [Next]_vars,
         NEW c \in Conns, NEW d \in Conns,
         Alive(c)', Alive(d)', fdOf'[c] = fdOf'[d]
  PROVE  c = d
<1>1. CASE \E e \in Conns, fd \in Fds : NewConnection(e, fd)
  <2>1. PICK e \in Conns, fd \in Fds : NewConnection(e, fd)
    BY <1>1
  <2>2. /\ mainConn = NoConn /\ mainConn' = e
        /\ fd \notin OpenFds
        /\ fdOf' = [fdOf EXCEPT ![e] = fd]
        /\ UNCHANGED <<tcpConns, loopConns, workQueue, workerConn>>
    BY <2>1 DEF NewConnection, TypeOK, mapVars, workerVars
  <2>3. ASSUME NEW x \in Conns, Alive(x)', x # e
        PROVE  Alive(x) /\ fdOf'[x] = fdOf[x] /\ fdOf'[x] # fd
    <3>1. fdOf'[x] = fdOf[x]
      BY <2>2, <2>3 DEF TypeOK
    <3>2. Held(x)
      BY <2>2, <2>3 DEF Alive, Held, Elements
    <3>3. Alive(x)
      BY <2>3, <3>1, <3>2 DEF Alive, Created
    <3> QED BY <2>2, <3>1, <3>3 DEF OpenFds
  <2>4. fdOf'[e] = fd
    BY <2>2 DEF TypeOK
  <2>5. CASE c = e \/ d = e
    BY <2>3, <2>4, <2>5
  <2>6. CASE c # e /\ d # e
    BY <2>3, <2>6 DEF OneConnPerFd
  <2> QED BY <2>5, <2>6
<1>2. CASE ~\E e \in Conns, fd \in Fds : NewConnection(e, fd)
  <2>1. ASSUME NEW x \in Conns, Alive(x)'
        PROVE  Alive(x) /\ fdOf'[x] = fdOf[x]
    <3>1. Held(x)' /\ Created(x)'
      BY <2>1 DEF Alive
    <3>2. Held(x) /\ fdOf' = fdOf
      BY <1>2, <3>1, HeldOnlyShrinks
    <3> QED BY <3>1, <3>2 DEF Alive, Created
  <2> QED BY <2>1 DEF OneConnPerFd
<1> QED BY <1>1, <1>2

\* Only an accept can put a second connection on a descriptor, and it takes one that is free.
LEMMA NextOneConnPerFd ==
  ASSUME TypeOK, MainCreated, OneConnPerFd, [Next]_vars
  PROVE  OneConnPerFd'
<1>1. \A c, d \in Conns :
        Alive(c)' /\ Alive(d)' /\ fdOf'[c] = fdOf'[d] => c = d
  BY NextOneOpen
<1> QED BY <1>1, NextFiled DEF OneConnPerFd

\* An entry for the descriptor of the main thread's conn is that conn.
LEMMA EntryOfMain ==
  ASSUME TypeOK, MainCreated, OneConnPerFd, mainConn # NoConn, NEW fd \in Fds,
         fdOf[mainConn] = fd
  PROVE  /\ tcpConns[fd] \in {mainConn, NoConn}
         /\ loopConns[fd] \in {mainConn, NoConn}
<1> USE ConnsAssumption DEF TypeOK
<1>1. mainConn \in Conns /\ Alive(mainConn)
  BY DEF MainCreated, Alive, Held
<1>2. ASSUME NEW c \in Conns, c = tcpConns[fd] \/ c = loopConns[fd]
      PROVE  c = mainConn
  <2>1. c # NoConn /\ fdOf[c] = fd /\ Held(c)
    BY <1>2 DEF OneConnPerFd, Held
  <2>2. Alive(c)
    BY <2>1 DEF Alive, Created
  <2> QED BY <1>1, <2>1, <2>2 DEF OneConnPerFd
<1> QED BY <1>2

\* What the server's map holds stays in the loop's map, or is about to be put there, or is
\* about to be erased by the timer.
LEMMA NextTcpEntryIsInLoop ==
  ASSUME TypeOK, MainCreated, OneConnPerFd, TcpEntryIsInLoop, [Next]_vars
  PROVE  TcpEntryIsInLoop'
<1> USE ConnsAssumption DEF TypeOK, TcpEntryIsInLoop
<1>1. ASSUME NEW c \in Conns, NEW fd \in Fds, NewConnection(c, fd)
      PROVE  TcpEntryIsInLoop'
  BY <1>1 DEF NewConnection, mapVars, timerVars
<1>2. ASSUME InsertTcp
      PROVE  TcpEntryIsInLoop'
  BY <1>2 DEF InsertTcp, timerVars
<1>3. ASSUME InsertLoop
      PROVE  TcpEntryIsInLoop'
  <2>1. mainConn \in Conns /\ fdOf[mainConn] \in Fds
    BY <1>3 DEF InsertLoop, MainCreated, Created
  <2>2. /\ loopConns' = [loopConns EXCEPT ![fdOf[mainConn]] = mainConn]
        /\ tcpConns' = tcpConns /\ erasing' = erasing
    BY <1>3 DEF InsertLoop, timerVars
  <2>3. ASSUME NEW fd \in Fds, tcpConns[fd] # NoConn
        PROVE  loopConns'[fd] = tcpConns[fd] \/ erasing = fd
    <3>1. CASE fd = fdOf[mainConn]
      BY <2>1, <2>2, <2>3, <3>1, EntryOfMain
    <3>2. CASE fd # fdOf[mainConn]
      <4>1. tcpConns[fd] # mainConn
        BY <2>3, <3>2 DEF OneConnPerFd
      <4> QED BY <2>2, <2>3, <3>2, <4>1
    <3> QED BY <3>1, <3>2
  <2> QED BY <2>2, <2>3
<1>4. ASSUME NEW c \in Conns, CloseConnection(c)
      PROVE  TcpEntryIsInLoop'
  BY <1>4 DEF CloseConnection, mainVars, timerVars
<1>5. ASSUME NEW fd \in Fds, EraseLoop(fd)
      PROVE  TcpEntryIsInLoop'
  BY <1>5 DEF EraseLoop, mainVars
<1>6. ASSUME RemoveTcp
      PROVE  TcpEntryIsInLoop'
  BY <1>6 DEF RemoveTcp, mainVars
<1>7. ASSUME UNCHANGED <<fdOf, mainConn, tcpConns, loopConns, erasing>>
      PROVE  TcpEntryIsInLoop'
  BY <1>7
<1> HIDE DEF TypeOK, TcpEntryIsInLoop
<1> QED BY <1>1, <1>2, <1>3, <1>4, <1>5, <1>6, <1>7, MapsFrame, Zenon

-----------------------------------------------------------------------------
(* The work of the timer.                                                  *)

\* Nobody but the thread that works through the list of the timer can end an idleness.
LEMMA NextReadyIsQuiet ==
  ASSUME TypeOK, MainCreated, OneConnPerFd, ReadyIsQuiet, [Next]_vars
  PROVE  ReadyIsQuiet'
<1> USE ConnsAssumption DEF ReadyIsQuiet, mainVars, mapVars, epollVars, timerVars,
                            workerVars
<1>1. ASSUME NEW c \in Conns, NEW fd \in Fds, NewConnection(c, fd)
      PROVE  ReadyIsQuiet'
  BY <1>1 DEF NewConnection
<1>2. CASE SetCallbacks
  BY <1>2 DEF SetCallbacks, BeginSetCallbacks, EndSetCallbacks
<1>3. CASE InsertTcp
  BY <1>3 DEF InsertTcp
<1>4. CASE InsertLoop
  <2>1. /\ mainConn \in Conns /\ fdOf[mainConn] \in Fds /\ mainConn # NoConn
        /\ loopConns' = [loopConns EXCEPT ![fdOf[mainConn]] = mainConn]
        /\ UNCHANGED <<quiet, readyToErase>>
    BY <1>4 DEF InsertLoop, MainCreated, Created, TypeOK
  <2>2. loopPc' = loopPc \/ (loopPc = "scan" /\ loopPc' = "undefined")
    BY <1>4 DEF InsertLoop
  <2>3. loopConns[fdOf[mainConn]] \in {mainConn, NoConn}
    BY <2>1, EntryOfMain
  <2>4. ASSUME NEW fd \in readyToErase
        PROVE  loopConns'[fd] \in quiet
    <3>1. loopConns[fd] \in quiet /\ loopConns[fd] # NoConn
      BY DEF TypeOK
    <3> QED BY <2>1, <2>3, <3>1 DEF TypeOK
  <2> QED BY <2>1, <2>2, <2>4
<1>5. CASE LoopAside
  BY <1>5, LoopAsideFrame DEF AsideFrame
<1>6. ASSUME NEW c \in Conns, ReadMessage(c)
      PROVE  ReadyIsQuiet'
  BY <1>6 DEF ReadMessage, CallCallback, Dispatched
<1>7. ASSUME NEW c \in Conns, CloseConnection(c)
      PROVE  ReadyIsQuiet'
  BY <1>7 DEF CloseConnection, CallCallback, Dispatched
<1>8. CASE ScanConns
  BY <1>8 DEF ScanConns
<1>9. ASSUME NEW fd \in Fds, EraseLoop(fd)
      PROVE  ReadyIsQuiet'
  BY <1>9 DEF EraseLoop, TypeOK
<1>10. CASE RemoveTcp
  BY <1>10 DEF RemoveTcp
<1>11. ASSUME NEW w \in Workers, Worker(w)
       PROVE  ReadyIsQuiet'
  BY <1>11, WorkerFrame
<1>12. ASSUME NEW c \in Conns, Elapse(c)
       PROVE  ReadyIsQuiet'
  BY <1>12 DEF Elapse
<1>13. CASE UNCHANGED vars
  BY <1>13 DEF vars
<1> HIDE DEF ReadyIsQuiet
<1> QED
  BY <1>1, <1>2, <1>3, <1>4, <1>5, <1>6, <1>7, <1>8, <1>9, <1>10, <1>11, <1>12, <1>13,
     NextSteps, Zenon

\* What the second erasure of the timer will hit stays idle or newer.
LEMMA NextErasedIsIdleOrNewer ==
  ASSUME TypeOK, MainCreated, OneConnPerFd, TcpEntryIsInLoop, ReadyIsQuiet,
         ErasedIsIdleOrNewer, [Next]_vars
  PROVE  ErasedIsIdleOrNewer'
<1> USE ConnsAssumption DEF ErasedIsIdleOrNewer, mainVars, mapVars, epollVars, timerVars,
                            workerVars
<1>0. loopPc = "remove" => erasing \in Fds
  BY DEF TypeOK
<1>1. ASSUME NEW c \in Conns, NEW fd \in Fds, NewConnection(c, fd)
      PROVE  ErasedIsIdleOrNewer'
  BY <1>1 DEF NewConnection, TypeOK
<1>2. CASE SetCallbacks
  BY <1>2 DEF SetCallbacks, BeginSetCallbacks, EndSetCallbacks
<1>3. CASE InsertTcp
  BY <1>0, <1>3 DEF InsertTcp, TypeOK
<1>4. CASE InsertLoop
  <2> SUFFICES ASSUME loopPc' = "remove", tcpConns'[erasing'] # NoConn
               PROVE  \/ tcpConns'[erasing'] \in quiet'
                      \/ loopConns'[erasing'] = tcpConns'[erasing']
    OBVIOUS
  <2>1. /\ mainConn \in Conns /\ fdOf[mainConn] \in Fds /\ mainConn # NoConn
        /\ loopConns' = [loopConns EXCEPT ![fdOf[mainConn]] = mainConn]
        /\ UNCHANGED <<quiet, tcpConns, erasing>>
        /\ loopPc = "remove"
    BY <1>4 DEF InsertLoop, MainCreated, Created, TypeOK
  <2>2. CASE erasing = fdOf[mainConn]
    BY <2>1, <2>2, EntryOfMain DEF TypeOK
  <2>3. CASE erasing # fdOf[mainConn]
    <3>1. tcpConns[erasing] # mainConn
      BY <1>0, <2>1, <2>3 DEF OneConnPerFd
    <3> QED BY <1>0, <2>1, <2>3, <3>1 DEF TypeOK
  <2> QED BY <2>2, <2>3
<1>5. CASE LoopAside
  BY <1>5, LoopAsideFrame DEF AsideFrame
<1>6. ASSUME NEW c \in Conns, ReadMessage(c)
      PROVE  ErasedIsIdleOrNewer'
  BY <1>6 DEF ReadMessage, CallCallback, Dispatched
<1>7. ASSUME NEW c \in Conns, CloseConnection(c)
      PROVE  ErasedIsIdleOrNewer'
  BY <1>7 DEF CloseConnection, CallCallback, Dispatched
<1>8. CASE ScanConns
  BY <1>8 DEF ScanConns
<1>9. ASSUME NEW fd \in Fds, EraseLoop(fd)
      PROVE  ErasedIsIdleOrNewer'
  <2>1. /\ fd \in readyToErase /\ erasing' = fd /\ erasing # fd
        /\ UNCHANGED <<tcpConns, quiet, mainConn>>
    BY <1>9 DEF EraseLoop, TypeOK
  <2>2. tcpConns[fd] # NoConn => tcpConns[fd] \in quiet \/ mainConn = tcpConns[fd]
    BY <2>1 DEF TcpEntryIsInLoop, ReadyIsQuiet
  <2> QED BY <2>1, <2>2
<1>10. CASE RemoveTcp
  BY <1>10 DEF RemoveTcp
<1>11. ASSUME NEW w \in Workers, Worker(w)
       PROVE  ErasedIsIdleOrNewer'
  BY <1>11, WorkerFrame
<1>12. ASSUME NEW c \in Conns, Elapse(c)
       PROVE  ErasedIsIdleOrNewer'
  BY <1>12 DEF Elapse
<1>13. CASE UNCHANGED vars
  BY <1>13 DEF vars
<1> HIDE DEF ErasedIsIdleOrNewer
<1> QED
  BY <1>1, <1>2, <1>3, <1>4, <1>5, <1>6, <1>7, <1>8, <1>9, <1>10, <1>11, <1>12, <1>13,
     NextSteps, Zenon

-----------------------------------------------------------------------------
(* The theorems.                                                           *)

\* ConnsInv holds in every state: the inductive invariant from which the theorems
\* below follow, about TcpServer::OnNewConnection (TcpServer.cpp:54-83), the close of
\* a connection and EventLoop::HandleTimer (EventLoop.cpp:138-165).
THEOREM ConnsInvariant == SafetySpec => []ConnsInv
<1>1. Init => ConnsInv
  BY InitConnsInv
<1>2. ConnsInv /\ [Next]_vars => ConnsInv'
  BY NextTypeOK, NextFiled, NextOneConnPerFd, NextTcpEntryIsInLoop, NextReadyIsQuiet,
     NextErasedIsIdleOrNewer DEF ConnsInv
<1> QED BY <1>1, <1>2, PTL DEF SafetySpec

\* The variables keep their types; the main thread and each worker hold a connection
\* exactly while they work for one, and the timer a descriptor between its two erasures.
THEOREM ConnsTypeCorrect == SafetySpec => []TypeOK
<1>1. ConnsInv => TypeOK
  BY DEF ConnsInv
<1> QED BY <1>1, ConnsInvariant, PTL

\* Entries are filed under the descriptor of their connection and no two connections
\* that are not destroyed share one: ~Socket closes the descriptor only when the last
\* shared pointer goes (Socket.cpp:26-28), so accept4 cannot return it earlier.
THEOREM OneConnectionPerDescriptor == SafetySpec => []OneConnPerFd
<1>1. ConnsInv => OneConnPerFd
  BY DEF ConnsInv
<1> QED BY <1>1, ConnsInvariant, PTL

\* Nothing stays in TcpServer::m_Conns that nobody would take out of it: every entry
\* is in the map of its sub-loop, or on its way in or out (TcpServer.cpp:62-81).
THEOREM TcpEntriesAreInLoop == SafetySpec => []TcpEntryIsInLoop
<1>1. ConnsInv => TcpEntryIsInLoop
  BY DEF ConnsInv
<1> QED BY <1>1, ConnsInvariant, PTL

\* An insertion finds its place empty.
LEMMA InsertOnlyWhereEmpty ==
  ASSUME TypeOK, MainCreated, OneConnPerFd, [Next]_vars, NEW fd \in Fds
  PROVE  /\ tcpConns'[fd] \notin {tcpConns[fd], NoConn} => tcpConns[fd] = NoConn
         /\ loopConns'[fd] \notin {loopConns[fd], NoConn} => loopConns[fd] = NoConn
<1> DEFINE Goal ==
      /\ tcpConns'[fd] \notin {tcpConns[fd], NoConn} => tcpConns[fd] = NoConn
      /\ loopConns'[fd] \notin {loopConns[fd], NoConn} => loopConns[fd] = NoConn
<1> USE ConnsAssumption DEF TypeOK
<1>1. ASSUME NEW c \in Conns, NEW new \in Fds, NewConnection(c, new)
      PROVE  Goal
  BY <1>1 DEF NewConnection, mapVars
<1>2. ASSUME InsertTcp
      PROVE  Goal
  BY <1>2, EntryOfMain DEF InsertTcp
<1>3. ASSUME InsertLoop
      PROVE  Goal
  BY <1>3, EntryOfMain DEF InsertLoop
<1>4. ASSUME NEW c \in Conns, CloseConnection(c)
      PROVE  Goal
  BY <1>4 DEF CloseConnection
<1>5. ASSUME NEW old \in Fds, EraseLoop(old)
      PROVE  Goal
  BY <1>5 DEF EraseLoop
<1>6. ASSUME RemoveTcp
      PROVE  Goal
  BY <1>6 DEF RemoveTcp
<1>7. ASSUME UNCHANGED <<fdOf, mainConn, tcpConns, loopConns, erasing>>
      PROVE  Goal
  BY <1>7
<1> HIDE DEF Goal
<1>8. Goal
  BY <1>1, <1>2, <1>3, <1>4, <1>5, <1>6, <1>7, MapsFrame, Zenon
<1> QED BY <1>8 DEF Goal

\* No insertion into a map of connections overwrites an entry (and so destroys a
\* connection that is in use), although three threads insert and erase and the kernel
\* gives descriptors out again (TcpServer.cpp:62-66, 77-81; EventLoop.cpp:73-77).
THEOREM InsertionsNeverOverwrite == SafetySpec => InsertNeverOverwrites
<1>1. ConnsInv /\ [Next]_vars =>
        [\A fd \in Fds :
           /\ tcpConns'[fd] \notin {tcpConns[fd], NoConn} => tcpConns[fd] = NoConn
           /\ loopConns'[fd] \notin {loopConns[fd], NoConn} => loopConns[fd] = NoConn]_vars
  BY InsertOnlyWhereEmpty DEF ConnsInv
<1> QED BY <1>1, ConnsInvariant, PTL DEF SafetySpec, InsertNeverOverwrites

\* What leaves the map of the loop is idle.
LEMMA LoopLosesIdle ==
  ASSUME TypeOK, ReadyIsQuiet, [Next]_vars, NEW fd \in Fds,
         loopConns[fd] # NoConn, loopConns'[fd] = NoConn
  PROVE  loopConns[fd] \in quiet
<1> DEFINE Goal == loopConns[fd] \in quiet
<1> USE ConnsAssumption DEF TypeOK
<1>1. ASSUME NEW c \in Conns, NEW new \in Fds, NewConnection(c, new)
      PROVE  Goal
  BY <1>1 DEF NewConnection, mapVars
<1>2. ASSUME InsertTcp
      PROVE  Goal
  BY <1>2 DEF InsertTcp
<1>3. ASSUME InsertLoop
      PROVE  Goal
  BY <1>3 DEF InsertLoop
<1>4. ASSUME NEW c \in Conns, CloseConnection(c)
      PROVE  Goal
  BY <1>4 DEF CloseConnection
<1>5. ASSUME NEW old \in Fds, EraseLoop(old)
      PROVE  Goal
  BY <1>5 DEF EraseLoop, ReadyIsQuiet
<1>6. ASSUME RemoveTcp
      PROVE  Goal
  BY <1>6 DEF RemoveTcp
<1>7. ASSUME UNCHANGED <<fdOf, mainConn, tcpConns, loopConns, erasing>>
      PROVE  Goal
  BY <1>7
<1> HIDE DEF Goal
<1>8. Goal
  BY <1>1, <1>2, <1>3, <1>4, <1>5, <1>6, <1>7, MapsFrame, Zenon
<1> QED BY <1>8 DEF Goal

\* What the timer erases from the map of its loop is idle when it is erased: between
\* the scan and the erasure only the same thread could make it busy again, and the main
\* thread cannot put another connection there (EventLoop.cpp:144-159).
THEOREM LoopTimerErasesIdle == SafetySpec => LoopErasesIdle
<1>1. ConnsInv /\ [Next]_vars =>
        [\A fd \in Fds : loopConns[fd] # NoConn /\ loopConns'[fd] = NoConn
           => loopConns[fd] \in quiet]_vars
  BY LoopLosesIdle DEF ConnsInv
<1> QED BY <1>1, ConnsInvariant, PTL DEF SafetySpec, LoopErasesIdle

\* What the timer erases from the server's map is idle, or newer than the scan.
LEMMA RemovedFromTcp ==
  ASSUME TypeOK, ErasedIsIdleOrNewer, [Next]_vars, NEW fd \in Fds,
         loopPc = "remove", tcpConns[fd] # NoConn, tcpConns'[fd] = NoConn
  PROVE  \/ tcpConns[fd] \in quiet
         \/ mainConn = tcpConns[fd]
         \/ loopConns[fd] = tcpConns[fd]
<1> DEFINE Goal == \/ tcpConns[fd] \in quiet
                   \/ mainConn = tcpConns[fd]
                   \/ loopConns[fd] = tcpConns[fd]
<1> USE ConnsAssumption DEF TypeOK
<1>1. ASSUME NEW c \in Conns, NEW new \in Fds, NewConnection(c, new)
      PROVE  Goal
  BY <1>1 DEF NewConnection, mapVars
<1>2. ASSUME InsertTcp
      PROVE  Goal
  BY <1>2 DEF InsertTcp
<1>3. ASSUME InsertLoop
      PROVE  Goal
  BY <1>3 DEF InsertLoop
<1>4. ASSUME NEW c \in Conns, CloseConnection(c)
      PROVE  Goal
  BY <1>4 DEF CloseConnection, CallCallback, Dispatched
<1>5. ASSUME NEW old \in Fds, EraseLoop(old)
      PROVE  Goal
  BY <1>5 DEF EraseLoop
<1>6. ASSUME RemoveTcp
      PROVE  Goal
  BY <1>6 DEF RemoveTcp, ErasedIsIdleOrNewer
<1>7. ASSUME UNCHANGED <<fdOf, mainConn, tcpConns, loopConns, erasing>>
      PROVE  Goal
  BY <1>7
<1> HIDE DEF Goal
<1>8. Goal
  BY <1>1, <1>2, <1>3, <1>4, <1>5, <1>6, <1>7, MapsFrame, Zenon
<1> QED BY <1>8 DEF Goal

\* The second erasure of the timer, by the number of a descriptor that the first one may
\* have freed, hits an idle connection or one accepted on that number since, never one
\* that only TcpServer::m_Conns holds (EventLoop.cpp:155-162, TcpServer.cpp:137-142).
THEOREM TcpTimerErasesIdleOrNewer == SafetySpec => TimerErasesIdleOrNewer
<1>1. ConnsInv /\ [Next]_vars =>
        [\A fd \in Fds :
           loopPc = "remove" /\ tcpConns[fd] # NoConn /\ tcpConns'[fd] = NoConn
             => \/ tcpConns[fd] \in quiet
                \/ mainConn = tcpConns[fd]
                \/ loopConns[fd] = tcpConns[fd]]_vars
  BY RemovedFromTcp DEF ConnsInv
<1> QED BY <1>1, ConnsInvariant, PTL DEF SafetySpec, TimerErasesIdleOrNewer
==============================================================================
