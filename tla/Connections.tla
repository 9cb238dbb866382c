----------------------------- MODULE Connections -----------------------------
(***************************************************************************)
(* The life of the connections of one sub-loop: TcpServer, EventLoop,      *)
(* Connection, Channel and Epoll as far as they decide who holds a         *)
(* Connection, when it is destroyed, and who still uses it.                *)
(*                                                                         *)
(* A Connection is kept alive by the shared pointers to it: the local      *)
(* variable of TcpServer::OnNewConnection (main thread), the maps          *)
(* TcpServer::m_Conns and EventLoop::m_Conns, and the requests bound for   *)
(* the worker threads.  When the last one goes, the destructor closes the  *)
(* socket: the descriptor becomes free for the next accept, and the kernel *)
(* takes it out of the epoll tree.  The Channel* in the events returned by *)
(* epoll_wait and the `this' bound by Connection::Send keep nothing alive. *)
(*                                                                         *)
(* A descriptor is served by the sub-loop m_SubLoops[fd % m_ThreadNum]:    *)
(* sub-loops share no descriptor, and one of them with its descriptors is  *)
(* the whole model.  Its task queue and its wake-ups are those of          *)
(* EventLoop, the queue of the workers is that of ThreadPool; here both    *)
(* are plain sequences.                                                    *)
(***************************************************************************)
EXTENDS Naturals, Sequences, FiniteSets

CONSTANTS
  Conns,            \* the Connection objects that are ever created
  Fds,              \* the descriptors of this sub-loop
  Workers,          \* the threads of HttpServer::m_ThreadPool; may be empty
  TimerChannel,     \* m_TimerChannel
  WakeChannel,      \* m_WakeChannel
  NoConn, NoFd,
  MaxQueue          \* bound: requests and replies under way

ASSUME ConnsAssumption ==
  /\ NoConn \notin Conns /\ NoFd \notin Fds
  /\ TimerChannel \notin Conns /\ WakeChannel \notin Conns
  /\ TimerChannel # WakeChannel
  /\ MaxQueue \in Nat

VARIABLES
  fdOf,             \* the descriptor of each connection; NoFd before it exists
  mainPc, mainConn, \* the main thread in TcpServer::OnNewConnection; its conn
  callbacks,        \* the connections whose callbacks are set
  tcpConns,         \* TcpServer::m_Conns
  loopConns,        \* EventLoop::m_Conns
  disconnect,       \* the connections with m_Disconnect
  inEpoll,          \* the channels with m_InEpoll
  tree,             \* the channels added to the epoll tree and not deleted
  quiet,            \* the connections whose m_LastTime is older than the timeout
  loopPc,           \* the loop thread
  batch,            \* the channels of the last epoll_wait not yet handled
  readyToErase,     \* HandleTimer: the descriptors still to be erased
  erasing,          \* HandleTimer: the descriptor being erased
  loopQueue,        \* m_TaskQueue of the loop: SendInLoop bound to `this'
  workQueue,        \* the requests the workers have to answer
  workerPc, workerConn  \* each worker in HttpServer::OnMessage; its conn

mainVars == <<mainPc, mainConn>>
timerVars == <<readyToErase, erasing>>
workerVars == <<workerPc, workerConn>>
mapVars == <<tcpConns, loopConns>>
epollVars == <<inEpoll, tree>>
vars == <<fdOf, mainVars, callbacks, mapVars, disconnect, epollVars, quiet,
          loopPc, batch, timerVars, loopQueue, workQueue, workerVars>>

Elements(s) == {s[i] : i \in 1..Len(s)}

Created(c) == fdOf[c] # NoFd

\* Somebody holds a shared pointer to c.
Held(c) ==
  \/ mainConn = c
  \/ \E fd \in Fds : tcpConns[fd] = c \/ loopConns[fd] = c
  \/ c \in Elements(workQueue)
  \/ \E w \in Workers : workerConn[w] = c

\* c is not destroyed: its destructor runs when the last shared pointer goes.
Alive(c) == Created(c) /\ Held(c)

\* Mutant: OnClose closes the descriptor, as the line commented out in
\* TcpServer::OnCloseConnection did.
OpenFdsNotDisconnected ==
  {fdOf[c] : c \in {d \in Conns : Alive(d) /\ d \notin disconnect}}

\* The descriptors the process has open: ~Socket closes them.
OpenFds == {fdOf[c] : c \in {d \in Conns : Alive(d)}}

\* The process goes on: it has not called exit(-1), and what it did is
\* defined.
Running == loopPc \notin {"exit", "undefined"}

Init ==
  /\ fdOf = [c \in Conns |-> NoFd]
  /\ mainPc = "accept" /\ mainConn = NoConn
  /\ callbacks = {}
  /\ tcpConns = [fd \in Fds |-> NoConn]
  /\ loopConns = [fd \in Fds |-> NoConn]
  /\ disconnect = {} /\ inEpoll = {} /\ tree = {} /\ quiet = {}
  /\ loopPc = "poll" /\ batch = {}
  /\ readyToErase = {} /\ erasing = NoFd
  /\ loopQueue = <<>> /\ workQueue = <<>>
  /\ workerPc = [w \in Workers |-> "idle"]
  /\ workerConn = [w \in Workers |-> NoConn]

-----------------------------------------------------------------------------
(* The main thread: Acceptor::OnNewConnection and TcpServer::              *)
(* OnNewConnection.                                                        *)

\* accept4 returns a free descriptor; the constructor of Connection adds the
\* channel to the epoll tree of the sub-loop, whose thread can serve it at once.
NewConnection(c, fd) ==
  /\ Running
  /\ mainPc = "accept"
  /\ ~Created(c)
  /\ fd \notin OpenFds
  /\ fdOf' = [fdOf EXCEPT ![c] = fd]
  /\ mainPc' = "callbacks" /\ mainConn' = c
  /\ inEpoll' = inEpoll \cup {c} /\ tree' = tree \cup {c}
  /\ UNCHANGED <<callbacks, mapVars, disconnect, quiet, loopPc, batch, timerVars,
                 loopQueue, workQueue, workerVars>>

\* conn->SetCloseCallback, ..., SetSendCompleteCallback: four assignments of a
\* std::function, while the loop thread may be testing and calling it.
BeginSetCallbacks ==
  /\ Running
  /\ mainPc = "callbacks"
  /\ mainPc' = "setting"
  /\ UNCHANGED <<fdOf, mainConn, callbacks, mapVars, disconnect, epollVars, quiet,
                 loopPc, batch, timerVars, loopQueue, workQueue, workerVars>>

EndSetCallbacks ==
  /\ Running
  /\ mainPc = "setting"
  /\ callbacks' = callbacks \cup {mainConn}
  /\ mainPc' = "tcpMap"
  /\ UNCHANGED <<fdOf, mainConn, mapVars, disconnect, epollVars, quiet, loopPc,
                 batch, timerVars, loopQueue, workQueue, workerVars>>

SetCallbacks == BeginSetCallbacks \/ EndSetCallbacks

\* m_Conns[conn->GetFd()] = conn, under TcpServer::m_ConnsMtx.
InsertTcp ==
  /\ Running
  /\ mainPc = "tcpMap"
  /\ tcpConns' = [tcpConns EXCEPT ![fdOf[mainConn]] = mainConn]
  /\ mainPc' = "loopMap"
  /\ UNCHANGED <<fdOf, mainConn, callbacks, loopConns, disconnect, epollVars, quiet,
                 loopPc, batch, timerVars, loopQueue, workQueue, workerVars>>

\* Mutant: conn does not go out of scope.
InsertLoopKeepConn ==
  /\ Running
  /\ mainPc = "loopMap"
  /\ loopConns' = [loopConns EXCEPT ![fdOf[mainConn]] = mainConn]
  /\ mainPc' = "accept"
  /\ UNCHANGED <<fdOf, mainConn, callbacks, tcpConns, disconnect, epollVars, quiet,
                 loopPc, batch, timerVars, loopQueue, workQueue, workerVars>>

\* m_SubLoops[idx]->OnNewConnection(conn), under EventLoop::m_ConnsMtx; the
\* callback of HttpServer is empty, and the local conn goes out of scope.
\* HandleTimer iterates over the map without the mutex: what its iterator does when
\* the map changes under it is undefined.
InsertLoop ==
  /\ Running
  /\ mainPc = "loopMap"
  /\ loopConns' = [loopConns EXCEPT ![fdOf[mainConn]] = mainConn]
  /\ mainPc' = "accept" /\ mainConn' = NoConn
  /\ loopPc' \in {loopPc} \cup (IF loopPc = "scan" THEN {"undefined"} ELSE {})
  /\ UNCHANGED <<fdOf, callbacks, tcpConns, disconnect, epollVars, quiet,
                 batch, timerVars, loopQueue, workQueue, workerVars>>

-----------------------------------------------------------------------------
(* The loop thread: EventLoop::Run and the events of the connections.      *)

\* epoll_wait: any channel in the tree may have an event.
EpollReturn(b) ==
  /\ Running
  /\ loopPc = "poll"
  /\ b # {}
  /\ \A c \in b \cap Conns : c \in tree /\ Alive(c)
  /\ WakeChannel \in b => loopQueue # <<>>
  /\ batch' = b
  /\ loopPc' = "dispatch"
  /\ UNCHANGED <<fdOf, mainVars, callbacks, mapVars, disconnect, epollVars, quiet,
                 timerVars, loopQueue, workQueue, workerVars>>

\* epoll_wait() fails and exit(-1) ends the process: EINTR, when the process was
\* stopped and continued (SIGSTOP, SIGCONT) while the thread slept.
EpollFails ==
  /\ Running
  /\ loopPc = "poll"
  /\ loopPc' = "exit"
  /\ UNCHANGED <<fdOf, mainVars, callbacks, mapVars, disconnect, epollVars, quiet,
                 batch, timerVars, loopQueue, workQueue, workerVars>>

DispatchDone ==
  /\ loopPc = "dispatch" /\ batch = {}
  /\ loopPc' = "poll"
  /\ UNCHANGED <<fdOf, mainVars, callbacks, mapVars, disconnect, epollVars, quiet,
                 batch, timerVars, loopQueue, workQueue, workerVars>>

\* ch->HandleEvent() for the channel of c: c is the next of the batch.
Dispatched(c) ==
  /\ loopPc = "dispatch"
  /\ c \in batch
  /\ batch' = batch \ {c}

\* Channel::HandleEvent is called on the channel of a destroyed connection.
HandleDestroyed(c) ==
  /\ Dispatched(c)
  /\ ~Alive(c)
  /\ loopPc' = "undefined"
  /\ UNCHANGED <<fdOf, mainVars, callbacks, mapVars, disconnect, epollVars, quiet,
                 timerVars, loopQueue, workQueue, workerVars>>

\* The connection whose callbacks the main thread is assigning.
Setting == IF mainPc = "setting" THEN {mainConn} ELSE {}

\* if (m_...Callback) m_...Callback(...): a std::function that is being assigned
\* may look set and not be callable yet.
CallCallback(c) ==
  loopPc' = loopPc \/ (c \in Setting /\ loopPc' = "undefined")

\* OnWrite: it calls m_SendCompleteCallback when nothing is left to send.
OnWrite(c) ==
  /\ Dispatched(c)
  /\ Alive(c)
  /\ CallCallback(c)
  /\ UNCHANGED <<fdOf, mainVars, callbacks, mapVars, disconnect, epollVars, quiet,
                 timerVars, loopQueue, workQueue, workerVars>>

\* OnMessage reads bytes that do not complete a message.
ReadPart(c) ==
  /\ Dispatched(c)
  /\ Alive(c)
  /\ UNCHANGED <<fdOf, mainVars, callbacks, mapVars, disconnect, epollVars, quiet,
                 loopPc, timerVars, loopQueue, workQueue, workerVars>>

\* OnMessage picks a message: m_LastTime is now, and m_MessageCallback, when it
\* is set, binds the connection to a request for the workers.  Without workers
\* the reply goes through SendInLoop at once, on a channel that is in the tree.
ReadMessage(c) ==
  /\ Dispatched(c)
  /\ Alive(c)
  /\ Len(workQueue) + Len(loopQueue) < MaxQueue
  /\ quiet' = quiet \ {c}
  /\ CallCallback(c)
  /\ \/ /\ Workers # {} /\ c \in callbacks \cup Setting
        /\ workQueue' = Append(workQueue, c)
     \/ /\ Workers = {} \/ c \notin callbacks
        /\ workQueue' = workQueue
  /\ UNCHANGED <<fdOf, mainVars, callbacks, mapVars, disconnect, epollVars,
                 timerVars, loopQueue, workerVars>>

\* Channel::Remove: deleted from the tree; m_InEpoll is left as it is.
RemoveChannel(c) == tree' = tree \ {c} /\ UNCHANGED inEpoll

\* Connection::OnClose (read returned 0) or OnError: m_CloseCallback, when it is
\* set, erases the descriptor from TcpServer::m_Conns, and nothing erases it from
\* EventLoop::m_Conns.
CloseConnection(c) ==
  /\ Dispatched(c)
  /\ Alive(c)
  /\ disconnect' = disconnect \cup {c}
  /\ RemoveChannel(c)
  /\ tcpConns' = IF c \in callbacks
                 THEN [tcpConns EXCEPT ![fdOf[c]] = NoConn] ELSE tcpConns
  /\ CallCallback(c)
  /\ UNCHANGED <<fdOf, mainVars, callbacks, loopConns, quiet,
                 timerVars, loopQueue, workQueue, workerVars>>

-----------------------------------------------------------------------------
(* The loop thread: EventLoop::HandleTimer.                                *)

\* m_TimerChannel->HandleEvent(): the timer is set again, and the iteration over
\* m_Conns begins, without m_ConnsMtx.
HandleTimer ==
  /\ loopPc = "dispatch"
  /\ TimerChannel \in batch
  /\ batch' = batch \ {TimerChannel}
  /\ loopPc' = "scan"
  /\ UNCHANGED <<fdOf, mainVars, callbacks, mapVars, disconnect, epollVars, quiet,
                 timerVars, loopQueue, workQueue, workerVars>>

\* Mutant: IsTimeout is not asked.
ScanConnsAll ==
  /\ loopPc = "scan"
  /\ readyToErase' = {fd \in Fds : loopConns[fd] # NoConn}
  /\ loopPc' = "erase"
  /\ UNCHANGED <<fdOf, mainVars, callbacks, mapVars, disconnect, epollVars, quiet,
                 batch, erasing, loopQueue, workQueue, workerVars>>

\* The iteration is over: the idle connections are in readyToErase.
ScanConns ==
  /\ loopPc = "scan"
  /\ readyToErase' = {fd \in Fds : loopConns[fd] \in quiet}
  /\ loopPc' = "erase"
  /\ UNCHANGED <<fdOf, mainVars, callbacks, mapVars, disconnect, epollVars, quiet,
                 batch, erasing, loopQueue, workQueue, workerVars>>

\* m_Conns.erase(fd), under EventLoop::m_ConnsMtx.
EraseLoop(fd) ==
  /\ loopPc = "erase"
  /\ fd \in readyToErase
  /\ loopConns' = [loopConns EXCEPT ![fd] = NoConn]
  /\ readyToErase' = readyToErase \ {fd} /\ erasing' = fd
  /\ loopPc' = "remove"
  /\ UNCHANGED <<fdOf, mainVars, callbacks, tcpConns, disconnect, epollVars, quiet,
                 batch, loopQueue, workQueue, workerVars>>

\* Mutant: the sub-loop has no timer callback.
RemoveNothing ==
  /\ loopPc = "remove"
  /\ erasing' = NoFd
  /\ loopPc' = "erase"
  /\ UNCHANGED <<fdOf, mainVars, callbacks, mapVars, disconnect, epollVars, quiet,
                 batch, readyToErase, loopQueue, workQueue, workerVars>>

\* m_TimerCallback(fd) is TcpServer::RemoveConnetion: m_Conns.erase(fd), under
\* TcpServer::m_ConnsMtx.
RemoveTcp ==
  /\ loopPc = "remove"
  /\ tcpConns' = [tcpConns EXCEPT ![erasing] = NoConn]
  /\ erasing' = NoFd
  /\ loopPc' = "erase"
  /\ UNCHANGED <<fdOf, mainVars, callbacks, loopConns, disconnect, epollVars, quiet,
                 batch, readyToErase, loopQueue, workQueue, workerVars>>

TimerDone ==
  /\ loopPc = "erase" /\ readyToErase = {}
  /\ loopPc' = "dispatch"
  /\ UNCHANGED <<fdOf, mainVars, callbacks, mapVars, disconnect, epollVars, quiet,
                 batch, timerVars, loopQueue, workQueue, workerVars>>

-----------------------------------------------------------------------------
(* The loop thread: EventLoop::HandleWakeUp and Connection::SendInLoop.    *)

HandleWakeUp ==
  /\ loopPc = "dispatch"
  /\ WakeChannel \in batch
  /\ batch' = batch \ {WakeChannel}
  /\ loopPc' = "drain"
  /\ UNCHANGED <<fdOf, mainVars, callbacks, mapVars, disconnect, epollVars, quiet,
                 timerVars, loopQueue, workQueue, workerVars>>

\* Epoll::UpdateChannel modifies a channel that has m_InEpoll, and epoll_ctl
\* fails when the channel is not in the tree.
UpdateFails(c) == c \in inEpoll /\ c \notin tree

\* SendInLoop on `this': undefined when it is destroyed; otherwise it enables
\* writing, and the process exits when the update of the channel fails.
SendInLoop ==
  /\ loopPc = "drain" /\ loopQueue # <<>>
  /\ loopQueue' = Tail(loopQueue)
  /\ LET c == Head(loopQueue) IN
     loopPc' = IF ~Alive(c) THEN "undefined"
               ELSE IF UpdateFails(c) THEN "exit" ELSE "drain"
  /\ UNCHANGED <<fdOf, mainVars, callbacks, mapVars, disconnect, epollVars, quiet,
                 batch, timerVars, workQueue, workerVars>>

DrainDone ==
  /\ loopPc = "drain" /\ loopQueue = <<>>
  /\ loopPc' = "dispatch"
  /\ UNCHANGED <<fdOf, mainVars, callbacks, mapVars, disconnect, epollVars, quiet,
                 batch, timerVars, loopQueue, workQueue, workerVars>>

-----------------------------------------------------------------------------
(* A worker: HttpServer::OnMessage, HttpRouter::Route, Connection::Send.   *)

TakeRequest(w) ==
  /\ Running
  /\ workerPc[w] = "idle" /\ workQueue # <<>>
  /\ workerConn' = [workerConn EXCEPT ![w] = Head(workQueue)]
  /\ workQueue' = Tail(workQueue)
  /\ workerPc' = [workerPc EXCEPT ![w] = "send"]
  /\ UNCHANGED <<fdOf, mainVars, callbacks, mapVars, disconnect, epollVars, quiet,
                 loopPc, batch, timerVars, loopQueue>>

\* if (m_Disconnect) return
TestDisconnect(w) ==
  /\ Running
  /\ workerPc[w] = "send"
  /\ workerPc' = [workerPc EXCEPT
       ![w] = IF workerConn[w] \in disconnect THEN "release" ELSE "queue"]
  /\ UNCHANGED <<fdOf, mainVars, callbacks, mapVars, disconnect, epollVars, quiet,
                 loopPc, batch, timerVars, loopQueue, workQueue, workerConn>>

\* m_Loop->QueueInLoop(std::bind(&Connection::SendInLoop, this, str)): the loop
\* holds the lock of the queue while it drains it.
QueueReply(w) ==
  /\ Running
  /\ workerPc[w] = "queue"
  /\ loopPc # "drain"
  /\ loopQueue' = Append(loopQueue, workerConn[w])
  /\ workerPc' = [workerPc EXCEPT ![w] = "release"]
  /\ UNCHANGED <<fdOf, mainVars, callbacks, mapVars, disconnect, epollVars, quiet,
                 loopPc, batch, timerVars, workQueue, workerConn>>

\* The task of the worker goes out of scope, and its shared pointer with it.
ReleaseRequest(w) ==
  /\ Running
  /\ workerPc[w] = "release"
  /\ workerConn' = [workerConn EXCEPT ![w] = NoConn]
  /\ workerPc' = [workerPc EXCEPT ![w] = "idle"]
  /\ UNCHANGED <<fdOf, mainVars, callbacks, mapVars, disconnect, epollVars, quiet,
                 loopPc, batch, timerVars, loopQueue, workQueue>>

-----------------------------------------------------------------------------
\* Time passes, and nothing came from c for longer than m_TimerTimeout.
Elapse(c) ==
  /\ Running
  /\ Created(c) /\ c \notin quiet
  /\ quiet' = quiet \cup {c}
  /\ UNCHANGED <<fdOf, mainVars, callbacks, mapVars, disconnect, epollVars, loopPc,
                 batch, timerVars, loopQueue, workQueue, workerVars>>

Crashed == ~Running /\ UNCHANGED vars

Main ==
  \/ \E c \in Conns, fd \in Fds : NewConnection(c, fd)
  \/ SetCallbacks
  \/ InsertTcp
  \/ InsertLoop

Loop ==
  \/ \E b \in SUBSET (Conns \cup {TimerChannel, WakeChannel}) : EpollReturn(b)
  \/ EpollFails
  \/ DispatchDone
  \/ \E c \in Conns :
       \/ HandleDestroyed(c) \/ ReadPart(c) \/ ReadMessage(c)
       \/ OnWrite(c) \/ CloseConnection(c)
  \/ HandleTimer
  \/ ScanConns
  \/ \E fd \in Fds : EraseLoop(fd)
  \/ RemoveTcp
  \/ TimerDone
  \/ HandleWakeUp
  \/ SendInLoop
  \/ DrainDone

Worker(w) ==
  TakeRequest(w) \/ TestDisconnect(w) \/ QueueReply(w) \/ ReleaseRequest(w)

Next ==
  \/ Main
  \/ Loop
  \/ \E w \in Workers : Worker(w)
  \/ \E c \in Conns : Elapse(c)
  \/ Crashed

SafetySpec == Init /\ [][Next]_vars

(***************************************************************************)
(* The threads run, the timer of the loop goes off again and again, and    *)
(* time passes for a connection that sends nothing.  The main thread is    *)
(* not obliged to accept; a message is not obliged to come, and epoll_wait *)
(* is not obliged to fail.                                                 *)
(***************************************************************************)
Fairness ==
  /\ WF_vars(SetCallbacks \/ InsertTcp \/ InsertLoop)
  /\ WF_vars(Loop /\ ~EpollFails)
  /\ SF_vars(\E b \in SUBSET (Conns \cup {TimerChannel, WakeChannel}) :
               TimerChannel \in b /\ EpollReturn(b))
  /\ \A w \in Workers : WF_vars(Worker(w))
  /\ \A c \in Conns : WF_vars(Elapse(c))

Spec == SafetySpec /\ Fairness

-----------------------------------------------------------------------------
(* Properties                                                              *)

TypeOK ==
  /\ fdOf \in [Conns -> Fds \cup {NoFd}]
  /\ mainPc \in {"accept", "callbacks", "setting", "tcpMap", "loopMap"}
  /\ mainConn \in Conns \cup {NoConn}
  /\ mainConn = NoConn <=> mainPc = "accept"
  /\ callbacks \subseteq Conns
  /\ tcpConns \in [Fds -> Conns \cup {NoConn}]
  /\ loopConns \in [Fds -> Conns \cup {NoConn}]
  /\ disconnect \subseteq Conns /\ quiet \subseteq Conns
  /\ inEpoll \subseteq Conns /\ tree \subseteq Conns
  /\ loopPc \in {"poll", "dispatch", "scan", "erase", "remove", "drain",
                 "exit", "undefined"}
  /\ batch \subseteq Conns \cup {TimerChannel, WakeChannel}
  /\ readyToErase \subseteq Fds
  /\ erasing \in Fds \cup {NoFd}
  /\ erasing # NoFd <=> loopPc = "remove"
  /\ loopQueue \in Seq(Conns) /\ workQueue \in Seq(Conns)
  /\ workerPc \in [Workers -> {"idle", "send", "queue", "release"}]
  /\ workerConn \in [Workers -> Conns \cup {NoConn}]
  /\ \A w \in Workers : workerConn[w] = NoConn <=> workerPc[w] = "idle"

\* A descriptor is inserted in a map only where the map has nothing, although the
\* maps are cleaned by other threads at other times than the kernel frees the
\* descriptor: an entry keeps its descriptor from being accepted again
\* (TcpServer.cpp:62-66, 77-81; Socket.cpp:26-28).
InsertNeverOverwrites ==
  [][\A fd \in Fds :
       /\ tcpConns'[fd] \notin {tcpConns[fd], NoConn} => tcpConns[fd] = NoConn
       /\ loopConns'[fd] \notin {loopConns[fd], NoConn} => loopConns[fd] = NoConn]_vars

\* TcpServer::m_Conns holds nothing that nobody would take out of it: what is in
\* it is in the map of the sub-loop too, or is about to be put there, or is about
\* to be erased by the timer, even when the connection was closed before it was
\* put into the maps (TcpServer.cpp:54-83, EventLoop.cpp:156-162).
TcpEntryIsInLoop ==
  \A fd \in Fds : tcpConns[fd] # NoConn =>
    \/ loopConns[fd] = tcpConns[fd]
    \/ mainConn = tcpConns[fd]
    \/ erasing = fd

\* Entries of the maps are filed under the descriptor of their connection, and a
\* descriptor has one open connection at most.
OneConnPerFd ==
  /\ \A fd \in Fds : tcpConns[fd] # NoConn => fdOf[tcpConns[fd]] = fd
  /\ \A fd \in Fds : loopConns[fd] # NoConn => fdOf[loopConns[fd]] = fd
  /\ \A c, d \in Conns : Alive(c) /\ Alive(d) /\ fdOf[c] = fdOf[d] => c = d

\* What the timer erases from the map of its loop is idle at that moment, although
\* the list of descriptors was made earlier (EventLoop.cpp:144-162).
LoopErasesIdle ==
  [][\A fd \in Fds :
       loopConns[fd] # NoConn /\ loopConns'[fd] = NoConn
         => loopConns[fd] \in quiet]_vars

\* The timer, which erases from TcpServer::m_Conns by the number of a descriptor that
\* it may have freed itself a moment before, erases there an idle connection, or one
\* accepted on that number since, whose insertions the main thread has just made or is
\* still making (EventLoop.cpp:155-162, TcpServer.cpp:137-142).
TimerErasesIdleOrNewer ==
  [][\A fd \in Fds :
       loopPc = "remove" /\ tcpConns[fd] # NoConn /\ tcpConns'[fd] = NoConn
         => \/ tcpConns[fd] \in quiet
            \/ mainConn = tcpConns[fd]
            \/ loopConns[fd] = tcpConns[fd]]_vars

\* What the proofs need besides: the connection the main thread holds exists; what is
\* to be erased is idle; what is erased from the second map is as stated above, from
\* the moment it was erased from the first.
MainCreated == mainConn # NoConn => Created(mainConn)
ReadyIsQuiet ==
  /\ loopPc \notin {"erase", "remove"} => readyToErase = {}
  /\ \A fd \in readyToErase : loopConns[fd] \in quiet
ErasedIsIdleOrNewer ==
  loopPc = "remove" /\ tcpConns[erasing] # NoConn =>
    \/ tcpConns[erasing] \in quiet
    \/ mainConn = tcpConns[erasing]
    \/ loopConns[erasing] = tcpConns[erasing]

ConnsInv ==
  /\ TypeOK
  /\ MainCreated
  /\ OneConnPerFd
  /\ TcpEntryIsInLoop
  /\ ReadyIsQuiet
  /\ ErasedIsIdleOrNewer

\* A connection that was closed is destroyed in the end and its descriptor given
\* back, unless the process ends: OnClose only takes it out of TcpServer::m_Conns
\* (Connection.cpp:37-42), the timer of the loop does the rest.
ClosedIsDestroyed ==
  \A c \in Conns : c \in disconnect ~> ~Alive(c) \/ ~Running

-----------------------------------------------------------------------------
(* What the comments say and the code does not do.                         *)

\* "Smart pointers are used, no need to release by hand" (TcpServer.cpp:82): no event
\* is dispatched to a connection that the smart pointers have released, and no queued
\* reply is bound to one.
UsedIsAlive ==
  Running => \A c \in (batch \cap Conns) \cup Elements(loopQueue) : Alive(c)
==============================================================================
