---------------------------- MODULE ConnectionIO -----------------------------
(***************************************************************************)
(* Reading and writing one connection: Connection with its two buffers,    *)
(* Channel::HandleEvent, edge-triggered epoll, and the way of a message    *)
(* through HttpServer, with or without workers, to Connection::SendInLoop. *)
(*                                                                         *)
(* An edge-triggered descriptor is reported when something has happened    *)
(* since the last report, with all that is true of it at that moment.      *)
(* HandleEvent serves one event of a report only: a report of IN and OUT   *)
(* loses its OUT.  What saves a half-sent reply is that every message is   *)
(* answered and every answer modifies the channel, which makes the kernel  *)
(* look at the socket again.                                               *)
(*                                                                         *)
(* Both buffers have m_Sep = 0: a message is what the input buffer holds   *)
(* when the socket is empty.  A byte is its number in the stream of the    *)
(* client; a reply is ReplyLen units that name the last byte answered.     *)
(* How long a Connection lives is left to Connections, the wake-ups of the *)
(* loop to EventLoop, the queue of the workers to ThreadPool.              *)
(***************************************************************************)
EXTENDS Naturals, SequencesExt

CONSTANTS
  Workers,          \* the threads HttpServer::m_ThreadPool may have
  ReplyLen,         \* units of a reply
  SendCap,          \* units the send buffer of the kernel holds
  ReadMax,          \* bytes one read can return (sizeof(buffer))
  MaxBytes          \* bound: bytes the client sends

ASSUME IOAssumption ==
  /\ ReplyLen \in Nat \ {0} /\ SendCap \in Nat \ {0} /\ ReadMax \in Nat \ {0}
  /\ MaxBytes \in Nat

VARIABLES
  sockIn, sockOut,  \* the socket: received and not read, sent and not delivered
  fin, rst,         \* the client has closed, has reset the connection
  error,            \* the socket has an error nobody has been told of
  nospace,          \* somebody found the send buffer full
  interest,         \* Channel::m_Events without EPOLLET
  ready,            \* the channel is on the ready list of epoll
  mainPc,           \* the main thread in OnNewConnection: the callback it sets
  inputBuffer, outputBuffer,
  disconnect,       \* m_Disconnect; the channel has left the epoll tree
  loopPc,           \* the I/O thread
  batch, revents,   \* what epoll_wait returned; m_REvents
  pool,             \* the threads of HttpServer::m_ThreadPool
  workQueue,        \* the messages bound for the workers
  workerPc, workerMsg,
  loopQueue,        \* m_TaskQueue of the loop: the replies bound for SendInLoop
  arrived,          \* how many bytes have arrived
  picked, handled,  \* history: messages picked, messages given to HttpServer
  received          \* history: units the client got

socketVars == <<sockIn, sockOut, fin, rst, error, nospace>>
epollVars == <<interest, ready>>
connVars == <<mainPc, inputBuffer, outputBuffer, disconnect>>
loopVars == <<loopPc, batch, revents>>
workerVars == <<workerPc, workerMsg>>
history == <<arrived, picked, handled, received>>
vars == <<socketVars, epollVars, connVars, loopVars, pool, workQueue, workerVars,
          loopQueue, history>>

Reply(message) == [i \in 1..ReplyLen |-> <<Last(message), i>>]

Least(m, n) == IF m < n THEN m ELSE n

\* The process has not called exit(-1) ("exit" for a failed update of a channel,
\* "failed" for a failed epoll_wait), nor crashed, nor been killed by SIGPIPE.
Running == loopPc \notin {"exit", "failed", "crash", "killed"}

Writable(out) == rst \/ Len(out) < SendCap

\* What poll tells of the socket.
Readiness ==
  (IF sockIn # <<>> \/ fin \/ rst THEN {"IN"} ELSE {})
    \cup (IF Writable(sockOut) THEN {"OUT"} ELSE {})

\* The constructor of Connection has added the channel; no callback is set.
Init ==
  /\ sockIn = <<>> /\ sockOut = <<>>
  /\ fin = FALSE /\ rst = FALSE /\ error = FALSE /\ nospace = FALSE
  /\ interest = {"IN"} /\ ready = FALSE
  /\ mainPc = "setClose"
  /\ inputBuffer = <<>> /\ outputBuffer = <<>>
  /\ disconnect = FALSE
  /\ loopPc = "poll" /\ batch = {} /\ revents = {}
  /\ pool \in SUBSET Workers
  /\ workQueue = <<>> /\ loopQueue = <<>>
  /\ workerPc = [w \in Workers |-> "idle"]
  /\ workerMsg = [w \in Workers |-> <<>>]
  /\ arrived = 0 /\ picked = <<>> /\ handled = <<>> /\ received = <<>>

-----------------------------------------------------------------------------
(* The client and the kernel.                                              *)

Arrive ==
  /\ ~fin /\ ~rst /\ arrived < MaxBytes
  /\ arrived' = arrived + 1
  /\ sockIn' = Append(sockIn, arrived')
  /\ ready' = ~disconnect
  /\ UNCHANGED <<sockOut, fin, rst, error, nospace, interest, connVars, loopVars,
                 pool, workQueue, workerVars, loopQueue, picked, handled, received>>

Fin ==
  /\ ~fin /\ ~rst
  /\ fin' = TRUE
  /\ ready' = ~disconnect
  /\ UNCHANGED <<sockIn, sockOut, rst, error, nospace, interest, connVars, loopVars,
                 pool, workQueue, workerVars, loopQueue, history>>

\* What was not delivered is thrown away.  After a FIN the error is EPIPE, which
\* read does not report and send answers with SIGPIPE, as it does when there is
\* no error left to report.
Reset ==
  /\ ~rst
  /\ rst' = TRUE /\ error' = ~fin
  /\ sockOut' = <<>>
  /\ ready' = ~disconnect
  /\ UNCHANGED <<sockIn, fin, nospace, interest, connVars, loopVars, pool,
                 workQueue, workerVars, loopQueue, history>>

\* The kernel tells of new space only when somebody found none.
ClientReceive ==
  /\ sockOut # <<>>
  /\ received' = Append(received, Head(sockOut))
  /\ sockOut' = Tail(sockOut)
  /\ nospace' = FALSE
  /\ ready' = (ready \/ (nospace /\ ~disconnect /\ "OUT" \in interest))
  /\ UNCHANGED <<sockIn, fin, rst, error, interest, connVars, loopVars, pool,
                 workQueue, workerVars, loopQueue, arrived, picked, handled>>

-----------------------------------------------------------------------------
(* The main thread assigns the callbacks.  A std::function is more than one *)
(* word, and no lock is held: while mainPc is at an assignment, the I/O     *)
(* thread may find the callback unset, set, or half written.  The error     *)
(* callback is never asked for, since a report is never without IN or OUT.  *)

SetCallback(at, next) ==
  /\ Running
  /\ mainPc = at
  /\ mainPc' = next
  /\ UNCHANGED <<socketVars, epollVars, inputBuffer, outputBuffer, disconnect,
                 loopVars, pool, workQueue, workerVars, loopQueue, history>>

SetCloseCallback == SetCallback("setClose", "setMessage")
SetMessageCallback == SetCallback("setMessage", "setSendComplete")
SetSendCompleteCallback == SetCallback("setSendComplete", "done")

-----------------------------------------------------------------------------
(* The I/O thread: epoll_wait and Channel::HandleEvent.                    *)

\* A channel on the ready list is looked at and taken off the list; it is reported
\* when something it is interested in is true.
EpollWait ==
  /\ loopPc = "poll"
  /\ ready \/ loopQueue # <<>>
  /\ LET reported == IF ready THEN Readiness \cap interest ELSE {} IN
     /\ revents' = reported
     /\ batch' = {ch \in {"conn", "wake"} :
                    IF ch = "conn" THEN reported # {} ELSE loopQueue # <<>>}
  /\ ready' = FALSE
  /\ nospace' = (nospace \/ (ready /\ ~Writable(sockOut)))
  /\ loopPc' = "dispatch"
  /\ UNCHANGED <<sockIn, sockOut, fin, rst, error, interest, connVars, pool,
                 workQueue, workerVars, loopQueue, history>>

\* epoll_wait() fails and exit(-1) ends the process: EINTR, when the process was
\* stopped and continued (SIGSTOP, SIGCONT) while the thread slept.
EpollFails ==
  /\ loopPc = "poll"
  /\ loopPc' = "failed"
  /\ UNCHANGED <<socketVars, epollVars, connVars, batch, revents, pool, workQueue,
                 workerVars, loopQueue, history>>

DispatchDone ==
  /\ loopPc = "dispatch" /\ batch = {}
  /\ loopPc' = "poll"
  /\ UNCHANGED <<socketVars, epollVars, connVars, batch, revents, pool, workQueue,
                 workerVars, loopQueue, history>>

\* Mutant: the OUT of a report is served before its IN.
HandleEventWriteFirst ==
  /\ loopPc = "dispatch" /\ "conn" \in batch
  /\ batch' = batch \ {"conn"}
  /\ loopPc' = IF "OUT" \in revents THEN "write" ELSE "read"
  /\ UNCHANGED <<socketVars, epollVars, connVars, revents, pool, workQueue,
                 workerVars, loopQueue, history>>

\* EPOLLRDHUP is never asked for; IN comes before OUT, and OUT alone is a write.
HandleEvent ==
  /\ loopPc = "dispatch" /\ "conn" \in batch
  /\ batch' = batch \ {"conn"}
  /\ loopPc' = IF "IN" \in revents THEN "read" ELSE "write"
  /\ UNCHANGED <<socketVars, epollVars, connVars, revents, pool, workQueue,
                 workerVars, loopQueue, history>>

\* EPOLL_CTL_MOD, with the send buffer holding out: the kernel looks at the socket
\* and puts the channel on the ready list when something asked for is true.
UpdateChannel(events, out) ==
  /\ interest' = events
  /\ ready' = (ready \/ "IN" \in Readiness \/ ("OUT" \in events /\ Writable(out)))
  /\ nospace' = (nospace \/ ~Writable(out))

-----------------------------------------------------------------------------
(* The I/O thread: Connection::OnMessage.                                  *)

\* Mutant: one read for each event, as with level-triggered epoll.
ReadBytesOnce ==
  /\ loopPc = "read" /\ sockIn # <<>>
  /\ LET n == Least(ReadMax, Len(sockIn)) IN
     /\ inputBuffer' = inputBuffer \o SubSeq(sockIn, 1, n)
     /\ sockIn' = SubSeq(sockIn, n + 1, Len(sockIn))
  /\ loopPc' = "pick"
  /\ UNCHANGED <<sockOut, fin, rst, error, nospace, epollVars, mainPc,
                 outputBuffer, disconnect, batch, revents, pool, workQueue,
                 workerVars, loopQueue, history>>

\* nread > 0
ReadBytes ==
  /\ loopPc = "read" /\ sockIn # <<>>
  /\ LET n == Least(ReadMax, Len(sockIn)) IN
     /\ inputBuffer' = inputBuffer \o SubSeq(sockIn, 1, n)
     /\ sockIn' = SubSeq(sockIn, n + 1, Len(sockIn))
  /\ UNCHANGED <<sockOut, fin, rst, error, nospace, epollVars, mainPc,
                 outputBuffer, disconnect, loopVars, pool, workQueue, workerVars,
                 loopQueue, history>>

\* ECONNRESET is none of the cases of the loop: it reads again.
ReadError ==
  /\ loopPc = "read" /\ sockIn = <<>> /\ error
  /\ error' = FALSE
  /\ UNCHANGED <<sockIn, sockOut, fin, rst, nospace, epollVars, connVars, loopVars,
                 pool, workQueue, workerVars, loopQueue, history>>

\* nread == 0: OnClose, and the loop is left with what the input buffer holds.  The
\* close callback may be half written.
ReadEnd ==
  /\ loopPc = "read" /\ sockIn = <<>> /\ ~error /\ (fin \/ rst)
  /\ disconnect' = TRUE
  /\ interest' = {} /\ ready' = FALSE
  /\ loopPc' = "dispatch" \/ (mainPc = "setClose" /\ loopPc' = "crash")
  /\ UNCHANGED <<socketVars, mainPc, inputBuffer, outputBuffer, batch, revents,
                 pool, workQueue, workerVars, loopQueue, history>>

\* EAGAIN
ReadAgain ==
  /\ loopPc = "read" /\ sockIn = <<>> /\ ~fin /\ ~rst
  /\ loopPc' = "pick"
  /\ UNCHANGED <<socketVars, epollVars, connVars, batch, revents, pool, workQueue,
                 workerVars, loopQueue, history>>

\* Mutant: the message is copied and left in the buffer.
PickedAndKept ==
  /\ loopPc = "pick" /\ inputBuffer # <<>>
  /\ picked' = Append(picked, inputBuffer)
  /\ UNCHANGED inputBuffer

\* m_InputBuffer.PickMessage
Picked ==
  /\ loopPc = "pick" /\ inputBuffer # <<>>
  /\ picked' = Append(picked, inputBuffer)
  /\ inputBuffer' = <<>>

PickNothing ==
  /\ loopPc = "pick" /\ inputBuffer = <<>>
  /\ loopPc' = "dispatch"
  /\ UNCHANGED <<socketVars, epollVars, connVars, batch, revents, pool, workQueue,
                 workerVars, loopQueue, history>>

\* if (m_MessageCallback): not set, or not seen.  What was seen once stays seen.
IgnoreMessage ==
  /\ Picked
  /\ mainPc \in {"setClose", "setMessage"} /\ handled = <<>>
  /\ UNCHANGED <<socketVars, epollVars, mainPc, outputBuffer, disconnect, loopVars,
                 pool, workQueue, workerVars, loopQueue, arrived, handled, received>>

\* The callback is called while it is being written.
CallTornCallback ==
  /\ Picked
  /\ mainPc = "setMessage" /\ handled = <<>>
  /\ loopPc' = "crash"
  /\ UNCHANGED <<socketVars, epollVars, mainPc, outputBuffer, disconnect, batch,
                 revents, pool, workQueue, workerVars, loopQueue, arrived, handled,
                 received>>

\* Mutant: writing is enabled for the first reply only.
AppendAndKeepChannel(reply) ==
  /\ outputBuffer' = outputBuffer \o reply
  /\ IF "OUT" \in interest THEN UNCHANGED <<interest, ready, nospace>>
     ELSE UpdateChannel({"IN", "OUT"}, sockOut)

\* SendInLoop on a channel in the tree.
AppendAndEnable(reply) ==
  /\ outputBuffer' = outputBuffer \o reply
  /\ UpdateChannel({"IN", "OUT"}, sockOut)

\* HttpServer::HandleMessage: without workers the reply is sent at once, by the
\* I/O thread; with workers the message waits in the queue of the pool.
HandleMessage ==
  /\ Picked
  /\ mainPc # "setClose"
  /\ handled' = Append(handled, inputBuffer)
  /\ \/ /\ pool = {}
        /\ AppendAndEnable(Reply(inputBuffer))
        /\ UNCHANGED workQueue
     \/ /\ pool # {}
        /\ workQueue' = Append(workQueue, inputBuffer)
        /\ UNCHANGED <<outputBuffer, epollVars, nospace>>
  /\ UNCHANGED <<sockIn, sockOut, fin, rst, error, mainPc, disconnect, loopVars,
                 pool, workerVars, loopQueue, arrived, received>>

-----------------------------------------------------------------------------
(* The I/O thread: Connection::OnWrite.                                    *)

\* Mutant: writing is disabled after every send.
SendBytesOnce ==
  /\ loopPc = "write" /\ ~rst
  /\ LET n == Least(Len(outputBuffer), SendCap - Len(sockOut))
         rest == SubSeq(outputBuffer, n + 1, Len(outputBuffer))
         out == sockOut \o SubSeq(outputBuffer, 1, n) IN
     /\ outputBuffer' = rest
     /\ sockOut' = out
     /\ UpdateChannel({"IN"}, out)
  /\ loopPc' = "dispatch"
  /\ UNCHANGED <<sockIn, fin, rst, error, mainPc, inputBuffer, disconnect, batch,
                 revents, pool, workQueue, workerVars, loopQueue, history>>

\* send takes what fits, which may be nothing (EAGAIN).  When the buffer is empty
\* writing is disabled, and the callback that is called then may be half written.
SendBytes ==
  /\ loopPc = "write" /\ ~rst
  /\ LET n == Least(Len(outputBuffer), SendCap - Len(sockOut))
         rest == SubSeq(outputBuffer, n + 1, Len(outputBuffer))
         out == sockOut \o SubSeq(outputBuffer, 1, n) IN
     /\ outputBuffer' = rest
     /\ sockOut' = out
     /\ IF rest = <<>> THEN UpdateChannel({"IN"}, out)
        ELSE nospace' = TRUE /\ UNCHANGED epollVars
     /\ \/ loopPc' = "dispatch"
        \/ rest = <<>> /\ mainPc = "setSendComplete" /\ loopPc' = "crash"
  /\ UNCHANGED <<sockIn, fin, rst, error, mainPc, inputBuffer, disconnect, batch,
                 revents, pool, workQueue, workerVars, loopQueue, history>>

\* send returns -1 with ECONNRESET: the buffer is kept.
SendError ==
  /\ loopPc = "write" /\ rst /\ error
  /\ error' = FALSE
  /\ loopPc' = "dispatch"
  /\ UNCHANGED <<sockIn, sockOut, fin, rst, nospace, epollVars, connVars, batch,
                 revents, pool, workQueue, workerVars, loopQueue, history>>

\* EPIPE and SIGPIPE, which the program does not handle.
SendKilled ==
  /\ loopPc = "write" /\ rst /\ ~error
  /\ loopPc' = "killed"
  /\ UNCHANGED <<socketVars, epollVars, connVars, batch, revents, pool, workQueue,
                 workerVars, loopQueue, history>>

-----------------------------------------------------------------------------
(* The I/O thread: EventLoop::HandleWakeUp and the replies of the workers. *)

HandleWakeUp ==
  /\ loopPc = "dispatch" /\ "wake" \in batch
  /\ batch' = batch \ {"wake"}
  /\ loopPc' = "drain"
  /\ UNCHANGED <<socketVars, epollVars, connVars, revents, pool, workQueue,
                 workerVars, loopQueue, history>>

\* A channel that has left the tree keeps m_InEpoll: its update ends the process.
SendInLoop ==
  /\ loopPc = "drain" /\ loopQueue # <<>>
  /\ loopQueue' = Tail(loopQueue)
  /\ \/ /\ ~disconnect
        /\ AppendAndEnable(Head(loopQueue))
        /\ UNCHANGED loopPc
     \/ /\ disconnect
        /\ loopPc' = "exit"
        /\ outputBuffer' = outputBuffer \o Head(loopQueue)
        /\ UNCHANGED <<epollVars, nospace>>
  /\ UNCHANGED <<sockIn, sockOut, fin, rst, error, mainPc, inputBuffer, disconnect,
                 batch, revents, pool, workQueue, workerVars, history>>

DrainDone ==
  /\ loopPc = "drain" /\ loopQueue = <<>>
  /\ loopPc' = "dispatch"
  /\ UNCHANGED <<socketVars, epollVars, connVars, batch, revents, pool, workQueue,
                 workerVars, loopQueue, history>>

-----------------------------------------------------------------------------
(* A worker: HttpServer::OnMessage, HttpRouter::Route, Connection::Send.   *)

\* Mutant: a worker takes the newest message.
TakeNewestMessage(w) ==
  /\ Running
  /\ workerPc[w] = "idle" /\ workQueue # <<>>
  /\ workerMsg' = [workerMsg EXCEPT ![w] = Last(workQueue)]
  /\ workQueue' = Front(workQueue)
  /\ workerPc' = [workerPc EXCEPT ![w] = "send"]
  /\ UNCHANGED <<socketVars, epollVars, connVars, loopVars, pool, loopQueue, history>>

TakeMessage(w) ==
  /\ Running
  /\ workerPc[w] = "idle" /\ workQueue # <<>>
  /\ workerMsg' = [workerMsg EXCEPT ![w] = Head(workQueue)]
  /\ workQueue' = Tail(workQueue)
  /\ workerPc' = [workerPc EXCEPT ![w] = "send"]
  /\ UNCHANGED <<socketVars, epollVars, connVars, loopVars, pool, loopQueue, history>>

\* if (m_Disconnect) return
TestDisconnect(w) ==
  /\ Running
  /\ workerPc[w] = "send"
  /\ workerPc' = [workerPc EXCEPT ![w] = IF disconnect THEN "idle" ELSE "queue"]
  /\ UNCHANGED <<socketVars, epollVars, connVars, loopVars, pool, workQueue,
                 workerMsg, loopQueue, history>>

\* The loop holds the lock of its queue while it drains it.
QueueReply(w) ==
  /\ Running
  /\ workerPc[w] = "queue" /\ loopPc # "drain"
  /\ loopQueue' = Append(loopQueue, Reply(workerMsg[w]))
  /\ workerPc' = [workerPc EXCEPT ![w] = "idle"]
  /\ UNCHANGED <<socketVars, epollVars, connVars, loopVars, pool, workQueue,
                 workerMsg, history>>

-----------------------------------------------------------------------------
Client == Arrive \/ Fin \/ Reset \/ ClientReceive

Main == SetCloseCallback \/ SetMessageCallback \/ SetSendCompleteCallback

Loop ==
  \/ EpollWait \/ EpollFails \/ DispatchDone \/ HandleEvent
  \/ ReadBytes \/ ReadError \/ ReadEnd \/ ReadAgain
  \/ PickNothing \/ IgnoreMessage \/ CallTornCallback \/ HandleMessage
  \/ SendBytes \/ SendError \/ SendKilled
  \/ HandleWakeUp \/ SendInLoop \/ DrainDone

Worker(w) == TakeMessage(w) \/ TestDisconnect(w) \/ QueueReply(w)

Next == Client \/ Main \/ Loop \/ \E w \in pool : Worker(w)

SafetySpec == Init /\ [][Next]_vars

(***************************************************************************)
(* The threads run, and a client that has a reply to receive receives it.  *)
(* Nothing has to arrive, nobody has to close, and epoll_wait does not     *)
(* have to fail.                                                           *)
(***************************************************************************)
Fairness ==
  /\ WF_vars(ClientReceive)
  /\ WF_vars(Main)
  /\ WF_vars(Loop /\ ~EpollFails)
  /\ \A w \in Workers : WF_vars(w \in pool /\ Worker(w))

Spec == SafetySpec /\ Fairness

-----------------------------------------------------------------------------
(* Properties                                                              *)

Bytes == Seq(1..MaxBytes)
Messages == Bytes \ {<<>>}
Units == (1..MaxBytes) \X (1..ReplyLen)
AllReplies == {Reply(<<b>>) : b \in 1..MaxBytes}

TypeOK ==
  /\ sockIn \in Bytes /\ inputBuffer \in Bytes
  /\ sockOut \in Seq(Units) /\ Len(sockOut) <= SendCap
  /\ outputBuffer \in Seq(Units)
  /\ fin \in BOOLEAN /\ rst \in BOOLEAN /\ error \in BOOLEAN
  /\ error => rst
  /\ nospace \in BOOLEAN /\ ready \in BOOLEAN /\ disconnect \in BOOLEAN
  /\ interest \in {{}, {"IN"}, {"IN", "OUT"}} /\ (interest = {} <=> disconnect)
  /\ mainPc \in {"setClose", "setMessage", "setSendComplete", "done"}
  /\ loopPc \in {"poll", "dispatch", "read", "pick", "write", "drain",
                 "exit", "failed", "crash", "killed"}
  /\ batch \subseteq {"conn", "wake"} /\ revents \subseteq {"IN", "OUT"}
  /\ pool \subseteq Workers
  /\ workQueue \in Seq(Messages) /\ loopQueue \in Seq(AllReplies)
  /\ workerPc \in [Workers -> {"idle", "send", "queue"}]
  /\ workerMsg \in [Workers -> Bytes]
  /\ arrived \in 0..MaxBytes
  /\ picked \in Seq(Messages) /\ handled \in Seq(Messages)
  /\ received \in Seq(Units)

\* However the stream is cut into reads and messages, no byte is lost, doubled or
\* moved between the socket and the messages picked (Connection.cpp:55-69,
\* Buffer.cpp:50-57).
InputStreamKept ==
  FlattenSeq(picked) \o inputBuffer \o sockIn = [i \in 1..arrived |-> i]

RepliesTo(messages) == FlattenSeq([i \in 1..Len(messages) |-> Reply(messages[i])])

OneWorker == \A v, w \in pool : v = w

\* With one worker or none, what the client got, what the kernel holds and what the
\* output buffer holds are together a beginning of the replies to the messages in
\* the order of the messages: partial sends neither tear nor mix replies, and no
\* later reply overtakes an earlier one (HttpServer.cpp:50-59, Connection.cpp:129-148).
RepliesInOrder ==
  OneWorker => IsPrefix(IF rst THEN received ELSE received \o sockOut \o outputBuffer,
                        RepliesTo(handled))

\* A reply of this connection is on its way to SendInLoop.
ReplyUnderWay ==
  workQueue # <<>> \/ loopQueue # <<>> \/ \E w \in pool : workerPc[w] # "idle"

\* No edge is lost for good.  When the loop waits, a socket that can be read is on
\* the ready list; and when the output buffer is not empty, the channel is on the
\* ready list, or the kernel has promised to tell of space, or a reply under way
\* will arm the channel again, although an OUT reported with an IN is dropped
\* (Channel.cpp:60-78, Connection.cpp:51-90, 129-152).
NoEdgeLost ==
  loopPc = "poll" /\ ~disconnect =>
    /\ "IN" \in Readiness => ready
    /\ outputBuffer # <<>> =>
         /\ "OUT" \in interest
         /\ ready \/ (nospace /\ ~Writable(sockOut)) \/ ReplyUnderWay

\* A client that resets the connection does not end the process by SIGPIPE: the
\* reset is read as an end before a second send can happen.  Only a reset after a
\* FIN, between the report of OUT and the send, does (Channel.cpp:65, Connection.cpp:138).
ResetAloneKillsNot == loopPc = "killed" => fin

\* The process exits on a closed connection only for a reply that a worker queued:
\* what the I/O thread sends itself never meets a channel that has left the epoll tree
\* (Connection.cpp:110-134, Epoll.cpp:21-39).
OnlyQueuedRepliesExit == loopPc = "exit" => disconnect /\ pool # {}

\* A callback that is half written is called in these three ways only: the client
\* closes before any message was handled; a message is picked before any was handled; a
\* reply is sent off completely, before OnNewConnection has set the last callback
\* (TcpServer.cpp:57-60, Connection.cpp:40-41, 80-81, 149-150).
TornCallbackCalled ==
  loopPc = "crash" =>
    \/ mainPc = "setClose" /\ disconnect /\ handled = <<>>
    \/ mainPc = "setMessage" /\ picked # <<>> /\ handled = <<>>
    \/ mainPc = "setSendComplete" /\ handled # <<>> /\ outputBuffer = <<>>

\* What ends the process, besides a failed epoll_wait: SIGPIPE after a FIN and a reset,
\* exit(-1) for a reply queued to a closed connection, a callback called half written.
EndsInKnownWays == ResetAloneKillsNot /\ OnlyQueuedRepliesExit /\ TornCallbackCalled

\* The loop waits with every report served, a report says something, and a channel
\* that has left the tree is neither listed nor reported nor read nor written.
ReportsServed ==
  /\ loopPc = "poll" => batch = {}
  /\ "conn" \in batch => loopPc \in {"dispatch", "drain"} /\ revents # {}
  /\ disconnect => ~ready /\ "conn" \notin batch /\ loopPc \notin {"read", "pick", "write"}

\* A message or a reply under way has a thread of the pool that will carry it.
CarriedByPool ==
  /\ pool = {} => workQueue = <<>> /\ loopQueue = <<>>
  /\ \A w \in Workers : workerPc[w] # "idle" => w \in pool /\ workerMsg[w] # <<>>

\* What can be read is listed, or reported, or being read; and what is reported as
\* readable or is being read has something to show for it.
ReadEdgeKept ==
  /\ "IN" \in Readiness /\ ~disconnect /\ Running =>
       ready \/ ("conn" \in batch /\ "IN" \in revents) \/ loopPc = "read"
  /\ "conn" \in batch /\ "IN" \in revents => "IN" \in Readiness
  /\ loopPc = "read" => "IN" \in Readiness \/ inputBuffer # <<>>

\* What is to be written is listed, or waits for space, or will be looked at again:
\* the report being served ends in a send, or in a message whose reply lists it.
WriteEdgeKept ==
  outputBuffer # <<>> /\ ~disconnect /\ Running =>
    /\ "OUT" \in interest
    /\ \/ ready \/ (nospace /\ ~Writable(sockOut)) \/ ReplyUnderWay
       \/ "conn" \in batch \/ loopPc \in {"read", "write"}
       \/ loopPc = "pick" /\ inputBuffer # <<>>

\* There is a reply only after a message was handled, and then no message is ignored.
RepliesWereAsked == outputBuffer # <<>> \/ ReplyUnderWay => handled # <<>>

\* So is writing asked for and reported, and a message is handled only after the close
\* callback was set.
WritingWasAsked ==
  /\ "OUT" \in interest \cup revents \/ loopPc = "write" => handled # <<>>
  /\ handled # <<>> => mainPc # "setClose"

\* Nothing is left of the replies the kernel held when the client reset the
\* connection, and an error that was told leaves no send to be made.
ResetSeen ==
  rst => /\ sockOut = <<>>
         /\ ~fin /\ ~error => loopPc # "write" /\ ("conn" \in batch => "IN" \in revents)

\* The reply that the only worker is going to queue.
Carried ==
  IF pool = {} THEN <<>>
  ELSE LET w == CHOOSE v \in pool : TRUE IN
       IF workerPc[w] = "queue" \/ (workerPc[w] = "send" /\ ~disconnect)
       THEN Reply(workerMsg[w]) ELSE <<>>

OnTheWay == received \o sockOut \o outputBuffer \o FlattenSeq(loopQueue) \o Carried

\* Until the connection ends every reply owed is on its way, in order; then the
\* last ones may be given up.
ReplyOrderKept ==
  OneWorker =>
    /\ rst => IsPrefix(received, RepliesTo(handled))
    /\ ~rst => IsPrefix(OnTheWay, RepliesTo(handled))
    /\ ~rst /\ ~disconnect => OnTheWay \o RepliesTo(workQueue) = RepliesTo(handled)

\* The inductive invariant: the types, the stream of the client in its places, and
\* why no edge and no reply is lost, as stated above.
IOInv ==
  /\ TypeOK /\ InputStreamKept
  /\ ReportsServed /\ CarriedByPool
  /\ ReadEdgeKept /\ WriteEdgeKept /\ RepliesWereAsked /\ WritingWasAsked
  /\ ResetSeen /\ EndsInKnownWays
  /\ ReplyOrderKept

\* What has arrived is picked as a message, unless the client ends the connection
\* before the socket is found empty (Connection.cpp:51-90).
ArrivedIsPicked ==
  \A n \in 1..MaxBytes :
    arrived >= n ~> \/ \E i \in 1..Len(picked) : Contains(picked[i], n)
                    \/ disconnect \/ ~Running

\* The connection is a stream of replies: what it accepts is delivered, in order and
\* completely, unless it is closed or reset or the process ends.
Stream == INSTANCE ReplyStream WITH
  Replies <- AllReplies,
  pending <- IF rst THEN <<>>
             ELSE IF disconnect \/ ~Running THEN sockOut
             ELSE sockOut \o outputBuffer,
  delivered <- received,
  open <- ~disconnect /\ ~rst /\ Running

ImplementsReplyStream == Stream!Spec
==============================================================================
