--------------------------- MODULE ConnectionLoop ---------------------------
(***************************************************************************)
(* The server at run time: three kinds of threads and the sockets they     *)
(* share.                                                                  *)
(*                                                                         *)
(*   the accepting thread  HttpServer::start                               *)
(*   the epoll thread      NonblockingClientManagerTask                    *)
(*   the workers           TaskExecutor running ClientRequestHandler       *)
(*                                                                         *)
(* A client goes from the accepting thread to the epoll thread through     *)
(* newFdChannel; waits in the table connections for a whole header, its fd *)
(* armed in epoll for one event; goes to a worker as a task; and comes     *)
(* back through returnChannel, to be watched again or closed.              *)
(*                                                                         *)
(* What a peer sends is a sequence of segments: "end" is one that carries  *)
(* the \r\n\r\n that ends a header, "part" any other, header or body.      *)
(* HTTP itself is the handler's choice: how much of the body it reads,     *)
(* whether the connection is kept, whether an exception leaves it.         *)
(***************************************************************************)
EXTENDS Integers, Sequences, FiniteSets

CONSTANTS Conns,          \* connections that peers may open
          Fds,            \* descriptors the process may use for them
          Workers,        \* the threads of the pool
          Acceptor,       \* the accepting thread
          None,           \* no client, no descriptor, the null unique_ptr
          CloseFreesFd,   \* IStream::close closes the descriptor: PlainStream's
                          \* does, SSLStream's does not
          MaxEvents,      \* size of the array given to epoll_wait
          MaxHeader,      \* MAX_HEADER_BYTES, in segments
          PipeCapacity,   \* bytes a pipe holds
          ReadChunk,      \* bytes the epoll thread reads from a pipe at a time
          MaxUnread       \* model bound: unread segments per socket

ASSUME LoopAssumption == /\ IsFiniteSet(Conns) /\ IsFiniteSet(Fds)
                         /\ IsFiniteSet(Workers) /\ Workers # {}
                         /\ Acceptor \notin Workers
                         /\ None \notin Conns \cup Fds \cup Workers \cup {Acceptor}
                         /\ {"new", "return"} \cap Fds = {}
                         /\ CloseFreesFd \in BOOLEAN
                         /\ {MaxEvents, MaxHeader, PipeCapacity, ReadChunk} \subseteq Nat \ {0}
                         /\ MaxUnread \in Nat

VARIABLES
  (* sockets and epoll, in the kernel *)
  peer,          \* peer[c]: "none", "open", then "fin" or "reset"
  backlog,       \* connections waiting in the listening socket
  unread,        \* unread[c]: segments received and not read
  fdOf,          \* fdOf[c]: the server's open descriptor for c, or None
  interest,      \* interest[fd]: "none", "armed", or "disarmed" after its event
  (* the accepting thread *)
  apc,           \* "accept", "enqueue", "signal", "decide", "join", "done"
  accepted,      \* the client just accepted
  (* the channels *)
  clients,       \* newFdChannel.clients
  newPipe,       \* bytes in newFdChannel's pipe
  newClosed,     \* its write end is closed
  returned,      \* returned[w]: what worker w put in returnChannel.connections
  returnPipe,    \* bytes in returnChannel's pipe
  (* the epoll thread *)
  epc,           \* "wait", "events", "drainNew", "drainReturn", "left"
  batch,         \* events reported and not handled yet
  seen,          \* workers whose part of returnChannel the scan found empty
  connections,   \* connections[fd]: the client waiting there, or None
  leftover,      \* leftover[c]: leftoverBuffer of its stream
  (* the pool *)
  tasks,         \* the queue of the executor
  opc,           \* "open", "stopping", "joining", "stopped"
  sentinels,     \* null tasks pushed by stop_all
  wpc,           \* wpc[w]: "waiting", "running", "signal", "exited"
  client,        \* client[w]: whose request w has, or None
  died           \* the thread an exception has left (std::terminate), or None

kernelVars == <<peer, backlog, unread, fdOf, interest>>
acceptVars == <<apc, accepted>>
newVars    == <<clients, newPipe, newClosed>>
returnVars == <<returned, returnPipe>>
loopVars   == <<epc, batch, seen, connections>>
poolVars   == <<tasks, opc, sentinels, wpc, client>>

vars == <<kernelVars, acceptVars, newVars, returnVars, loopVars, poolVars,
          leftover, died>>

Segments == {"part", "end"}

(* ReturnedConnection.                                                     *)
Returns == [client : Conns, keepAlive : BOOLEAN]

(* An epoll_event: its data.fd, and whether EPOLLERR or EPOLLHUP is set.   *)
Events == [fd : Fds \cup {"new", "return"}, hup : BOOLEAN]

ThreadCount == Cardinality(Workers)

TypeOK ==
    /\ peer \in [Conns -> {"none", "open", "fin", "reset"}]
    /\ backlog \subseteq Conns
    /\ unread \in [Conns -> Seq(Segments)]
    /\ fdOf \in [Conns -> Fds \cup {None}]
    /\ interest \in [Fds -> {"none", "armed", "disarmed"}]
    /\ apc \in {"accept", "enqueue", "signal", "decide", "join", "done"}
    /\ accepted \in Conns \cup {None}
    /\ clients \in Seq(Conns)
    /\ newPipe \in 0..PipeCapacity
    /\ newClosed \in BOOLEAN
    /\ returned \in [Workers -> Seq(Returns)]
    /\ returnPipe \in 0..PipeCapacity
    /\ epc \in {"wait", "events", "drainNew", "drainReturn", "left"}
    /\ batch \subseteq Events
    /\ seen \subseteq Workers
    /\ connections \in [Fds -> Conns \cup {None}]
    /\ leftover \in [Conns -> Seq(Segments)]
    /\ tasks \in Seq(Conns \cup {None})
    /\ opc \in {"open", "stopping", "joining", "stopped"}
    /\ sentinels \in 0..ThreadCount
    /\ wpc \in [Workers -> {"waiting", "running", "signal", "exited"}]
    /\ client \in [Workers -> Conns \cup {None}]
    /\ died \in Workers \cup {Acceptor, None}

Init ==
    /\ peer = [c \in Conns |-> "none"]
    /\ backlog = {}
    /\ unread = [c \in Conns |-> <<>>]
    /\ fdOf = [c \in Conns |-> None]
    /\ interest = [fd \in Fds |-> "none"]
    /\ apc = "accept"
    /\ accepted = None
    /\ clients = <<>>
    /\ newPipe = 0
    /\ newClosed = FALSE
    /\ returned = [w \in Workers |-> <<>>]
    /\ returnPipe = 0
    /\ epc = "wait"
    /\ batch = {}
    /\ seen = {}
    /\ connections = [fd \in Fds |-> None]
    /\ leftover = [c \in Conns |-> <<>>]
    /\ tasks = <<>>
    /\ opc = "open"
    /\ sentinels = 0
    /\ wpc = [w \in Workers |-> "waiting"]
    /\ client = [w \in Workers |-> None]
    /\ died = None
-----------------------------------------------------------------------------
(* The peers and the kernel.                                               *)

Alive == died = None
Open(c) == fdOf[c] # None
FreeFds == {fd \in Fds : \A c \in Conns : fdOf[c] # fd}

Connect(c) ==
    /\ peer[c] = "none"
    /\ peer' = [peer EXCEPT ![c] = "open"]
    /\ backlog' = backlog \cup {c}
    /\ UNCHANGED <<unread, fdOf, interest, acceptVars, newVars, returnVars,
                   loopVars, poolVars, leftover, died>>

Send(c, s) ==
    /\ peer[c] = "open" /\ (c \in backlog \/ Open(c))
    /\ Len(unread[c]) < MaxUnread
    /\ unread' = [unread EXCEPT ![c] = Append(@, s)]
    /\ UNCHANGED <<peer, backlog, fdOf, interest, acceptVars, newVars, returnVars,
                   loopVars, poolVars, leftover, died>>

(* The peer closes its half, or resets the connection.                     *)
Hangup(c, how) ==
    /\ peer[c] \in {"open", "fin"} \ {how}
    /\ c \in backlog \/ Open(c)
    /\ peer' = [peer EXCEPT ![c] = how]
    /\ UNCHANGED <<backlog, unread, fdOf, interest, acceptVars, newVars,
                   returnVars, loopVars, poolVars, leftover, died>>

(* What peers do when the process is gone is of no interest.               *)
Peers == /\ Alive
         /\ \E c \in Conns : \/ Connect(c)
                             \/ \E s \in Segments : Send(c, s)
                             \/ \E how \in {"fin", "reset"} : Hangup(c, how)

(* The events epoll has to report: level triggered, armed descriptors only *)
(* (end of file counts as readable, a closed write end as well).           *)
ReadyEvents ==
    {[fd |-> fd, hup |-> FALSE] : fd \in {f \in {"new"} : newPipe > 0 \/ newClosed}
                                         \cup {f \in {"return"} : returnPipe > 0}}
    \cup {[fd |-> fdOf[c], hup |-> peer[c] = "reset"] :
             c \in {k \in Conns : /\ Open(k)
                                  /\ interest[fdOf[k]] = "armed"
                                  /\ unread[k] # <<>> \/ peer[k] # "open"}}
-----------------------------------------------------------------------------
(* HttpServer::start, the accepting thread.                                *)

(* The listening socket blocks; the client's socket is made non-blocking.  *)
Accept(c, fd) ==
    /\ Alive /\ apc = "accept"
    /\ c \in backlog
    /\ fd \in FreeFds
    /\ backlog' = backlog \ {c}
    /\ fdOf' = [fdOf EXCEPT ![c] = fd]
    /\ accepted' = c
    /\ apc' = "enqueue"
    /\ UNCHANGED <<peer, unread, interest, newVars, returnVars, loopVars,
                   poolVars, leftover, died>>

(* accept() fails, as it does without a free descriptor: the exception     *)
(* leaves start() while the epoll thread is joinable.                      *)
AcceptFails ==
    /\ Alive /\ apc = "accept"
    /\ died' = Acceptor
    /\ UNCHANGED <<kernelVars, acceptVars, newVars, returnVars, loopVars,
                   poolVars, leftover>>

Enqueue ==
    /\ Alive /\ apc = "enqueue"
    /\ clients' = Append(clients, accepted)
    /\ accepted' = None
    /\ apc' = "signal"
    /\ UNCHANGED <<kernelVars, newPipe, newClosed, returnVars, loopVars,
                   poolVars, leftover, died>>

(* The pipe after one byte is written; a full pipe drops it (EAGAIN).      *)
Written(bytes) == IF bytes < PipeCapacity THEN bytes + 1 ELSE bytes

Signal ==
    /\ Alive /\ apc = "signal"
    /\ newPipe' = Written(newPipe)
    /\ apc' = "decide"
    /\ UNCHANGED <<kernelVars, accepted, clients, newClosed, returnVars,
                   loopVars, poolVars, leftover, died>>

(* shouldStop answers.                                                     *)
AcceptMore ==
    /\ Alive /\ apc = "decide"
    /\ apc' = "accept"
    /\ UNCHANGED <<kernelVars, accepted, newVars, returnVars, loopVars,
                   poolVars, leftover, died>>

Shutdown ==
    /\ Alive /\ apc = "decide"
    /\ newClosed' = TRUE
    /\ apc' = "join"
    /\ UNCHANGED <<kernelVars, accepted, clients, newPipe, returnVars,
                   loopVars, poolVars, leftover, died>>

JoinEpollThread ==
    /\ Alive /\ apc = "join"
    /\ opc = "stopped"
    /\ apc' = "done"
    /\ UNCHANGED <<kernelVars, accepted, newVars, returnVars, loopVars,
                   poolVars, leftover, died>>

AcceptorStep == \/ Enqueue \/ Signal \/ AcceptMore \/ Shutdown
                \/ JoinEpollThread
-----------------------------------------------------------------------------
(* NonblockingClientManagerTask, the epoll thread.                         *)

(* EPOLLONESHOT: a reported descriptor is armed no more.                   *)
InterestLevelTriggered(reported) == interest
InterestAfter(reported) ==
    [fd \in Fds |-> IF \E e \in reported : e.fd = fd THEN "disarmed" ELSE interest[fd]]

(* If more is ready than the array holds, some of it is reported.          *)
EpollWait ==
    /\ Alive /\ epc = "wait"
    /\ \E reported \in SUBSET ReadyEvents :
          /\ reported # {}
          /\ \/ reported = ReadyEvents
             \/ Cardinality(reported) = MaxEvents
          /\ Cardinality(reported) <= MaxEvents
          /\ batch' = reported
          /\ interest' = InterestAfter(reported)
    /\ epc' = "events"
    /\ UNCHANGED <<peer, backlog, unread, fdOf, acceptVars, newVars, returnVars,
                   seen, connections, poolVars, leftover, died>>

(* The events are handled in the order of the array, which is any order.   *)
Handling(e) == Alive /\ epc = "events" /\ e \in batch

Drop(s, n) == SubSeq(s, n + 1, Len(s))

Unread(bytes) == IF bytes > ReadChunk THEN bytes - ReadChunk ELSE 0

(* The loop goes on with the next event, or waits for more.                *)
NextEvent(events) ==
    /\ batch' = events
    /\ epc' = IF events = {} THEN "wait" ELSE "events"

ReadNewPipe(e) ==
    /\ Handling(e) /\ e.fd = "new"
    /\ newPipe > 0
    /\ newPipe' = Unread(newPipe)
    /\ batch' = batch \ {e}
    /\ epc' = "drainNew"
    /\ UNCHANGED <<kernelVars, acceptVars, clients, newClosed, returnVars, seen,
                   connections, poolVars, leftover, died>>

(* read() returns 0: nothing in the pipe, and its write end closed.        *)
ClosedBeforeEmpty == newClosed
EofMissed == FALSE
EndOfFile == newPipe = 0 /\ newClosed

(* At the end of the pipe, epollFd is closed, and with the loop's object go the *)
(* rest of the batch, the clients still waiting (their descriptors stay    *)
(* open) and the pool, whose destructor calls stop_all.                    *)
LeaveLoop(e) ==
    /\ Handling(e) /\ e.fd = "new"
    /\ EndOfFile
    /\ interest' = [fd \in Fds |-> "none"]
    /\ connections' = [fd \in Fds |-> None]
    /\ batch' = {}
    /\ epc' = "left"
    /\ opc' = "stopping"
    /\ UNCHANGED <<peer, backlog, unread, fdOf, acceptVars, newVars, returnVars,
                   seen, tasks, sentinels, wpc, client, leftover, died>>

(* epoll_ctl(ADD) and emplace(), which keeps an entry that is there.       *)
DrainNew ==
    /\ Alive /\ epc = "drainNew"
    /\ clients # <<>>
    /\ LET fd == fdOf[Head(clients)]
       IN /\ interest' = [interest EXCEPT ![fd] = IF @ = "none" THEN "armed" ELSE @]
          /\ connections' = [connections EXCEPT
                               ![fd] = IF @ = None THEN Head(clients) ELSE @]
    /\ clients' = Tail(clients)
    /\ UNCHANGED <<peer, backlog, unread, fdOf, acceptVars, newPipe, newClosed,
                   returnVars, epc, batch, seen, poolVars, leftover, died>>

DrainNewDone ==
    /\ Alive /\ epc = "drainNew"
    /\ clients = <<>>
    /\ NextEvent(batch)
    /\ UNCHANGED <<kernelVars, acceptVars, newVars, returnVars, seen,
                   connections, poolVars, leftover, died>>

ReadReturnPipe(e) ==
    /\ Handling(e) /\ e.fd = "return"
    /\ returnPipe' = Unread(returnPipe)
    /\ batch' = batch \ {e}
    /\ seen' = {}
    /\ epc' = "drainReturn"
    /\ UNCHANGED <<kernelVars, acceptVars, newVars, returned, connections,
                   poolVars, leftover, died>>

(* close() and the end of the client object: its leftoverBuffer is gone,   *)
(* and for a plain socket the descriptor and what was unread.              *)
CloseSendsShutdownOnly(c) ==
    leftover' = [leftover EXCEPT ![c] = <<>>] /\ UNCHANGED <<fdOf, unread, interest>>
CloseClient(c) ==
    /\ leftover' = [leftover EXCEPT ![c] = <<>>]
    /\ IF CloseFreesFd
          THEN /\ fdOf' = [fdOf EXCEPT ![c] = None]
               /\ unread' = [unread EXCEPT ![c] = <<>>]
               /\ interest' = [interest EXCEPT ![fdOf[c]] = "none"]
          ELSE UNCHANGED <<fdOf, unread, interest>>

(* rearmFd: epoll_ctl(MOD), which fails for a descriptor not added.        *)
RearmForgotten(fd) == UNCHANGED interest
Rearm(fd) == interest' = [interest EXCEPT ![fd] = IF @ = "none" THEN @ ELSE "armed"]

DrainKept(w) ==
    /\ Alive /\ epc = "drainReturn"
    /\ returned[w] # <<>> /\ Head(returned[w]).keepAlive
    /\ LET c  == Head(returned[w]).client
           fd == fdOf[c]
       IN /\ connections' = [connections EXCEPT ![fd] = IF @ = None THEN c ELSE @]
          /\ Rearm(fd)
    /\ returned' = [returned EXCEPT ![w] = Tail(@)]
    /\ seen' = {}
    /\ UNCHANGED <<peer, backlog, unread, fdOf, acceptVars, newVars, returnPipe,
                   epc, batch, poolVars, leftover, died>>

DrainClosed(w) ==
    /\ Alive /\ epc = "drainReturn"
    /\ returned[w] # <<>> /\ ~Head(returned[w]).keepAlive
    /\ CloseClient(Head(returned[w]).client)
    /\ returned' = [returned EXCEPT ![w] = Tail(@)]
    /\ seen' = {}
    /\ UNCHANGED <<peer, backlog, acceptVars, newVars, returnPipe, epc, batch,
                   connections, poolVars, died>>

(* The scan of try_dequeue ends after the last worker's FIFO.              *)
ScanStopsEarly(w) == TRUE
ScanEnds(w) == seen \cup {w} = Workers

FoundEmpty(w) ==
    /\ Alive /\ epc = "drainReturn"
    /\ w \notin seen
    /\ returned[w] = <<>>
    /\ IF ScanEnds(w)
          THEN NextEvent(batch) /\ seen' = {}
          ELSE seen' = seen \cup {w} /\ UNCHANGED <<epc, batch>>
    /\ UNCHANGED <<kernelVars, acceptVars, newVars, returnVars, connections,
                   poolVars, leftover, died>>

EraseForgotten(fd) == UNCHANGED connections
Erase(fd) == connections' = [connections EXCEPT ![fd] = None]

(* An event of a client: an error or a hangup closes it.                   *)
HandleHangup(e) ==
    /\ Handling(e) /\ e.fd \in Fds
    /\ connections[e.fd] # None /\ e.hup
    /\ CloseClient(connections[e.fd])
    /\ Erase(e.fd)
    /\ NextEvent(batch \ {e})
    /\ UNCHANGED <<peer, backlog, acceptVars, newVars, returnVars, seen,
                   poolVars, died>>

(* peek() fills leftoverBuffer from the socket, up to MAX_HEADER_BYTES.    *)
Peeked(c) ==
    LET all == leftover[c] \o unread[c]
    IN  SubSeq(all, 1, IF Len(all) < MaxHeader THEN Len(all) ELSE MaxHeader)

HeaderEnds(c) == {i \in 1..Len(Peeked(c)) : Peeked(c)[i] = "end"}

(* No whole header yet, or no entry any more: the client, if there is one, *)
(* waits for more.                                                         *)
HandleIncomplete(e) ==
    /\ Handling(e) /\ e.fd \in Fds
    /\ LET c == connections[e.fd]
       IN IF c = None
            THEN UNCHANGED <<leftover, unread, interest>>
            ELSE /\ ~e.hup
                 /\ HeaderEnds(c) = {}
                 /\ leftover' = [leftover EXCEPT ![c] = Peeked(c)]
                 /\ unread' = [unread EXCEPT
                                 ![c] = Drop(@, Len(Peeked(c)) - Len(leftover[c]))]
                 /\ Rearm(e.fd)
    /\ NextEvent(batch \ {e})
    /\ UNCHANGED <<peer, backlog, fdOf, acceptVars, newVars, returnVars, seen,
                   connections, poolVars, died>>

(* The header is consumed; what follows it stays in leftoverBuffer.        *)
HandleRequest(e) ==
    /\ Handling(e) /\ e.fd \in Fds
    /\ connections[e.fd] # None /\ ~e.hup
    /\ LET c == connections[e.fd]
       IN \E i \in HeaderEnds(c) :
            /\ \A j \in HeaderEnds(c) : i <= j
            /\ leftover' = [leftover EXCEPT ![c] = Drop(Peeked(c), i)]
            /\ unread' = [unread EXCEPT
                            ![c] = Drop(@, Len(Peeked(c)) - Len(leftover[c]))]
            /\ tasks' = Append(tasks, c)
    /\ Erase(e.fd)
    /\ NextEvent(batch \ {e})
    /\ UNCHANGED <<peer, backlog, fdOf, interest, acceptVars, newVars, returnVars,
                   seen, opc, sentinels, wpc, client, died>>

(* stop_all, in the destructor of the pool.                                *)
OneSentinelTooMany == sentinels = ThreadCount
LastSentinel == sentinels + 1 = ThreadCount

PushSentinel ==
    /\ Alive /\ opc = "stopping"
    /\ tasks' = Append(tasks, None)
    /\ sentinels' = sentinels + 1
    /\ opc' = IF LastSentinel THEN "joining" ELSE opc
    /\ UNCHANGED <<kernelVars, acceptVars, newVars, returnVars, loopVars, wpc,
                   client, leftover, died>>

JoinWorkers ==
    /\ Alive /\ opc = "joining"
    /\ \A w \in Workers : wpc[w] = "exited"
    /\ opc' = "stopped"
    /\ UNCHANGED <<kernelVars, acceptVars, newVars, returnVars, loopVars, tasks,
                   sentinels, wpc, client, leftover, died>>

EpollStep ==
    \/ EpollWait
    \/ \E e \in Events : \/ ReadNewPipe(e) \/ LeaveLoop(e) \/ ReadReturnPipe(e)
                         \/ HandleHangup(e) \/ HandleIncomplete(e) \/ HandleRequest(e)
    \/ DrainNew \/ DrainNewDone
    \/ \E w \in Workers : DrainKept(w) \/ DrainClosed(w) \/ FoundEmpty(w)
    \/ PushSentinel \/ JoinWorkers
-----------------------------------------------------------------------------
(* A worker: thread_worker and ClientRequestHandler.                       *)

Take(w) ==
    /\ Alive /\ wpc[w] = "waiting"
    /\ tasks # <<>>
    /\ tasks' = Tail(tasks)
    /\ client' = [client EXCEPT ![w] = Head(tasks)]
    /\ wpc' = [wpc EXCEPT ![w] = IF Head(tasks) = None THEN "exited" ELSE "running"]
    /\ UNCHANGED <<kernelVars, acceptVars, newVars, returnVars, loopVars, opc,
                   sentinels, leftover, died>>

(* The resolver reads n segments of body, first what is left over; a       *)
(* response is written, 200, 400 or 500; the client is given back.         *)
Respond(w, n, keep) ==
    /\ Alive /\ wpc[w] = "running"
    /\ LET c == client[w]
       IN /\ n <= Len(leftover[c]) + Len(unread[c])
          /\ leftover' = [leftover EXCEPT ![c] = Drop(@, n)]
          /\ unread' = [unread EXCEPT ![c] = Drop(@, IF n > Len(leftover[c])
                                                      THEN n - Len(leftover[c]) ELSE 0)]
          /\ returned' = [returned EXCEPT
                            ![w] = Append(@, [client |-> c, keepAlive |-> keep])]
    /\ client' = [client EXCEPT ![w] = None]
    /\ wpc' = [wpc EXCEPT ![w] = "signal"]
    /\ UNCHANGED <<peer, backlog, fdOf, interest, acceptVars, newVars, returnPipe,
                   loopVars, tasks, opc, sentinels, died>>

SignalReturn(w) ==
    /\ Alive /\ wpc[w] = "signal"
    /\ returnPipe' = Written(returnPipe)
    /\ wpc' = [wpc EXCEPT ![w] = "waiting"]
    /\ UNCHANGED <<kernelVars, acceptVars, newVars, returned, loopVars, tasks,
                   opc, sentinels, client, leftover, died>>

(* Writing the 400 or the 500 response throws when the peer has gone, or   *)
(* reads nothing and its window is full (EAGAIN), and nothing catches it.  *)
HandlerThrows(w) ==
    /\ Alive /\ wpc[w] = "running"
    /\ died' = w
    /\ UNCHANGED <<kernelVars, acceptVars, newVars, returnVars, loopVars,
                   poolVars, leftover>>

WorkerStep(w) == \/ Take(w) \/ SignalReturn(w)
                 \/ \E n \in 0..(MaxHeader + MaxUnread), keep \in BOOLEAN :
                        Respond(w, n, keep)
-----------------------------------------------------------------------------
Next == \/ Peers
        \/ \E c \in Conns, fd \in Fds : Accept(c, fd)
        \/ AcceptFails
        \/ AcceptorStep
        \/ EpollStep
        \/ \E w \in Workers : WorkerStep(w) \/ HandlerThrows(w)

(* The threads keep running, shouldStop and the resolvers return.  Nobody  *)
(* has to connect, to send or to hang up, and accept() need not return.    *)
Fairness == /\ WF_vars(AcceptorStep)
            /\ WF_vars(EpollStep)
            /\ \A w \in Workers : WF_vars(WorkerStep(w))

Safety == Init /\ [][Next]_vars

Spec == Safety /\ Fairness
-----------------------------------------------------------------------------
(* Where a client object is; a position in a queue is part of the place.   *)
PoolPlaces(c) ==
    {<<"tasks", i>> : i \in {j \in 1..Len(tasks) : tasks[j] = c}}
    \cup {<<"client", w>> : w \in {v \in Workers : client[v] = c}}

ReturnPlaces(c) ==
    UNION {{<<"returned", w, i>> :
              i \in {j \in 1..Len(returned[w]) : returned[w][j].client = c}} :
           w \in Workers}

Places(c) ==
    {<<"accepted">> : a \in {accepted} \cap {c}}
    \cup {<<"clients", i>> : i \in {j \in 1..Len(clients) : clients[j] = c}}
    \cup {<<"connections", fd>> : fd \in {f \in Fds : connections[f] = c}}
    \cup PoolPlaces(c)
    \cup ReturnPlaces(c)

(* A client is in one place at a time, and only while its descriptor is    *)
(* open: the moves of std::unique_ptr between three kinds of threads and   *)
(* four containers duplicate nothing, and no one holds a closed client     *)
(* (HttpServer.cpp:57, NonblockingClientManagerTask.cpp:89-157,            *)
(* ClientRequestHandler.cpp:83).                                           *)
OneOwner ==
    \A c \in Conns : /\ \A p, q \in Places(c) : p = q
                     /\ Places(c) # {} => Open(c)

(* Until the loop is left, an open descriptor belongs to a client that     *)
(* someone holds: IStream::close, "Close the connection" (IStream.hpp:39), *)
(* has been called before a client object is given up.                     *)
NoLeak ==
    epc # "left" => \A c \in Conns : Open(c) => Places(c) # {}

(* A worker, and the task or the return entry that stands for one, has the *)
(* stream to itself: the event that started the request was the last one   *)
(* until drainReturnChannel rearms the descriptor (EPOLLONESHOT,           *)
(* NonblockingClientManagerTask.cpp:81-87, 96).                            *)
StreamIsExclusive ==
    \A c \in Conns :
        PoolPlaces(c) \cup ReturnPlaces(c) # {} =>
            /\ epc # "left" => interest[fdOf[c]] = "disarmed"
            /\ \A e \in batch : e.fd # fdOf[c]

(* A client in connections is never forgotten: its descriptor is armed, or *)
(* its event is in the batch (NonblockingClientManagerTask.cpp:89-143).    *)
NoneForgotten ==
    \A fd \in Fds :
        connections[fd] # None =>
            interest[fd] = "armed" \/ \E e \in batch : e.fd = fd

(* Descriptors are reused by the kernel, yet an event in the batch is      *)
(* always one of the client now found under its descriptor: it is there,   *)
(* has that descriptor, has no second event, and a hangup is its own       *)
(* (NonblockingClientManagerTask.cpp:121-133).                             *)
EventIsOfItsClient ==
    \A e \in batch :
        e.fd \in Fds =>
            LET c == connections[e.fd]
            IN  /\ c # None
                /\ fdOf[c] = e.fd
                /\ e.hup => peer[c] = "reset"
                /\ \A d \in batch : d.fd = e.fd => d = e

(* When start() can return, every client accepted before has reached the   *)
(* loop, every request the loop has taken was given to a worker and        *)
(* answered, and all workers are gone (HttpServer.cpp:62-64,               *)
(* NonblockingClientManagerTask.cpp:50-54, MPMCTaskExecutor.hpp:58-68).    *)
ShutdownServesAll ==
    opc = "stopped" =>
        /\ clients = <<>>
        /\ tasks = <<>>
        /\ \A w \in Workers : wpc[w] = "exited" /\ client[w] = None
-----------------------------------------------------------------------------
(* The parts, each an instance of its own module.                          *)

(* newFdChannel is a WakeupChannel with one producer (HttpServer.cpp:57-63,*)
(* NonblockingClientManagerTask.cpp:46-56, 89-101).                        *)
NewFdChannel ==
    INSTANCE WakeupChannel
        WITH Producers <- {Acceptor}, Items <- Conns,
             MaxQueued <- Cardinality(Conns),
             queue <- [p \in {Acceptor} |-> clients],
             pipe <- newPipe, closed <- newClosed,
             ppc <- [p \in {Acceptor} |-> IF apc = "signal" THEN "signal" ELSE "idle"],
             cpc <- CASE epc = "drainNew" -> "drain"
                      [] epc = "left" -> "stopped"
                      [] OTHER -> "wait",
             seen <- {}

(* returnChannel is one with a producer per worker, never closed while the *)
(* loop runs (ClientRequestHandler.cpp:81-86,                              *)
(* NonblockingClientManagerTask.cpp:57-62, 103-119).                       *)
ReturnChannel ==
    INSTANCE WakeupChannel
        WITH Producers <- Workers, Items <- Returns,
             MaxQueued <- Cardinality(Conns),
             queue <- returned, pipe <- returnPipe, closed <- FALSE,
             ppc <- [w \in Workers |-> IF wpc[w] = "signal" THEN "signal" ELSE "idle"],
             cpc <- IF epc = "drainReturn" THEN "drain" ELSE "wait",
             seen <- seen

(* The pool is a TaskExecutor owned by the epoll thread.  A task is over,  *)
(* for the executor, once it has given its client back                     *)
(* (NonblockingClientManagerTask.cpp:152-157, MPMCTaskExecutor.hpp:53-84). *)
WorkerPool ==
    INSTANCE TaskExecutor
        WITH Tasks <- Conns, Null <- None, MaxQueued <- Cardinality(Conns),
             queue <- tasks, task <- client, aborted <- died \in Workers,
             wpc <- [w \in Workers |-> IF wpc[w] = "signal" THEN "waiting"
                                       ELSE wpc[w]]

(* Inside the server each part keeps to the protocol it was checked for on *)
(* its own, so that what holds for the parts holds here: no lost wakeup,   *)
(* no item behind the end of a pipe, no task behind a sentinel             *)
(* (HttpServer.cpp:53-68, MPMCTaskExecutor.hpp:53-84, FdChannels.hpp:9-27).*)
ImplementsParts ==
    NewFdChannel!Safety /\ ReturnChannel!Safety /\ WorkerPool!Safety
-----------------------------------------------------------------------------
(* What must happen, unless the loop is left or the process terminated.    *)
Over == epc = "left" \/ ~Alive

Waiting(c) == \E fd \in Fds : connections[fd] = c

(* A waiting client whose socket has data that completes a header gets its *)
(* request to the pool, or is closed (NonblockingClientManagerTask.cpp:    *)
(* 121-157).                                                               *)
ArrivalIsServed ==
    \A c \in Conns :
        Waiting(c) /\ unread[c] # <<>> /\ HeaderEnds(c) # {}
            ~> PoolPlaces(c) # {} \/ ~Open(c) \/ Over

(* A client that was accepted is put in epoll, and one given back is put   *)
(* there again or closed, though the byte that announces it may be dropped *)
(* (HttpServer.cpp:53-59, ClientRequestHandler.cpp:81-86,                  *)
(* NonblockingClientManagerTask.cpp:89-119).                               *)
HandOverCompletes ==
    \A c \in Conns :
        /\ accepted = c ~> Waiting(c) \/ Over
        /\ ReturnPlaces(c) # {} ~> Waiting(c) \/ ~Open(c) \/ Over

(* Once shouldStop says so, start() returns (HttpServer.cpp:60-68).        *)
ShutdownCompletes == newClosed ~> apc = "done" \/ ~Alive
-----------------------------------------------------------------------------
(* What the documentation says and the code does not do.                   *)

(* The request lifecycle of README.md:41-54 takes every request a client   *)
(* sends to a handler and its response.  A request that came together with *)
(* the one before it sits in leftoverBuffer while its descriptor is armed  *)
(* for new data (NonblockingClientManagerTask.cpp:108-113).                *)
EveryRequestIsTaken ==
    \A c \in Conns :
        Waiting(c) /\ HeaderEnds(c) # {}
            ~> PoolPlaces(c) # {} \/ ~Open(c) \/ Over
=============================================================================
