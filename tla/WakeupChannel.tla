---------------------------- MODULE WakeupChannel ----------------------------
(***************************************************************************)
(* The self-pipe channel of FdChannels.hpp: a lock-free queue paired with  *)
(* a non-blocking pipe.  The code has two of them.                         *)
(*                                                                         *)
(*   NewFdChannel   one producer, the accepting thread (HttpServer::start) *)
(*   ReturnChannel  one producer per worker (ClientRequestHandler)         *)
(*                                                                         *)
(* A producer enqueues its item and then writes one byte to the pipe; the  *)
(* result of the write is ignored, so with a full pipe (EAGAIN) the byte   *)
(* is dropped.  The consumer, the epoll thread, wakes because the pipe is  *)
(* readable, reads at most ReadChunk bytes, and only then drains the       *)
(* queue.  Nothing couples the number of bytes to the number of items.     *)
(*                                                                         *)
(* moodycamel::ConcurrentQueue keeps one FIFO per producer, and            *)
(* try_dequeue looks at them one after the other: it reports "empty" when  *)
(* it found each of them empty at some moment of the scan, not all of them *)
(* at the same moment.  The variable seen is that scan.                    *)
(***************************************************************************)
EXTENDS Naturals, Sequences

CONSTANTS Producers,      \* the threads that send
          Items,          \* what they send
          PipeCapacity,   \* bytes the pipe holds before write() fails with EAGAIN
          ReadChunk,      \* sizeof(buf) of the consumer's read()
          MaxQueued       \* model bound: items a producer may have in the queue

ASSUME ChannelAssumption == /\ Producers # {}
                            /\ PipeCapacity \in Nat \ {0}
                            /\ ReadChunk \in Nat \ {0}
                            /\ MaxQueued \in Nat

VARIABLES queue,    \* queue[p]: the FIFO of producer p
          pipe,     \* number of unread bytes in the pipe
          closed,   \* the write end has been closed
          ppc,      \* ppc[p]: "idle", or "signal" between enqueue() and write()
          cpc,      \* "wait" in epoll_wait, "drain", or "stopped"
          seen      \* producers found empty by the scan in progress

vars == <<queue, pipe, closed, ppc, cpc, seen>>

TypeOK == /\ queue \in [Producers -> Seq(Items)]
          /\ pipe \in 0..PipeCapacity
          /\ closed \in BOOLEAN
          /\ ppc \in [Producers -> {"idle", "signal"}]
          /\ cpc \in {"wait", "drain", "stopped"}
          /\ seen \subseteq Producers

Init == /\ queue = [p \in Producers |-> <<>>]
        /\ pipe = 0
        /\ closed = FALSE
        /\ ppc = [p \in Producers |-> "idle"]
        /\ cpc = "wait"
        /\ seen = {}
-----------------------------------------------------------------------------
(* The producers.                                                          *)

Enqueue(p, x) ==
    /\ ppc[p] = "idle"
    /\ ~closed
    /\ Len(queue[p]) < MaxQueued
    /\ queue' = [queue EXCEPT ![p] = Append(@, x)]
    /\ ppc' = [ppc EXCEPT ![p] = "signal"]
    /\ UNCHANGED <<pipe, closed, cpc, seen>>

(* The pipe after one byte is written; a full pipe drops it (EAGAIN).      *)
Written(bytes) == IF bytes < PipeCapacity THEN bytes + 1 ELSE bytes

Signal(p) ==
    /\ ppc[p] = "signal"
    /\ pipe' = Written(pipe)
    /\ ppc' = [ppc EXCEPT ![p] = "idle"]
    /\ UNCHANGED <<queue, closed, cpc, seen>>

(* HttpServer::start closes the write end after its accept loop.           *)
Close ==
    /\ ~closed
    /\ \A p \in Producers : ppc[p] = "idle"
    /\ closed' = TRUE
    /\ UNCHANGED <<queue, pipe, ppc, cpc, seen>>
-----------------------------------------------------------------------------
(* The consumer.                                                           *)

Read ==
    /\ cpc = "wait"
    /\ pipe > 0
    /\ pipe' = IF pipe > ReadChunk THEN pipe - ReadChunk ELSE 0
    /\ cpc' = "drain"
    /\ seen' = {}
    /\ UNCHANGED <<queue, closed, ppc>>

(* read() returns 0: the pipe is empty and its write end closed.           *)
ClosedBeforeEmpty == closed
EndOfFile == pipe = 0 /\ closed

ReadEof ==
    /\ cpc = "wait"
    /\ EndOfFile
    /\ cpc' = "stopped"
    /\ UNCHANGED <<queue, pipe, closed, ppc, seen>>

DequeueYoungest(p) ==
    /\ cpc = "drain" /\ queue[p] # <<>>
    /\ queue' = [queue EXCEPT ![p] = SubSeq(@, 1, Len(@) - 1)]
    /\ seen' = {}
    /\ UNCHANGED <<pipe, closed, ppc, cpc>>

Dequeue(p) ==
    /\ cpc = "drain"
    /\ queue[p] # <<>>
    /\ queue' = [queue EXCEPT ![p] = Tail(@)]
    /\ seen' = {}
    /\ UNCHANGED <<pipe, closed, ppc, cpc>>

(* The scan of try_dequeue finds p's FIFO empty; after the last producer   *)
(* it reports "empty", which ends the drain.                               *)
ScanStopsEarly(p) == TRUE
ScanEnds(p) == seen \cup {p} = Producers

FoundEmpty(p) ==
    /\ cpc = "drain"
    /\ p \notin seen
    /\ queue[p] = <<>>
    /\ IF ScanEnds(p)
          THEN cpc' = "wait" /\ seen' = {}
          ELSE cpc' = cpc /\ seen' = seen \cup {p}
    /\ UNCHANGED <<queue, pipe, closed, ppc>>

Consume == \/ Read \/ ReadEof
           \/ \E p \in Producers : Dequeue(p) \/ FoundEmpty(p)

Next == \/ \E p \in Producers : Signal(p) \/ \E x \in Items : Enqueue(p, x)
        \/ Close
        \/ Consume

(* Each thread keeps running: a producer that has enqueued goes on to its  *)
(* write(), and the epoll thread loops forever.  Nothing obliges a         *)
(* producer to send, or the server to close.                               *)
Fairness == /\ \A p \in Producers : WF_vars(Signal(p))
            /\ WF_vars(Consume)

Safety == Init /\ [][Next]_vars

Spec == Safety /\ Fairness
-----------------------------------------------------------------------------
(* No wakeup is lost: while a producer has an item queued, the pipe is     *)
(* readable, or that producer is about to write its byte, or the drain in  *)
(* progress has still to look at its queue.  It is the reason the code     *)
(* reads the pipe before it drains, enqueues before it writes, and may     *)
(* ignore EAGAIN (HttpServer.cpp:57-59, NonblockingClientManagerTask.cpp:  *)
(* 46-62, ClientRequestHandler.cpp:83-85).                                 *)
NoLostWakeup ==
    \A p \in Producers :
        queue[p] # <<>> => \/ pipe > 0
                           \/ ppc[p] = "signal"
                           \/ cpc = "drain" /\ p \notin seen

(* The shutdown signal overtakes nothing: when read() returns 0 and the    *)
(* epoll thread leaves its loop (NonblockingClientManagerTask.cpp:50-54),  *)
(* every client accepted before the pipe was closed has been taken.        *)
DrainedAtStop ==
    cpc = "stopped" => \A p \in Producers : queue[p] = <<>>

(* The channel implements HandoffChannel: FIFO per producer, nothing lost, *)
(* everything eventually received, no early stop (FdChannels.hpp:9-27).    *)
Handoff == INSTANCE HandoffChannel WITH stopped <- cpc = "stopped"

ImplementsHandoff == Handoff!Spec
=============================================================================
