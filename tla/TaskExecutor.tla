---------------------------- MODULE TaskExecutor ----------------------------
(***************************************************************************)
(* TaskExecutor<T> of MPMCTaskExecutor.hpp: worker threads around one      *)
(* blocking queue of std::unique_ptr<T>, stopped by one null pointer per   *)
(* worker.                                                                 *)
(*                                                                         *)
(* One thread owns the executor: it constructs it, adds the tasks and      *)
(* destroys it (the epoll thread, NonblockingClientManagerTask.hpp:36).    *)
(* With one producer moodycamel's queue is a FIFO; enqueue and             *)
(* wait_dequeue are atomic here.  stop_all's test of kill_threads only     *)
(* matters for a second call, which changes nothing.                       *)
(***************************************************************************)
EXTENDS Integers, Sequences, FiniteSets

CONSTANTS Workers,       \* the threads of the pool
          Tasks,         \* what can be added
          Null,          \* the null unique_ptr
          MaxQueued      \* model bound: length of the queue while tasks are added

ASSUME PoolAssumption == /\ IsFiniteSet(Workers)
                         /\ Workers # {}       \* the constructor throws otherwise
                         /\ Null \notin Tasks
                         /\ MaxQueued \in Nat

VARIABLES queue,         \* tasks: the queue of the pool
          wpc,           \* wpc[w]: "waiting", "running" a task, or "exited"
          task,          \* task[w]: what worker w runs, or Null
          opc,           \* the owner: "open", "stopping", "joining", "stopped"
          sentinels,     \* null pointers stop_all has enqueued so far
          aborted        \* an exception has left a thread: std::terminate

vars == <<queue, wpc, task, opc, sentinels, aborted>>

ThreadCount == Cardinality(Workers)

TypeOK == /\ queue \in Seq(Tasks \cup {Null})
          /\ wpc \in [Workers -> {"waiting", "running", "exited"}]
          /\ task \in [Workers -> Tasks \cup {Null}]
          /\ opc \in {"open", "stopping", "joining", "stopped"}
          /\ sentinels \in 0..ThreadCount
          /\ aborted \in BOOLEAN

Init == /\ queue = <<>>
        /\ wpc = [w \in Workers |-> "waiting"]
        /\ task = [w \in Workers |-> Null]
        /\ opc = "open"
        /\ sentinels = 0
        /\ aborted = FALSE
-----------------------------------------------------------------------------
(* The owner.                                                              *)

AddTaskAnytime(t) ==
    /\ ~aborted /\ Len(queue) < MaxQueued
    /\ queue' = Append(queue, t)
    /\ UNCHANGED <<wpc, task, opc, sentinels, aborted>>

AddTaskInFront(t) ==
    /\ ~aborted /\ opc = "open" /\ Len(queue) < MaxQueued
    /\ queue' = <<t>> \o queue
    /\ UNCHANGED <<wpc, task, opc, sentinels, aborted>>

AddTask(t) ==
    /\ ~aborted
    /\ opc = "open"
    /\ Len(queue) < MaxQueued
    /\ queue' = Append(queue, t)
    /\ UNCHANGED <<wpc, task, opc, sentinels, aborted>>

StopAll ==
    /\ ~aborted
    /\ opc = "open"
    /\ opc' = "stopping"
    /\ UNCHANGED <<queue, wpc, task, sentinels, aborted>>

(* The last turn of stop_all's first loop.                                 *)
OneSentinelTooFew == sentinels + 2 >= ThreadCount
LastSentinel == sentinels + 1 = ThreadCount

PushSentinel ==
    /\ ~aborted
    /\ opc = "stopping"
    /\ queue' = Append(queue, Null)
    /\ sentinels' = sentinels + 1
    /\ opc' = IF LastSentinel THEN "joining" ELSE opc
    /\ UNCHANGED <<wpc, task, aborted>>

JoinNobody == TRUE
AllJoined == \A w \in Workers : wpc[w] = "exited"

Join ==
    /\ ~aborted
    /\ opc = "joining"
    /\ AllJoined
    /\ opc' = "stopped"
    /\ UNCHANGED <<queue, wpc, task, sentinels, aborted>>
-----------------------------------------------------------------------------
(* A worker: thread_worker.                                                *)

(* if (!task) break;                                                       *)
AfterDequeue(t) == IF t = Null THEN "exited" ELSE "running"

Take(w) ==
    /\ ~aborted
    /\ wpc[w] = "waiting"
    /\ queue # <<>>
    /\ queue' = Tail(queue)
    /\ task' = [task EXCEPT ![w] = Head(queue)]
    /\ wpc' = [wpc EXCEPT ![w] = AfterDequeue(Head(queue))]
    /\ UNCHANGED <<opc, sentinels, aborted>>

TaskReturns(w) ==
    /\ ~aborted
    /\ wpc[w] = "running"
    /\ task' = [task EXCEPT ![w] = Null]
    /\ wpc' = [wpc EXCEPT ![w] = "waiting"]
    /\ UNCHANGED <<queue, opc, sentinels, aborted>>

(* thread_worker catches nothing.                                          *)
TaskThrows(w) ==
    /\ ~aborted
    /\ wpc[w] = "running"
    /\ aborted' = TRUE
    /\ UNCHANGED <<queue, wpc, task, opc, sentinels>>

Next == \/ \E t \in Tasks : AddTask(t)
        \/ StopAll \/ PushSentinel \/ Join
        \/ \E w \in Workers : Take(w) \/ TaskReturns(w) \/ TaskThrows(w)

(* The threads keep running and tasks return; no task has to throw, and    *)
(* the owner need neither add a task nor stop.                             *)
Fairness == /\ WF_vars(PushSentinel)
            /\ WF_vars(Join)
            /\ \A w \in Workers : WF_vars(Take(w)) /\ WF_vars(TaskReturns(w))

Safety == Init /\ [][Next]_vars

Spec == Safety /\ Fairness
-----------------------------------------------------------------------------
Exited == {w \in Workers : wpc[w] = "exited"}

(* How many null pointers are still in the queue: one per sentinel pushed, *)
(* less the one each exited worker took.                                   *)
PendingSentinels == sentinels - Cardinality(Exited)

(* The null pointers are exactly the last entries of the queue: no task is *)
(* ever queued behind one, so a worker that takes one leaves no task       *)
(* behind (MPMCTaskExecutor.hpp:58-84).                                    *)
SentinelsLast ==
    /\ PendingSentinels \in 0..Len(queue)
    /\ \A i \in 1..Len(queue) :
           queue[i] = Null <=> i > Len(queue) - PendingSentinels

(* When stop_all returns nothing is left behind: no task queued, none      *)
(* running, and no null pointer over (MPMCTaskExecutor.hpp:58-68).         *)
NothingLeftBehind ==
    opc = "stopped" => /\ queue = <<>>
                       /\ \A w \in Workers : wpc[w] = "exited"

(* The executor implements TaskPool: every task started once, in order,    *)
(* all of them before stop_all returns (MPMCTaskExecutor.hpp:53-84).       *)
Pool == INSTANCE TaskPool
            WITH waiting <- SubSeq(queue, 1, Len(queue) - PendingSentinels),
                 current <- task,
                 stopped <- opc = "stopped",
                 Idle <- Null

ImplementsPool == Pool!Spec

(* stop_all returns, unless a task throws (MPMCTaskExecutor.hpp:58-68).    *)
StopReturns == opc = "stopping" ~> opc = "stopped" \/ aborted
=============================================================================
