------------------------- MODULE TaskExecutorProofs -------------------------
(***************************************************************************)
(* The safety of TaskExecutor, for any finite pool and any tasks: it is    *)
(* well typed, no task is ever queued behind a sentinel, stop_all leaves   *)
(* nothing behind, and it implements TaskPool.                             *)
(***************************************************************************)
EXTENDS TaskExecutor, FiniteSetTheorems, SequenceTheorems, TLAPS

(* Where stop_all stands: no sentinel before it, all of them after its     *)
(* first loop.                                                             *)
StopProgress ==
    /\ opc = "open" => sentinels = 0
    /\ opc = "stopping" => sentinels < ThreadCount
    /\ opc \in {"joining", "stopped"} => sentinels = ThreadCount
    /\ opc = "stopped" => AllJoined

(* A worker has a task exactly while it runs one, and exits only when the  *)
(* queue has nothing but sentinels.                                        *)
WorkersInStep ==
    /\ \A w \in Workers : task[w] # Null <=> wpc[w] = "running"
    /\ Exited # {} => Len(queue) = PendingSentinels

IInv == TypeOK /\ SentinelsLast /\ StopProgress /\ WorkersInStep

LEMMA ThreadCountIsPositive == ThreadCount \in Nat /\ ThreadCount > 0
<1>1. IsFiniteSet(Workers) /\ Workers # {}
  BY PoolAssumption
<1>2. Cardinality(Workers) \in Nat /\ Cardinality(Workers) # 0
  BY <1>1, FS_CardinalityType, FS_EmptySet
<1>3. QED
  BY <1>2 DEF ThreadCount

(* The number of workers that have exited, and what changes it.            *)
LEMMA ExitedCount ==
    ASSUME wpc \in [Workers -> {"waiting", "running", "exited"}]
    PROVE  /\ Exited \subseteq Workers /\ IsFiniteSet(Exited)
           /\ Cardinality(Exited) \in Nat
           /\ Cardinality(Exited) <= ThreadCount
           /\ Cardinality(Exited) = 0 <=> Exited = {}
           /\ Cardinality(Exited) = ThreadCount => Exited = Workers
<1>1. Exited \subseteq Workers /\ IsFiniteSet(Workers)
  BY PoolAssumption DEF Exited
<1>2. IsFiniteSet(Exited) /\ Cardinality(Exited) <= Cardinality(Workers)
  BY <1>1, FS_Subset
<1>3. Cardinality(Exited) = Cardinality(Workers) => Exited = Workers
  BY <1>1, FS_Subset
<1>4. Cardinality(Exited) \in Nat /\ (Cardinality(Exited) = 0 <=> Exited = {})
  BY <1>2, FS_CardinalityType, FS_EmptySet
<1>5. QED
  BY <1>1, <1>2, <1>3, <1>4 DEF ThreadCount

LEMMA OneMoreExited ==
    ASSUME NEW w \in Workers, wpc[w] = "waiting",
           wpc \in [Workers -> {"waiting", "running", "exited"}],
           wpc' = [wpc EXCEPT ![w] = "exited"]
    PROVE  Cardinality(Exited') = Cardinality(Exited) + 1
<1>1. Exited' = Exited \cup {w} /\ w \notin Exited
  BY DEF Exited
<1>2. QED
  BY <1>1, ExitedCount, FS_AddElement

LEMMA TypeInit == Init => TypeOK
<1> SUFFICES ASSUME Init PROVE TypeOK
  OBVIOUS
<1>1. queue \in Seq(Tasks \cup {Null})
  BY DEF Init
<1>2. sentinels \in 0..ThreadCount
  BY ThreadCountIsPositive DEF Init
<1>3. QED
  BY <1>1, <1>2 DEF Init, TypeOK

LEMMA TypeStep == TypeOK /\ StopProgress /\ [Next]_vars => TypeOK'
<1> SUFFICES ASSUME TypeOK, StopProgress, [Next]_vars PROVE TypeOK'
  OBVIOUS
<1> USE DEF TypeOK
<1>1. ASSUME NEW t \in Tasks, AddTask(t) PROVE TypeOK'
  BY <1>1 DEF AddTask
<1>2. CASE StopAll
  BY <1>2 DEF StopAll
<1>3. CASE PushSentinel
  <2>1. sentinels + 1 \in 0..ThreadCount
    BY <1>3, ThreadCountIsPositive DEF PushSentinel, StopProgress
  <2>2. Append(queue, Null) \in Seq(Tasks \cup {Null})
    OBVIOUS
  <2>3. QED
    BY <1>3, <2>1, <2>2 DEF PushSentinel
<1>4. CASE Join
  BY <1>4 DEF Join
<1>5. ASSUME NEW w \in Workers, Take(w) PROVE TypeOK'
  BY <1>5 DEF Take, AfterDequeue
<1>6. ASSUME NEW w \in Workers, TaskReturns(w) PROVE TypeOK'
  BY <1>6 DEF TaskReturns
<1>7. ASSUME NEW w \in Workers, TaskThrows(w) PROVE TypeOK'
  BY <1>7 DEF TaskThrows
<1>8. CASE UNCHANGED vars
  BY <1>8 DEF vars
<1>9. QED
  BY <1>1, <1>2, <1>3, <1>4, <1>5, <1>6, <1>7, <1>8 DEF Next

LEMMA IInvInit == Init => IInv
<1> SUFFICES ASSUME Init PROVE IInv
  OBVIOUS
<1>1. TypeOK
  BY TypeInit
<1>2. Exited = {} /\ Len(queue) = 0
  BY DEF Init, Exited
<1>3. PendingSentinels = 0
  BY <1>2, FS_EmptySet DEF Init, PendingSentinels
<1>4. SentinelsLast
  BY <1>2, <1>3 DEF SentinelsLast
<1>5. StopProgress
  BY DEF Init, StopProgress
<1>6. WorkersInStep
  BY <1>2 DEF Init, WorkersInStep
<1>7. QED
  BY <1>1, <1>4, <1>5, <1>6 DEF IInv

(* A task is added only before stop_all: no sentinel is queued, nobody has *)
(* exited.                                                                 *)
LEMMA AddTaskStep ==
    ASSUME IInv, NEW t \in Tasks, AddTask(t)
    PROVE  SentinelsLast' /\ StopProgress' /\ WorkersInStep'
<1> USE DEF IInv, TypeOK
<1>1. Exited' = Exited /\ PendingSentinels' = PendingSentinels
  BY DEF AddTask, Exited, PendingSentinels
<1>2. sentinels = 0 /\ Cardinality(Exited) \in Nat
  BY ExitedCount DEF AddTask, StopProgress
<1>3. PendingSentinels = 0 /\ Cardinality(Exited) = 0
  BY <1>2 DEF SentinelsLast, PendingSentinels
<1>4. Exited = {}
  BY <1>3, ExitedCount
<1>5. queue' = Append(queue, t) /\ t # Null
  BY PoolAssumption DEF AddTask
<1>6. \A i \in 1..Len(queue) : queue[i] # Null
  BY <1>3 DEF SentinelsLast
<1>7. \A i \in 1..Len(queue') : queue'[i] # Null
  BY <1>5, <1>6
<1>8. SentinelsLast'
  BY <1>1, <1>3, <1>5, <1>7 DEF SentinelsLast
<1>9. QED
  BY <1>1, <1>4, <1>8 DEF AddTask, StopProgress, WorkersInStep, AllJoined

LEMMA PushSentinelStep ==
    ASSUME IInv, PushSentinel
    PROVE  SentinelsLast' /\ StopProgress' /\ WorkersInStep'
<1> USE DEF IInv, TypeOK
<1>1. Exited' = Exited /\ Cardinality(Exited) \in Nat
  BY ExitedCount DEF PushSentinel, Exited
<1>2. PendingSentinels' = PendingSentinels + 1 /\ PendingSentinels \in Int
  BY <1>1 DEF PushSentinel, PendingSentinels
<1>3. queue' = Append(queue, Null) /\ Len(queue') = Len(queue) + 1
  BY DEF PushSentinel
<1>4. SentinelsLast'
  BY <1>2, <1>3 DEF SentinelsLast
<1>5. StopProgress'
  BY ThreadCountIsPositive DEF PushSentinel, LastSentinel, StopProgress, AllJoined, ThreadCount
<1>6. WorkersInStep'
  BY <1>1, <1>2, <1>3 DEF PushSentinel, WorkersInStep
<1>7. QED
  BY <1>4, <1>5, <1>6

(* A worker that takes a sentinel exits, and nothing but sentinels is left *)
(* behind the one it took.                                                 *)
LEMMA TakeStep ==
    ASSUME IInv, NEW w \in Workers, Take(w)
    PROVE  SentinelsLast' /\ StopProgress' /\ WorkersInStep'
<1> USE DEF IInv, TypeOK
<1> DEFINE n == Len(queue)
<1>1. n \in Nat /\ n > 0 /\ queue' = Tail(queue) /\ Len(queue') = n - 1
  BY DEF Take
<1>2. \A i \in 1..(n - 1) : queue'[i] = queue[i + 1]
  BY <1>1
<1>3. Head(queue) = queue[1]
  BY <1>1
<1>4. PendingSentinels \in Int /\ PendingSentinels >= 0 /\ PendingSentinels <= n
  BY <1>1 DEF SentinelsLast
<1>5. Head(queue) = Null <=> PendingSentinels = n
  BY <1>1, <1>3, <1>4 DEF SentinelsLast
<1>6. CASE Head(queue) = Null
  <2>1. wpc' = [wpc EXCEPT ![w] = "exited"] /\ task' = [task EXCEPT ![w] = Null]
    BY <1>6 DEF Take, AfterDequeue
  <2>2. Cardinality(Exited') = Cardinality(Exited) + 1 /\ Cardinality(Exited) \in Nat
    BY <2>1, OneMoreExited, ExitedCount DEF Take
  <2>3. PendingSentinels' = PendingSentinels - 1
    BY <2>2 DEF Take, PendingSentinels
  <2>4. SentinelsLast'
    BY <1>1, <1>2, <1>4, <1>5, <1>6, <2>3 DEF SentinelsLast
  <2>5. StopProgress'
    BY <2>1 DEF Take, StopProgress, AllJoined, ThreadCount
  <2>6. WorkersInStep'
    BY <1>1, <1>5, <1>6, <2>1, <2>3 DEF Take, WorkersInStep
  <2>7. QED
    BY <2>4, <2>5, <2>6
<1>7. CASE Head(queue) # Null
  <2>1. wpc' = [wpc EXCEPT ![w] = "running"] /\ task' = [task EXCEPT ![w] = Head(queue)]
    BY <1>7 DEF Take, AfterDequeue
  <2>2. Exited' = Exited
    BY <2>1 DEF Take, Exited
  <2>3. PendingSentinels' = PendingSentinels
    BY <2>2 DEF Take, PendingSentinels
  <2>4. SentinelsLast'
    BY <1>1, <1>2, <1>4, <1>5, <1>7, <2>3 DEF SentinelsLast
  <2>5. StopProgress'
    BY <2>1 DEF Take, StopProgress, AllJoined, ThreadCount
  <2>6. Exited = {}
    BY <1>5, <1>7 DEF WorkersInStep
  <2>7. WorkersInStep'
    BY <1>7, <2>1, <2>2, <2>6 DEF Take, WorkersInStep
  <2>8. QED
    BY <2>4, <2>5, <2>7
<1>8. QED
  BY <1>6, <1>7

LEMMA IInvStep == IInv /\ [Next]_vars => IInv'
<1> SUFFICES ASSUME IInv, [Next]_vars
             PROVE  SentinelsLast' /\ StopProgress' /\ WorkersInStep'
  BY TypeStep DEF IInv
<1> USE DEF IInv, TypeOK
<1>1. ASSUME NEW t \in Tasks, AddTask(t)
      PROVE  SentinelsLast' /\ StopProgress' /\ WorkersInStep'
  BY <1>1, AddTaskStep
<1>2. CASE StopAll
  BY <1>2, ThreadCountIsPositive
     DEF StopAll, SentinelsLast, StopProgress, WorkersInStep, PendingSentinels,
         Exited, AllJoined, ThreadCount
<1>3. CASE PushSentinel
  BY <1>3, PushSentinelStep
<1>4. CASE Join
  BY <1>4 DEF Join, SentinelsLast, StopProgress, WorkersInStep, PendingSentinels,
              Exited, AllJoined, ThreadCount
<1>5. ASSUME NEW w \in Workers, Take(w)
      PROVE  SentinelsLast' /\ StopProgress' /\ WorkersInStep'
  BY <1>5, TakeStep
<1>6. ASSUME NEW w \in Workers, TaskReturns(w)
      PROVE  SentinelsLast' /\ StopProgress' /\ WorkersInStep'
  <2>1. Exited' = Exited
    BY <1>6 DEF TaskReturns, Exited
  <2>2. PendingSentinels' = PendingSentinels
    BY <1>6, <2>1 DEF TaskReturns, PendingSentinels
  <2>3. QED
    BY <1>6, <2>1, <2>2
       DEF TaskReturns, SentinelsLast, StopProgress, WorkersInStep, AllJoined,
           ThreadCount
<1>7. ASSUME NEW w \in Workers, TaskThrows(w)
      PROVE  SentinelsLast' /\ StopProgress' /\ WorkersInStep'
  BY <1>7 DEF TaskThrows, SentinelsLast, StopProgress, WorkersInStep,
              PendingSentinels, Exited, AllJoined, ThreadCount
<1>8. CASE UNCHANGED vars
  BY <1>8 DEF vars, SentinelsLast, StopProgress, WorkersInStep,
              PendingSentinels, Exited, AllJoined, ThreadCount
<1>9. QED
  BY <1>1, <1>2, <1>3, <1>4, <1>5, <1>6, <1>7, <1>8 DEF Next

LEMMA Invariance == Safety => []IInv
BY IInvInit, IInvStep, PTL DEF Safety

(* The executor stays well typed; in particular stop_all pushes no more    *)
(* sentinels than there are workers.                                       *)
THEOREM TypeCorrect == Safety => []TypeOK
<1>1. IInv => TypeOK
  BY DEF IInv
<1>2. QED
  BY <1>1, Invariance, PTL

(* However adding, stopping and taking interleave, the queue is always     *)
(* tasks first and sentinels after them, and no worker has exited while a  *)
(* task was queued.                                                        *)
THEOREM TasksBeforeSentinels == Safety => []SentinelsLast
<1>1. IInv => SentinelsLast
  BY DEF IInv
<1>2. QED
  BY <1>1, Invariance, PTL

LEMMA IInvNothingLeft == IInv => NothingLeftBehind
<1> SUFFICES ASSUME IInv, opc = "stopped"
             PROVE  queue = <<>> /\ \A w \in Workers : wpc[w] = "exited"
  BY DEF NothingLeftBehind
<1> USE DEF IInv, TypeOK
<1>1. AllJoined /\ sentinels = ThreadCount
  BY DEF StopProgress
<1>2. Exited = Workers
  BY <1>1 DEF Exited, AllJoined
<1>3. PendingSentinels = 0 /\ Exited # {}
  BY <1>1, <1>2, ThreadCountIsPositive, PoolAssumption DEF PendingSentinels, ThreadCount
<1>4. Len(queue) = 0
  BY <1>3 DEF WorkersInStep
<1>5. QED
  BY <1>1, <1>4 DEF AllJoined

(* When stop_all has returned, no task is queued or running and no         *)
(* sentinel is left over.                                                  *)
THEOREM StopLeavesNothing == Safety => []NothingLeftBehind
BY IInvNothingLeft, Invariance, PTL
-----------------------------------------------------------------------------
(* The first n elements of a sequence, after an Append or a Tail.          *)
LEMMA FrontOfAppend ==
    ASSUME NEW S, NEW s \in Seq(S), NEW x \in S, NEW n \in 0..Len(s)
    PROVE  SubSeq(Append(s, x), 1, n) = SubSeq(s, 1, n)
<1>1. Append(s, x) \in Seq(S) /\ Len(Append(s, x)) = Len(s) + 1
  OBVIOUS
<1>2. \A i \in 1..n : Append(s, x)[i] = s[i] /\ s[i] \in S
  OBVIOUS
<1>3. /\ SubSeq(s, 1, n) \in Seq(S) /\ Len(SubSeq(s, 1, n)) = n
      /\ \A i \in 1..n : SubSeq(s, 1, n)[i] = s[i]
  BY <1>2, SubSeqProperties
<1>4. /\ SubSeq(Append(s, x), 1, n) \in Seq(S)
      /\ Len(SubSeq(Append(s, x), 1, n)) = n
      /\ \A i \in 1..n : SubSeq(Append(s, x), 1, n)[i] = s[i]
  BY <1>2, SubSeqProperties
<1>5. QED
  BY <1>3, <1>4, SeqEqual

LEMMA FrontOfTail ==
    ASSUME NEW S, NEW s \in Seq(S), NEW n \in 1..Len(s)
    PROVE  /\ SubSeq(s, 1, n) # <<>>
           /\ Head(SubSeq(s, 1, n)) = Head(s)
           /\ Tail(SubSeq(s, 1, n)) = SubSeq(Tail(s), 1, n - 1)
<1>1. 1 \in 1..Len(s) /\ s # <<>> /\ Head(s) = s[1]
  OBVIOUS
<1>2. Head(SubSeq(s, 1, n)) = s[1] /\ Tail(SubSeq(s, 1, n)) = SubSeq(s, 2, n)
  BY <1>1, HeadTailOfSubSeq
<1>3. SubSeq(s, 1, n) \in Seq(S) /\ Len(SubSeq(s, 1, n)) = n
  BY SubSeqProperties
<1>4. /\ SubSeq(s, 2, n) \in Seq(S) /\ Len(SubSeq(s, 2, n)) = n - 1
      /\ \A i \in 1..(n - 1) : SubSeq(s, 2, n)[i] = s[i + 1]
  <2>1. \A i \in 2..n : s[i] \in S
    OBVIOUS
  <2>2. QED
    BY <2>1, SubSeqProperties
<1>5. /\ SubSeq(Tail(s), 1, n - 1) \in Seq(S)
      /\ Len(SubSeq(Tail(s), 1, n - 1)) = n - 1
      /\ \A i \in 1..(n - 1) : SubSeq(Tail(s), 1, n - 1)[i] = s[i + 1]
  <2>1. \A i \in 1..(n - 1) : Tail(s)[i] = s[i + 1] /\ Tail(s)[i] \in S
    BY <1>1, HeadTailProperties
  <2>2. QED
    BY <2>1, SubSeqProperties
<1>6. SubSeq(s, 2, n) = SubSeq(Tail(s), 1, n - 1)
  BY <1>4, <1>5, SeqEqual
<1>7. QED
  BY <1>1, <1>2, <1>3, <1>6

(* The tasks ahead of the sentinels: what waits in the abstract pool.      *)
Ahead == SubSeq(queue, 1, Len(queue) - PendingSentinels)

LEMMA PoolInit == Init => Pool!Init
<1> SUFFICES ASSUME Init PROVE Pool!Init
  OBVIOUS
<1>1. Len(queue) = 0 /\ PendingSentinels \in 0..Len(queue)
  BY IInvInit DEF Init, IInv, SentinelsLast
<1>2. Ahead = <<>>
  BY <1>1, SubSeqEmpty DEF Ahead
<1>3. QED
  BY <1>2 DEF Init, Pool!Init, Ahead

LEMMA PoolAdd ==
    ASSUME IInv, NEW t \in Tasks, AddTask(t)
    PROVE  Pool!Submit(t)
<1>1. Exited' = Exited /\ PendingSentinels' = PendingSentinels
  BY DEF AddTask, Exited, PendingSentinels
<1>2. sentinels = 0 /\ Cardinality(Exited) \in Nat
  BY ExitedCount DEF IInv, TypeOK, AddTask, StopProgress
<1>3. PendingSentinels = 0
  BY <1>2 DEF IInv, TypeOK, SentinelsLast, PendingSentinels
<1>4. queue \in Seq(Tasks \cup {Null}) /\ queue' \in Seq(Tasks \cup {Null})
  BY DEF IInv, TypeOK, AddTask
<1>5. Ahead = queue /\ Ahead' = queue'
  BY <1>1, <1>3, <1>4, SubSeqFull DEF Ahead
<1>6. Ahead' = Append(Ahead, t)
  BY <1>5 DEF AddTask
<1>7. QED
  BY <1>6 DEF AddTask, Pool!Submit, Ahead

LEMMA PoolSentinel ==
    ASSUME IInv, PushSentinel
    PROVE  UNCHANGED Pool!vars
<1>1. Exited' = Exited /\ Cardinality(Exited) \in Nat
  BY ExitedCount DEF IInv, TypeOK, PushSentinel, Exited
<1>2. PendingSentinels' = PendingSentinels + 1
  BY <1>1 DEF IInv, TypeOK, PushSentinel, PendingSentinels
<1>3. queue \in Seq(Tasks \cup {Null}) /\ Len(queue) \in Nat
  BY DEF IInv, TypeOK
<1>4. queue' = Append(queue, Null) /\ Len(queue') = Len(queue) + 1
  BY <1>3 DEF PushSentinel
<1>5. PendingSentinels \in 0..Len(queue)
  BY DEF IInv, SentinelsLast
<1>6. /\ Len(queue') - PendingSentinels' = Len(queue) - PendingSentinels
      /\ Len(queue) - PendingSentinels \in 0..Len(queue)
  BY <1>2, <1>3, <1>4, <1>5
<1>7. Ahead' = Ahead
  BY <1>3, <1>4, <1>6, FrontOfAppend DEF Ahead
<1>8. (opc = "stopped")' = (opc = "stopped")
  BY DEF PushSentinel
<1>9. QED
  BY <1>7, <1>8 DEF PushSentinel, Pool!vars, Ahead

LEMMA PoolTake ==
    ASSUME IInv, NEW w \in Workers, Take(w)
    PROVE  Pool!Start(w) \/ UNCHANGED Pool!vars
<1> USE DEF IInv, TypeOK
<1> DEFINE n == Len(queue)
<1>1. n \in Nat /\ n > 0 /\ queue' = Tail(queue) /\ Len(queue') = n - 1
  BY DEF Take
<1>2. PendingSentinels \in Int /\ PendingSentinels >= 0 /\ PendingSentinels <= n
  BY <1>1 DEF SentinelsLast
<1>3. Head(queue) = Null <=> PendingSentinels = n
  BY <1>1, <1>2 DEF SentinelsLast
<1>4. task[w] = Null
  BY DEF Take, WorkersInStep
<1>5. CASE Head(queue) = Null
  <2>1. wpc' = [wpc EXCEPT ![w] = "exited"] /\ task' = task
    BY <1>4, <1>5 DEF Take, AfterDequeue
  <2>2. Cardinality(Exited') = Cardinality(Exited) + 1 /\ Cardinality(Exited) \in Nat
    BY <2>1, OneMoreExited, ExitedCount DEF Take
  <2>3. PendingSentinels' = n - 1
    BY <1>3, <1>5, <2>2 DEF Take, PendingSentinels
  <2>4. Ahead = <<>> /\ Ahead' = <<>>
    BY <1>1, <1>3, <1>5, <2>3, SubSeqEmpty DEF Ahead
  <2>5. QED
    BY <2>1, <2>4 DEF Take, Pool!vars, Ahead
<1>6. CASE Head(queue) # Null
  <2>1. wpc' = [wpc EXCEPT ![w] = "running"]
    BY <1>6 DEF Take, AfterDequeue
  <2>2. PendingSentinels' = PendingSentinels
    BY <2>1 DEF Take, PendingSentinels, Exited
  <2>3. n - PendingSentinels \in 1..n
    BY <1>1, <1>2, <1>3, <1>6
  <2>4. Ahead # <<>> /\ Head(Ahead) = Head(queue) /\ Tail(Ahead) = Ahead'
    <3>1. Ahead' = SubSeq(Tail(queue), 1, (n - PendingSentinels) - 1)
      BY <1>1, <1>2, <2>2 DEF Ahead
    <3>2. QED
      BY <2>3, <3>1, FrontOfTail DEF Ahead
  <2>5. QED
    BY <1>4, <2>4 DEF Take, Pool!Start, Ahead
<1>7. QED
  BY <1>5, <1>6

LEMMA PoolStop ==
    ASSUME IInv, Join
    PROVE  Pool!Stop
<1> USE DEF IInv, TypeOK
<1>1. AllJoined /\ sentinels = ThreadCount
  BY DEF Join, StopProgress
<1>2. Exited = Workers
  BY <1>1 DEF Exited, AllJoined
<1>3. PendingSentinels = 0 /\ Exited # {}
  BY <1>1, <1>2, ThreadCountIsPositive, PoolAssumption DEF PendingSentinels, ThreadCount
<1>4. queue = <<>> /\ Len(queue) = 0
  BY <1>3 DEF WorkersInStep
<1>5. Ahead = <<>> /\ Ahead' = <<>>
  <2>1. Ahead = <<>>
    BY <1>3, <1>4, SubSeqEmpty DEF Ahead
  <2>2. Ahead' = Ahead
    BY DEF Join, Ahead, PendingSentinels, Exited
  <2>3. QED
    BY <2>1, <2>2
<1>6. \A w \in Workers : task[w] = Null
  BY <1>1 DEF WorkersInStep, AllJoined
<1>7. QED
  BY <1>5, <1>6 DEF Join, Pool!Stop, Ahead

LEMMA PoolStep == IInv /\ [Next]_vars => [Pool!Next]_(Pool!vars)
<1> SUFFICES ASSUME IInv, [Next]_vars PROVE [Pool!Next]_(Pool!vars)
  OBVIOUS
<1> USE DEF Pool!Next
<1>1. ASSUME NEW t \in Tasks, AddTask(t) PROVE Pool!Submit(t)
  BY <1>1, PoolAdd
<1>2. ASSUME StopAll PROVE UNCHANGED Pool!vars
  BY <1>2 DEF StopAll, Pool!vars, PendingSentinels, Exited
<1>3. ASSUME PushSentinel PROVE UNCHANGED Pool!vars
  BY <1>3, PoolSentinel
<1>4. ASSUME Join PROVE Pool!Stop
  BY <1>4, PoolStop
<1>5. ASSUME NEW w \in Workers, Take(w)
      PROVE  Pool!Start(w) \/ UNCHANGED Pool!vars
  BY <1>5, PoolTake
<1>6. ASSUME NEW w \in Workers, TaskReturns(w) PROVE Pool!Finish(w)
  <2>1. PendingSentinels' = PendingSentinels
    BY <1>6 DEF TaskReturns, PendingSentinels, Exited, IInv, TypeOK
  <2>2. task[w] # Null
    BY <1>6 DEF TaskReturns, IInv, WorkersInStep
  <2>3. QED
    BY <1>6, <2>1, <2>2 DEF TaskReturns, Pool!Finish
<1>7. ASSUME NEW w \in Workers, TaskThrows(w) PROVE Pool!Abort
  <2>1. task[w] # Null
    BY <1>7 DEF TaskThrows, IInv, WorkersInStep
  <2>2. QED
    BY <1>7, <2>1 DEF TaskThrows, Pool!Abort, PendingSentinels, Exited
<1>8. ASSUME UNCHANGED vars PROVE UNCHANGED Pool!vars
  BY <1>8 DEF vars, Pool!vars, PendingSentinels, Exited
<1>9. QED
  BY <1>1, <1>2, <1>3, <1>4, <1>5, <1>6, <1>7, <1>8 DEF Next

(* Every step of the executor is a step of the abstract pool or changes    *)
(* nothing of it (the safety half of ImplementsPool).                      *)
THEOREM RefinesPool == Safety => Pool!Safety
BY PoolInit, PoolStep, Invariance, PTL DEF Safety, Pool!Safety
=============================================================================
