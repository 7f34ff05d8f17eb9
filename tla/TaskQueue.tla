------------------------------ MODULE TaskQueue ------------------------------
(***************************************************************************)
(* moodycamel::BlockingConcurrentQueue as the task executor uses it: one   *)
(* thread enqueues, the workers call wait_dequeue.  A lightweight          *)
(* semaphore counts the items and puts consumers to sleep; the producer's  *)
(* sub-queue hands out indices, and its blocks of slots are recycled.      *)
(*                                                                         *)
(* Every load and store of the indices and of the semaphore is a step of   *)
(* its own, and steps are sequentially consistent; only the counting back  *)
(* of Claim, which is not reached, is in one step with the load before it. *)
(* A block's entry in the block index is read, and given up, in the step   *)
(* that uses it or gives the block back.  Items are numbered in the order  *)
(* in which they are enqueued, from 1; indices grow without wrapping       *)
(* round, their width being 64 bits.  The block index is a map, whose      *)
(* array and growth are left out, and the free list is a set.              *)
(***************************************************************************)
EXTENDS Integers, Sequences, FiniteSets

CONSTANTS Consumers,
          Blocks,       \* memory for blocks, a model bound
          Pool,         \* those of initialBlockPool
          BlockSize,    \* BLOCK_SIZE
          MaxItems,     \* model bound
          None          \* no block

ASSUME QueueAssumption ==
    /\ Pool \subseteq Blocks
    /\ None \notin Blocks
    /\ BlockSize \in Nat \ {0} /\ MaxItems \in Nat
    /\ IsFiniteSet(Consumers) /\ IsFiniteSet(Blocks)

VARIABLES tailIndex, headIndex, dequeueOptimisticCount, dequeueOvercommit,
          count,     \* m_count
          sema,      \* m_sema
          blockOf,   \* blockIndex: the block that begins at an index, or None
          slots,     \* slots[b]: its elements, 0 for one that is destroyed
          dequeued,  \* dequeued[b]: its elementsCompletelyDequeued
          pool,      \* blocks of initialBlockPool not handed out yet
          freeList,
          heap,      \* blocks that are not allocated
          ppc,       \* the producer, see ProducerSteps
          cpc,       \* cpc[c]: see ConsumerSteps
          loaded,    \* loaded[c]: the tailIndex a look of c has read, 0 when it is not
                     \* needed any more
          seen,      \* seen[c]: the overcommit that c has loaded
          mine,      \* mine[c]: myDequeueCount
          index,     \* index[c]: the index c has been given
          item,      \* item[c]: what it has moved out, 0 before
          began      \* history, began[c]: dequeueOptimisticCount when a look of
                     \* c began, 0 outside of one

memory == <<blockOf, slots, dequeued, pool, freeList, heap>>
indices == <<tailIndex, headIndex, dequeueOptimisticCount, dequeueOvercommit>>
semaphore == <<count, sema>>
locals == <<loaded, seen, mine, index, item, began>>
vars == <<indices, semaphore, memory, ppc, cpc, locals>>

(* Outside enqueue(); with room in tailBlock; the slot written; tailIndex  *)
(* stored; and m_count found negative.                                     *)
ProducerSteps == {"idle", "write", "publish", "signal", "post"}

(* In sema->wait(); in m_sema.wait(); then in try_dequeue: before the two  *)
(* loads of size_approx; in dequeue, before its loads of tailIndex, of     *)
(* dequeueOvercommit and of dequeueOptimisticCount, before the first       *)
(* fetch_add, before the second check, before the fetch_add of headIndex,  *)
(* before the element, before set_empty, before the block is given back;   *)
(* and with the item, outside wait_dequeue.                                *)
Looks == {"look", "size", "tail", "overcommit", "compare"}
ConsumerSteps == Looks \cup {"wait", "asleep", "count", "claim", "take", "read",
                             "empty", "release", "busy"}

Base(i) == i - (i % BlockSize)
Bases == {i \in 0..MaxItems : i % BlockSize = 0}

TypeOK ==
    /\ {tailIndex, headIndex, dequeueOptimisticCount, dequeueOvercommit, sema} \subseteq Nat
    /\ count \in Int
    /\ blockOf \in [Bases -> Blocks \cup {None}]
    /\ slots \in [Blocks -> [0..(BlockSize - 1) -> 0..MaxItems]]
    /\ dequeued \in [Blocks -> 0..BlockSize]
    /\ pool \subseteq Pool /\ freeList \subseteq Pool
    /\ heap \subseteq Blocks \ Pool
    /\ ppc \in ProducerSteps
    /\ cpc \in [Consumers -> ConsumerSteps]
    /\ {loaded, seen, mine, index, began} \subseteq [Consumers -> Nat]
    /\ item \in [Consumers -> 0..MaxItems]

Init ==
    /\ tailIndex = 0 /\ headIndex = 0
    /\ dequeueOptimisticCount = 0 /\ dequeueOvercommit = 0
    /\ count = 0 /\ sema = 0
    /\ blockOf = [i \in Bases |-> None]
    /\ slots = [b \in Blocks |-> [s \in 0..(BlockSize - 1) |-> 0]]
    /\ dequeued = [b \in Blocks |-> 0]
    /\ pool = Pool /\ freeList = {} /\ heap = Blocks \ Pool
    /\ ppc = "idle"
    /\ cpc = [c \in Consumers |-> "wait"]
    /\ seen = [c \in Consumers |-> 0]
    /\ loaded = seen /\ mine = seen /\ index = seen /\ item = seen /\ began = seen
-----------------------------------------------------------------------------
(* The producer: ImplicitProducer::enqueue, then LightweightSemaphore      *)
(* ::signal.                                                               *)

(* requisition_block: from the pool, from the free list, or allocated;     *)
(* try_get can miss a block that is just being added.                      *)
Requisition(b) ==
    \/ b \in pool /\ pool' = pool \ {b} /\ UNCHANGED <<freeList, heap>>
    \/ pool = {} /\ b \in freeList /\ freeList' = freeList \ {b} /\ UNCHANGED <<pool, heap>>
    \/ pool = {} /\ b \in heap /\ heap' = heap \ {b} /\ UNCHANGED <<pool, freeList>>

(* reset_empty.                                                            *)
CountKept(n) == n
CountReset(n) == 0

StartBlock ==
    /\ ppc = "idle" /\ tailIndex < MaxItems
    /\ tailIndex % BlockSize = 0
    /\ \E b \in Blocks :
          /\ Requisition(b)
          /\ dequeued' = [dequeued EXCEPT ![b] = CountReset(@)]
          /\ blockOf' = [blockOf EXCEPT ![tailIndex] = b]
    /\ ppc' = "write"
    /\ UNCHANGED <<indices, semaphore, slots, cpc, locals>>

WriteSlot ==
    /\ \/ ppc = "write"
       \/ ppc = "idle" /\ tailIndex < MaxItems /\ tailIndex % BlockSize # 0
    /\ slots' = [slots EXCEPT ![blockOf[Base(tailIndex)]][tailIndex % BlockSize] = tailIndex + 1]
    /\ ppc' = "publish"
    /\ UNCHANGED <<indices, semaphore, blockOf, dequeued, pool, freeList, heap, cpc, locals>>

Publish ==
    /\ ppc = "publish"
    /\ tailIndex' = tailIndex + 1
    /\ ppc' = "signal"
    /\ UNCHANGED <<headIndex, dequeueOptimisticCount, dequeueOvercommit, semaphore,
                   memory, cpc, locals>>

MustPostLate(oldCount) == oldCount < -1
MustPost(oldCount) == oldCount < 0

Signal ==
    /\ ppc = "signal"
    /\ count' = count + 1
    /\ ppc' = IF MustPost(count) THEN "post" ELSE "idle"
    /\ UNCHANGED <<indices, sema, memory, cpc, locals>>

Post ==
    /\ ppc = "post"
    /\ sema' = sema + 1
    /\ ppc' = "idle"
    /\ UNCHANGED <<indices, count, memory, cpc, locals>>

Producer == StartBlock \/ WriteSlot \/ Publish \/ Signal \/ Post
-----------------------------------------------------------------------------
(* A consumer: LightweightSemaphore::wait, then ImplicitProducer::dequeue. *)

Go(c, step) == cpc' = [cpc EXCEPT ![c] = step]

(* tryWait, and the spinning of waitWithPartialSpinning.                   *)
TryWait(c) ==
    /\ cpc[c] = "wait"
    /\ count > 0
    /\ count' = count - 1
    /\ Go(c, "look")
    /\ UNCHANGED <<indices, sema, memory, ppc, locals>>

(* It has spun long enough.                                                *)
PassesAtZero(oldCount) == oldCount >= 0
Passes(oldCount) == oldCount > 0

StopSpinning(c) ==
    /\ cpc[c] = "wait"
    /\ count' = count - 1
    /\ Go(c, IF Passes(count) THEN "look" ELSE "asleep")
    /\ UNCHANGED <<indices, sema, memory, ppc, locals>>

WakeUp(c) ==
    /\ cpc[c] = "asleep"
    /\ sema > 0
    /\ sema' = sema - 1
    /\ Go(c, "look")
    /\ UNCHANGED <<indices, count, memory, ppc, locals>>

(* size_approx: try_dequeue gives up if the sub-queue, the only one,       *)
(* looks empty, and wait_dequeue calls it again.                           *)
LoadTail(c) ==
    /\ cpc[c] = "look"
    /\ loaded' = [loaded EXCEPT ![c] = tailIndex]
    /\ began' = [began EXCEPT ![c] = dequeueOptimisticCount]
    /\ Go(c, "size")
    /\ UNCHANGED <<indices, semaphore, memory, ppc, seen, mine, index, item>>

(* The look fails, and the next begins.                                    *)
LookAgain(c) ==
    /\ Go(c, "look")
    /\ loaded' = [loaded EXCEPT ![c] = 0]
    /\ began' = [began EXCEPT ![c] = 0]

HasTwo(first, end) == first + 1 < end
HasSome(first, end) == first < end

LoadHead(c) ==
    /\ cpc[c] = "size"
    /\ IF HasSome(headIndex, loaded[c])
          THEN Go(c, "tail") /\ loaded' = [loaded EXCEPT ![c] = 0] /\ UNCHANGED began
          ELSE LookAgain(c)
    /\ UNCHANGED <<indices, semaphore, memory, ppc, seen, mine, index, item>>

(* dequeue goes on if not everything in the sub-queue is spoken for.       *)
LoadTailAgain(c) ==
    /\ cpc[c] = "tail"
    /\ loaded' = [loaded EXCEPT ![c] = tailIndex]
    /\ Go(c, "overcommit")
    /\ UNCHANGED <<indices, semaphore, memory, ppc, seen, mine, index, item, began>>

LoadOvercommit(c) ==
    /\ cpc[c] = "overcommit"
    /\ seen' = [seen EXCEPT ![c] = dequeueOvercommit]
    /\ Go(c, "compare")
    /\ UNCHANGED <<indices, semaphore, memory, ppc, loaded, mine, index, item, began>>

Compare(c) ==
    /\ cpc[c] = "compare"
    /\ IF dequeueOptimisticCount - seen[c] < loaded[c]
          THEN /\ Go(c, "count")
               /\ loaded' = [loaded EXCEPT ![c] = 0] /\ began' = [began EXCEPT ![c] = 0]
          ELSE LookAgain(c)
    /\ UNCHANGED <<indices, semaphore, memory, ppc, seen, mine, index, item>>

Look(c) ==
    LoadTail(c) \/ LoadHead(c) \/ LoadTailAgain(c) \/ LoadOvercommit(c) \/ Compare(c)

Count(c) ==
    /\ cpc[c] = "count"
    /\ mine' = [mine EXCEPT ![c] = dequeueOptimisticCount]
    /\ dequeueOptimisticCount' = dequeueOptimisticCount + 1
    /\ Go(c, "claim")
    /\ UNCHANGED <<tailIndex, headIndex, dequeueOvercommit, semaphore, memory, ppc,
                   loaded, seen, index, item, began>>

Claim(c) ==
    /\ cpc[c] = "claim"
    /\ IF mine[c] - seen[c] < tailIndex
          THEN Go(c, "take") /\ UNCHANGED dequeueOvercommit
          ELSE Go(c, "look") /\ dequeueOvercommit' = dequeueOvercommit + 1
    /\ UNCHANGED <<tailIndex, headIndex, dequeueOptimisticCount, semaphore, memory, ppc,
                   locals>>

Take(c) ==
    /\ cpc[c] = "take"
    /\ index' = [index EXCEPT ![c] = headIndex]
    /\ headIndex' = headIndex + 1
    /\ Go(c, "read")
    /\ UNCHANGED <<tailIndex, dequeueOptimisticCount, dequeueOvercommit, semaphore,
                   memory, ppc, loaded, seen, mine, item, began>>

(* get_block_index_entry_for_index, and the move of the element.           *)
BlockFor(c) == blockOf[Base(index[c])]
Slot(c) == index[c] % BlockSize

Read(c) ==
    /\ cpc[c] = "read"
    /\ item' = [item EXCEPT ![c] = slots[BlockFor(c)][Slot(c)]]
    /\ slots' = [slots EXCEPT ![BlockFor(c)][Slot(c)] = 0]
    /\ Go(c, "empty")
    /\ UNCHANGED <<indices, semaphore, blockOf, dequeued, pool, freeList, heap, ppc,
                   loaded, seen, mine, index, began>>

(* set_empty: the one that counts the last element gives the block back.   *)
IsNextToLast(n) == n = BlockSize - 2
IsLast(n) == n = BlockSize - 1

SetEmpty(c) ==
    /\ cpc[c] = "empty"
    /\ dequeued' = [dequeued EXCEPT ![BlockFor(c)] = @ + 1]
    /\ Go(c, IF IsLast(dequeued[BlockFor(c)]) THEN "release" ELSE "busy")
    /\ UNCHANGED <<indices, semaphore, blockOf, slots, pool, freeList, heap, ppc, locals>>

(* A block that was allocated is destroyed, one of the pool kept.          *)
Release(c) ==
    /\ cpc[c] = "release"
    /\ blockOf' = [blockOf EXCEPT ![Base(index[c])] = None]
    /\ IF BlockFor(c) \in Pool
          THEN freeList' = freeList \cup {BlockFor(c)} /\ UNCHANGED heap
          ELSE heap' = heap \cup {BlockFor(c)} /\ UNCHANGED freeList
    /\ Go(c, "busy")
    /\ UNCHANGED <<indices, semaphore, slots, dequeued, pool, ppc, locals>>

(* The worker has run the task and comes for the next.                     *)
ComeBack(c) ==
    /\ cpc[c] = "busy"
    /\ Go(c, "wait")
    /\ item' = [item EXCEPT ![c] = 0]
    /\ UNCHANGED <<indices, semaphore, memory, ppc, loaded, seen, mine, index, began>>

Consumer(c) ==
    \/ TryWait(c) \/ StopSpinning(c) \/ WakeUp(c) \/ Look(c) \/ Count(c) \/ Claim(c)
    \/ Take(c) \/ Read(c) \/ SetEmpty(c) \/ Release(c) \/ ComeBack(c)
-----------------------------------------------------------------------------
Next == Producer \/ \E c \in Consumers : Consumer(c)

Safety == Init /\ [][Next]_vars

(* Every thread runs.  An enqueue() that has begun is completed; nothing   *)
(* has to be enqueued.                                                     *)
Fairness == /\ WF_vars(ppc # "idle" /\ Producer)
            /\ \A c \in Consumers : WF_vars(Consumer(c))

Spec == Safety /\ Fairness
-----------------------------------------------------------------------------
(* Consumers that have passed the semaphore and have no index yet.         *)
Holders == {c \in Consumers : cpc[c] \in Looks \cup {"count", "claim", "take"}}
Sleepers == {c \in Consumers : cpc[c] = "asleep"}

(* The semaphore counts the items: those that nobody has taken are those   *)
(* of its holders and of m_count, where every sleeper is owed one.  And a  *)
(* consumer sleeps only for m_count: as many as it is below zero, and      *)
(* those that have been posted and not woken up.  No wakeup is lost, and   *)
(* none is left for a consumer that does not sleep                         *)
(* (lightweightsemaphore.h:290-304, 421-430, blockingconcurrentqueue.h:    *)
(* 137-144, 365-373).                                                      *)
TokensAreItems ==
    tailIndex - headIndex
      = count + Cardinality(Holders) + Cardinality(Sleepers)
        + (IF ppc = "signal" THEN 1 ELSE 0)

SleepersAreCounted ==
    Cardinality(Sleepers)
      = sema + (IF ppc = "post" THEN 1 ELSE 0) + (IF count < 0 THEN -count ELSE 0)

SemaphoreBalances == TokensAreItems /\ SleepersAreCounted

(* So there is an item for a consumer that has passed the semaphore for as *)
(* long as it has none, and once it has counted itself in it never has to  *)
(* take that back (blockingconcurrentqueue.h:370-372, concurrentqueue.h:   *)
(* 2574-2582, 2633-2635).                                                  *)
TokenIsAnItem ==
    \A c \in Consumers :
        /\ c \in Holders => headIndex < tailIndex
        /\ cpc[c] = "claim" => mine[c] - seen[c] < tailIndex

(* Its look may fail all the same: what it compares has been loaded one    *)
(* after the other, and others move the indices in between.  But a look    *)
(* fails only when another consumer has counted itself in since it began:  *)
(* the loop of wait_dequeue turns only while somebody else gets on         *)
(* (concurrentqueue.h:1757-1762, 2574-2576, blockingconcurrentqueue.h:     *)
(* 370-372).                                                               *)
LookFails(c) == cpc[c] \in Looks \ {"look"} /\ cpc'[c] = "look"

TurnsOnlyForOthers ==
    [][\A c \in Consumers : LookFails(c) => began[c] < dequeueOptimisticCount]_vars

(* A block is in one place, and handed out again only after every element  *)
(* has been moved out: who has an index finds its element                  *)
(* (concurrentqueue.h:2507-2568, 2584-2628, 3087-3134).                    *)
Used == {i \in Bases : blockOf[i] # None}
Holds(i) == blockOf[Base(i)] # None /\ slots[blockOf[Base(i)]][i % BlockSize] = i + 1

InOnePlace(b) ==
    LET spare == {n \in 1..3 : b \in <<pool, freeList, heap>>[n]}
        used == {i \in Used : blockOf[i] = b}
    IN  Cardinality(spare) + Cardinality(used) = 1

BlockIsKept ==
    /\ \A b \in Blocks : InOnePlace(b)
    /\ \A i \in headIndex..(tailIndex - 1) : Holds(i)
    /\ \A c \in Consumers : /\ cpc[c] = "read" => Holds(index[c])
                            /\ cpc[c] \in {"empty", "release"} => Base(index[c]) \in Used

(* To those who use it, it is a FIFO queue: an enqueue() happens when      *)
(* tailIndex is stored, a wait_dequeue() when headIndex is advanced, and   *)
(* what it returns is what was enqueued at that index; while there are     *)
(* items and a consumer waits, one gets its item (MPMCTaskExecutor.hpp:55, *)
(* 79).                                                                    *)
Fifo ==
    INSTANCE FifoQueue
        WITH queue <- [n \in 1..(tailIndex - headIndex) |-> headIndex + n],
             held <- [c \in Consumers |-> IF cpc[c] = "read" THEN index[c] + 1 ELSE item[c]]

ImplementsFifo == Fifo!Spec
=============================================================================
