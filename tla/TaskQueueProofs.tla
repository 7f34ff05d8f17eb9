--------------------------- MODULE TaskQueueProofs ---------------------------
(***************************************************************************)
(* Proofs for TaskQueue, for any consumers, blocks, block size and number  *)
(* of items: its type invariant, that the semaphore counts the items, that *)
(* the loop of wait_dequeue turns only when another consumer has counted   *)
(* itself in, that a block is not used again before its elements have been *)
(* moved out, and the safety part of the refinement of FifoQueue.          *)
(*                                                                         *)
(* The inductive invariant, Sound, has these parts.  The semaphore         *)
(* balances (Tokens), so that a holder's count is always covered by        *)
(* tailIndex and none is ever taken back; what a look compares with is     *)
(* above the count it began with (Ahead); the producer's block is there    *)
(* from the first slot on (Filling); every block is in one place (Placed); *)
(* and a block's elementsCompletelyDequeued and those who still work in it *)
(* make up the part of it that headIndex has passed (Emptying), so that    *)
(* the one who counts the last element is alone in it.                     *)
(***************************************************************************)
EXTENDS TaskQueue, FiniteSetTheorems, SequenceTheorems, TLAPS

(* Consumers that dequeueOptimisticCount is ahead of headIndex for.        *)
Counted == {c \in Consumers : cpc[c] \in {"claim", "take"}}

Tokens ==
    /\ TokensAreItems /\ SleepersAreCounted
    /\ dequeueOvercommit = 0 /\ \A c \in Consumers : seen[c] = 0
    /\ dequeueOptimisticCount = headIndex + Cardinality(Counted)
    /\ \A c \in Consumers : cpc[c] = "claim" => mine[c] < tailIndex

(* When a look began there was an item that nobody had counted himself in  *)
(* for, and what it compares with was loaded later.                        *)
Ahead ==
    \A c \in Consumers :
        /\ cpc[c] \in {"size", "overcommit", "compare"} => began[c] < loaded[c]
        /\ cpc[c] = "size" => loaded[c] <= tailIndex
        /\ cpc[c] = "tail" => began[c] < tailIndex

(* The block that tailIndex is in, or is about to be in, and none later.   *)
Writing == ppc \in {"write", "publish"}

Filling ==
    /\ tailIndex <= MaxItems /\ (Writing => tailIndex < MaxItems)
    /\ \A i \in Used : i <= tailIndex /\ (i = tailIndex => Writing)
    /\ Writing \/ tailIndex % BlockSize # 0 => Base(tailIndex) \in Used
    /\ ppc = "publish" => Holds(tailIndex)

Placed ==
    /\ \A i, j \in Used : blockOf[i] = blockOf[j] => i = j
    /\ \A i \in Used : blockOf[i] \notin pool \cup freeList \cup heap
    /\ pool \cap freeList = {}
    /\ \A b \in Blocks : b \in pool \cup freeList \cup heap \/ \E i \in Used : blockOf[i] = b

(* Who has an index in the block that begins at i and has not counted it.  *)
Pending(i) == {c \in Consumers : cpc[c] \in {"read", "empty"} /\ Base(index[c]) = i}

Passed(i) == IF headIndex <= i THEN 0
             ELSE IF headIndex >= i + BlockSize THEN BlockSize
             ELSE headIndex - i

Emptying ==
    /\ \A i \in Used : dequeued[blockOf[i]] + Cardinality(Pending(i)) = Passed(i)
    /\ \A c, d \in Consumers :
          cpc[c] = "release" /\ cpc[d] = "release" /\ Base(index[c]) = Base(index[d]) => c = d
    /\ \A c \in Consumers : cpc[c] = "release" => dequeued[BlockFor(c)] = BlockSize

Elements ==
    /\ \A i \in headIndex..(tailIndex - 1) : Holds(i)
    /\ \A c \in Consumers :
          /\ cpc[c] \in {"read", "empty", "release"} =>
                index[c] < headIndex /\ Base(index[c]) \in Used
          /\ cpc[c] = "read" => Holds(index[c])
          /\ item[c] = 0 <=> cpc[c] \notin {"empty", "release", "busy"}
    /\ \A c, d \in Consumers :
          cpc[c] = "read" /\ cpc[d] = "read" /\ index[c] = index[d] => c = d

Stored == Filling /\ Placed /\ Emptying /\ Elements

Sound == TypeOK /\ Tokens /\ Ahead /\ Stored
-----------------------------------------------------------------------------
(* Indices and their bases.                                                *)

LEMMA SizeType == BlockSize \in Nat /\ BlockSize > 0 /\ MaxItems \in Nat
BY QueueAssumption

LEMMA Remainder ==
    ASSUME NEW n \in Nat, NEW q \in Int, NEW r \in 0..(BlockSize - 1), n = BlockSize * q + r
    PROVE  n % BlockSize = r
BY SizeType

(* An index is its base and the slot it has in the block.                  *)
LEMMA BaseFacts ==
    ASSUME NEW n \in Nat
    PROVE  /\ Base(n) \in Nat /\ Base(n) <= n /\ n < Base(n) + BlockSize
           /\ n % BlockSize \in 0..(BlockSize - 1)
           /\ n = Base(n) + (n % BlockSize)
           /\ Base(n) % BlockSize = 0 /\ (Base(n) + BlockSize) % BlockSize = 0
<1>. DEFINE q == n \div BlockSize
<1>1. n % BlockSize \in 0..(BlockSize - 1) /\ q \in Int
  BY SizeType
<1>2. n = BlockSize * q + (n % BlockSize)
  BY SizeType
<1>3. q >= 0
  BY <1>1, <1>2, SizeType
<1>4. BlockSize * q \in Nat
  BY <1>1, <1>3, SizeType
<1>5. Base(n) = BlockSize * q
  BY <1>1, <1>2, <1>4, SizeType DEF Base
<1>6. (BlockSize * q) % BlockSize = 0
  <2>1. BlockSize * q = BlockSize * q + 0 /\ 0 \in 0..(BlockSize - 1)
    BY <1>4, SizeType
  <2>2. QED
    BY <1>1, <1>4, <2>1, Remainder
<1>7. (Base(n) + BlockSize) % BlockSize = 0
  <2>1. BlockSize * q + BlockSize = BlockSize * (q + 1) + 0
    BY <1>1, SizeType
  <2>2. 0 \in 0..(BlockSize - 1) /\ q + 1 \in Int /\ BlockSize * q + BlockSize \in Nat
    BY <1>1, <1>4, SizeType
  <2>3. QED
    BY <1>5, <2>1, <2>2, Remainder
<1>8. QED
  BY <1>1, <1>2, <1>4, <1>5, <1>6, <1>7, SizeType

LEMMA BaseUnique ==
    ASSUME NEW n \in Nat, NEW i \in Nat, i % BlockSize = 0, i <= n, n < i + BlockSize
    PROVE  Base(n) = i
<1>1. i = BlockSize * (i \div BlockSize) /\ i \div BlockSize \in Int
  BY SizeType
<1>. DEFINE p == i \div BlockSize
            r == n - i
<1>2. n = BlockSize * p + r /\ r \in 0..(BlockSize - 1)
  BY <1>1, SizeType
<1>3. n % BlockSize = r
  BY <1>1, <1>2, SizeType
<1>4. QED
  BY <1>3, SizeType DEF Base

(* Bases are BlockSize apart.                                              *)
LEMMA BasesApart ==
    ASSUME NEW i \in Bases, NEW j \in Bases
    PROVE  /\ i \in Nat /\ Base(i) = i
           /\ i < j => i + BlockSize <= j
<1>1. i \in Nat /\ j \in Nat /\ i % BlockSize = 0 /\ j % BlockSize = 0
  BY SizeType DEF Bases
<1>2. Base(i) = i /\ Base(j) = j
  BY <1>1, SizeType DEF Base
<1>3. QED
  BY <1>1, <1>2, BaseUnique, SizeType

LEMMA BaseIsBase == ASSUME NEW n \in 0..MaxItems PROVE Base(n) \in Bases
BY BaseFacts, SizeType DEF Bases

(* Within a block tailIndex keeps its base.                                *)
LEMMA NextIndex ==
    ASSUME NEW n \in Nat, (n + 1) % BlockSize # 0
    PROVE  Base(n + 1) = Base(n)
<1>1. /\ Base(n) \in Nat /\ Base(n) % BlockSize = 0
      /\ Base(n) <= n + 1 /\ n + 1 < Base(n) + BlockSize
  <2>1. Base(n) % BlockSize = 0 /\ (Base(n) + BlockSize) % BlockSize = 0
    BY BaseFacts
  <2>2. Base(n) \in Nat /\ Base(n) <= n /\ n < Base(n) + BlockSize
    BY BaseFacts
  <2>3. n + 1 # Base(n) + BlockSize
    BY <2>1
  <2>4. Base(n) <= n + 1 /\ n + 1 < Base(n) + BlockSize
    BY <2>2, <2>3, SizeType
  <2>5. QED
    BY <2>1, <2>2, <2>4
<1>2. QED
  BY <1>1, BaseUnique

(* Two indices have the same base and the same slot only if they are one.  *)
LEMMA IndexOfSlot ==
    ASSUME NEW m \in Nat, NEW n \in Nat, Base(m) = Base(n),
           m % BlockSize = n % BlockSize
    PROVE  m = n
BY BaseFacts
-----------------------------------------------------------------------------
(* Counting consumers.                                                     *)

(* The consumers that are at some of the steps.                            *)
At(f, steps) == {c \in Consumers : f[c] \in steps}

LEMMA CountsAreNumbers ==
    ASSUME NEW S \in SUBSET Consumers
    PROVE  IsFiniteSet(S) /\ Cardinality(S) \in Nat
BY QueueAssumption, FS_Subset, FS_CardinalityType

(* When one consumer goes from step to step, only it changes the counts.   *)
LEMMA MoveCounts ==
    ASSUME NEW f, NEW g, NEW c \in Consumers, NEW steps,
           \A d \in Consumers \ {c} : g[d] = f[d]
    PROVE  Cardinality(At(g, steps)) = Cardinality(At(f, steps))
                                       + (IF g[c] \in steps THEN 1 ELSE 0)
                                       - (IF f[c] \in steps THEN 1 ELSE 0)
<1>1. PICK S, T : S = At(f, steps) /\ T = At(g, steps)
  OBVIOUS
<1>2. IsFiniteSet(S) /\ Cardinality(S) \in Nat
  BY <1>1, CountsAreNumbers DEF At
<1>3. CASE g[c] \in steps /\ f[c] \notin steps
  <2>1. T = S \cup {c} /\ c \notin S
    BY <1>1, <1>3 DEF At
  <2>2. Cardinality(T) = Cardinality(S) + 1
    BY <1>2, <2>1, FS_AddElement
  <2>3. QED
    BY <1>1, <1>2, <1>3, <2>2
<1>4. CASE g[c] \notin steps /\ f[c] \in steps
  <2>1. T = S \ {c} /\ c \in S
    BY <1>1, <1>4 DEF At
  <2>2. Cardinality(T) = Cardinality(S) - 1
    BY <1>2, <2>1, FS_RemoveElement
  <2>3. QED
    BY <1>1, <1>2, <1>4, <2>2
<1>5. CASE g[c] \in steps <=> f[c] \in steps
  <2>1. T = S
    BY <1>1, <1>5 DEF At
  <2>2. QED
    BY <1>1, <1>2, <1>5, <2>1
<1>6. QED
  BY <1>3, <1>4, <1>5

LEMMA CountsAt ==
    /\ Holders = At(cpc, Looks \cup {"count", "claim", "take"})
    /\ Sleepers = At(cpc, {"asleep"})
    /\ Counted = At(cpc, {"claim", "take"})
BY DEF Holders, Sleepers, Counted, At

(* The changes of the three counts, for the steps there are.               *)
LEMMA SemaphoreMove ==
    ASSUME TypeOK, NEW c \in Consumers, NEW step \in ConsumerSteps, Go(c, step)
    PROVE  /\ Cardinality(Holders') = Cardinality(Holders)
                + (IF step \in Looks \cup {"count", "claim", "take"} THEN 1 ELSE 0)
                - (IF cpc[c] \in Looks \cup {"count", "claim", "take"} THEN 1 ELSE 0)
           /\ Cardinality(Sleepers') = Cardinality(Sleepers)
                + (IF step = "asleep" THEN 1 ELSE 0) - (IF cpc[c] = "asleep" THEN 1 ELSE 0)
           /\ Cardinality(Counted') = Cardinality(Counted)
                + (IF step \in {"claim", "take"} THEN 1 ELSE 0)
                - (IF cpc[c] \in {"claim", "take"} THEN 1 ELSE 0)
<1>1. cpc \in [Consumers -> ConsumerSteps] /\ cpc' = [cpc EXCEPT ![c] = step]
  BY DEF TypeOK, Go
<1>2. /\ Holders' = At(cpc', Looks \cup {"count", "claim", "take"})
      /\ Sleepers' = At(cpc', {"asleep"})
      /\ Counted' = At(cpc', {"claim", "take"})
  BY DEF Holders, Sleepers, Counted, At
<1>3. cpc'[c] = step /\ \A d \in Consumers \ {c} : cpc'[d] = cpc[d]
  BY <1>1
<1>4. \A steps : Cardinality(At(cpc', steps)) = Cardinality(At(cpc, steps))
                                             + (IF step \in steps THEN 1 ELSE 0)
                                             - (IF cpc[c] \in steps THEN 1 ELSE 0)
  BY <1>3, MoveCounts
<1>5. QED
  BY <1>2, <1>4, CountsAt

LEMMA Numbers ==
    ASSUME TypeOK
    PROVE  /\ tailIndex \in Nat /\ headIndex \in Nat /\ sema \in Nat /\ count \in Int
           /\ dequeueOptimisticCount \in Nat /\ dequeueOvercommit \in Nat
           /\ Cardinality(Holders) \in Nat /\ Cardinality(Sleepers) \in Nat
           /\ Cardinality(Counted) \in Nat
<1>1. /\ Cardinality(Holders) \in Nat /\ Cardinality(Sleepers) \in Nat
      /\ Cardinality(Counted) \in Nat
  BY CountsAreNumbers DEF Holders, Sleepers, Counted
<1>2. QED
  BY <1>1 DEF TypeOK

(* A look changes nothing that others read.                                *)
LEMMA LookSteps ==
    ASSUME NEW c \in Consumers, Look(c)
    PROVE  /\ UNCHANGED <<indices, semaphore, memory, ppc, mine, index, item>>
           /\ cpc[c] \in Looks
           /\ \E step \in Looks \cup {"count"} : Go(c, step)
           /\ seen' = seen \/ seen' = [seen EXCEPT ![c] = dequeueOvercommit]
BY DEF Look, LoadTail, LoadHead, LoadTailAgain, LoadOvercommit, Compare, LookAgain, Looks

(* A holder's item is there: the holders are at most as many as the items. *)
LEMMA HolderHasItem ==
    ASSUME TypeOK, Tokens, NEW c \in Consumers,
           cpc[c] \in Looks \cup {"count", "claim", "take"}
    PROVE  /\ headIndex < tailIndex
           /\ cpc[c] \in Looks \cup {"count"} => dequeueOptimisticCount < tailIndex
<1>1. /\ tailIndex \in Nat /\ headIndex \in Nat /\ sema \in Nat /\ count \in Int
      /\ Cardinality(Holders) \in Nat /\ Cardinality(Sleepers) \in Nat
      /\ Cardinality(Counted) \in Nat
  BY Numbers
<1>2. tailIndex - headIndex >= Cardinality(Holders)
  BY <1>1 DEF Tokens, TokensAreItems, SleepersAreCounted
<1>3. Cardinality(Holders) >= Cardinality(Counted)
  <2>1. Counted \subseteq Holders /\ IsFiniteSet(Holders)
    BY CountsAreNumbers DEF Counted, Holders
  <2>2. QED
    BY <2>1, FS_Subset
<1>4. Cardinality(Holders) > 0
  <2>1. c \in Holders /\ IsFiniteSet(Holders)
    BY CountsAreNumbers DEF Holders
  <2>2. QED
    BY <1>1, <2>1, FS_EmptySet
<1>5. ASSUME cpc[c] \in Looks \cup {"count"}
      PROVE  Cardinality(Holders) > Cardinality(Counted)
  <2>1. Counted \subseteq Holders \ {c} /\ c \in Holders /\ IsFiniteSet(Holders)
    BY <1>5, CountsAreNumbers DEF Counted, Holders, Looks
  <2>2. IsFiniteSet(Holders \ {c}) /\ Cardinality(Holders \ {c}) = Cardinality(Holders) - 1
    BY <2>1, FS_RemoveElement
  <2>3. Cardinality(Counted) <= Cardinality(Holders \ {c})
    BY <2>1, <2>2, FS_Subset
  <2>4. QED
    BY <1>1, <2>2, <2>3
<1>6. headIndex < tailIndex
  BY <1>1, <1>2, <1>4
<1>7. cpc[c] \in Looks \cup {"count"} => dequeueOptimisticCount < tailIndex
  BY <1>1, <1>2, <1>5 DEF Tokens
<1>8. QED
  BY <1>6, <1>7
-----------------------------------------------------------------------------
(* The semaphore.                                                          *)

LEMMA TokensInit == Init => Tokens
<1>. SUFFICES ASSUME Init PROVE Tokens
  OBVIOUS
<1>1. Holders = {} /\ Sleepers = {} /\ Counted = {}
  BY DEF Init, Holders, Sleepers, Counted, Looks
<1>2. Cardinality({}) = 0
  BY FS_EmptySet
<1>3. QED
  BY <1>1, <1>2 DEF Init, Tokens, TokensAreItems, SleepersAreCounted

(* The part of Tokens that does not count.                                 *)
Covered ==
    /\ dequeueOvercommit = 0 /\ \A c \in Consumers : seen[c] = 0
    /\ \A c \in Consumers : cpc[c] = "claim" => mine[c] < tailIndex

(* The counts, as what is to be shown of the next state.                   *)
LEMMA TokensNext ==
    ASSUME Tokens, Covered',
           tailIndex' - headIndex'
             = count' + Cardinality(Holders') + Cardinality(Sleepers')
               + (IF ppc' = "signal" THEN 1 ELSE 0),
           Cardinality(Sleepers')
             = sema' + (IF ppc' = "post" THEN 1 ELSE 0) + (IF count' < 0 THEN -count' ELSE 0),
           dequeueOptimisticCount' = headIndex' + Cardinality(Counted')
    PROVE  Tokens'
BY DEF Tokens, TokensAreItems, SleepersAreCounted, Covered

LEMMA ProducerTokens ==
    ASSUME TypeOK, Tokens, Producer
    PROVE  Tokens'
<1>1. UNCHANGED cpc
  BY DEF Producer, StartBlock, WriteSlot, Publish, Signal, Post
<1>2. Holders' = Holders /\ Sleepers' = Sleepers /\ Counted' = Counted
  BY <1>1 DEF Holders, Sleepers, Counted
<1>3. /\ tailIndex \in Nat /\ headIndex \in Nat /\ sema \in Nat /\ count \in Int
      /\ Cardinality(Holders) \in Nat /\ Cardinality(Sleepers) \in Nat
      /\ Cardinality(Counted) \in Nat /\ mine \in [Consumers -> Nat]
  BY Numbers DEF TypeOK
<1>4. CASE StartBlock \/ WriteSlot
  <2>1. /\ UNCHANGED <<indices, semaphore, cpc, locals>>
        /\ ppc \notin {"signal", "post"} /\ ppc' \notin {"signal", "post"}
    BY <1>4 DEF StartBlock, WriteSlot
  <2>2. QED
    BY <1>2, <2>1 DEF indices, semaphore, locals, Tokens, TokensAreItems, SleepersAreCounted
<1>5. CASE Publish
  <2>1. UNCHANGED <<headIndex, dequeueOptimisticCount, dequeueOvercommit, count, sema, mine, seen>>
    BY <1>5 DEF Publish, semaphore, locals
  <2>2. tailIndex' = tailIndex + 1 /\ ppc = "publish" /\ ppc' = "signal"
    BY <1>5 DEF Publish
  <2>3. Covered'
    BY <1>1, <1>3, <2>1, <2>2 DEF Tokens, Covered
  <2>4. QED
    BY <1>2, <1>3, <2>1, <2>2, <2>3, TokensNext DEF Tokens, TokensAreItems, SleepersAreCounted
<1>6. CASE Signal
  <2>1. /\ UNCHANGED <<indices, sema, mine, seen>>
        /\ ppc = "signal" /\ count' = count + 1
        /\ ppc' = IF count < 0 THEN "post" ELSE "idle"
    BY <1>6 DEF Signal, locals, MustPost
  <2>2. Covered'
    BY <1>1, <2>1 DEF Tokens, Covered, indices
  <2>3. tailIndex - headIndex
          = count + 1 + Cardinality(Holders) + Cardinality(Sleepers)
    BY <1>3, <2>1 DEF Tokens, TokensAreItems
  <2>4. Cardinality(Sleepers)
          = sema + (IF count < 0 THEN 1 ELSE 0) + (IF count + 1 < 0 THEN -(count + 1) ELSE 0)
    BY <1>3, <2>1 DEF Tokens, SleepersAreCounted
  <2>5. dequeueOptimisticCount = headIndex + Cardinality(Counted)
    BY DEF Tokens
  <2>6. QED
    BY <1>2, <1>3, <2>1, <2>2, <2>3, <2>4, <2>5, TokensNext DEF indices
<1>7. CASE Post
  <2>1. /\ UNCHANGED <<indices, count, mine, seen>>
        /\ ppc = "post" /\ sema' = sema + 1 /\ ppc' = "idle"
    BY <1>7 DEF Post, locals
  <2>2. Covered'
    BY <1>1, <2>1 DEF Tokens, Covered, indices
  <2>3. QED
    BY <1>2, <1>3, <2>1, <2>2, TokensNext DEF indices, Tokens, TokensAreItems, SleepersAreCounted
<1>8. QED
  BY <1>4, <1>5, <1>6, <1>7 DEF Producer

LEMMA ConsumerTokens ==
    ASSUME TypeOK, Tokens, NEW c \in Consumers, Consumer(c)
    PROVE  Tokens'
<1>1. /\ tailIndex \in Nat /\ headIndex \in Nat /\ sema \in Nat /\ count \in Int
      /\ dequeueOptimisticCount \in Nat
      /\ Cardinality(Holders) \in Nat /\ Cardinality(Sleepers) \in Nat
      /\ Cardinality(Counted) \in Nat
  BY Numbers
<1>2. /\ cpc \in [Consumers -> ConsumerSteps]
      /\ mine \in [Consumers -> Nat] /\ seen \in [Consumers -> Nat]
  BY DEF TypeOK
<1>3. CASE TryWait(c)
  <2>1. /\ UNCHANGED <<indices, sema, ppc, mine, seen>>
        /\ cpc[c] = "wait" /\ count > 0 /\ count' = count - 1 /\ Go(c, "look")
    BY <1>3 DEF TryWait, locals
  <2>2. Covered'
    BY <1>2, <2>1 DEF Tokens, Covered, indices, Go
  <2>3. /\ Cardinality(Holders') = Cardinality(Holders) + 1
        /\ Cardinality(Sleepers') = Cardinality(Sleepers)
        /\ Cardinality(Counted') = Cardinality(Counted)
    BY <1>1, <2>1, SemaphoreMove DEF ConsumerSteps, Looks
  <2>4. QED
    BY <1>1, <2>1, <2>2, <2>3, TokensNext
       DEF indices, Tokens, TokensAreItems, SleepersAreCounted
<1>4. CASE StopSpinning(c)
  <2>1. /\ UNCHANGED <<indices, sema, ppc, mine, seen>>
        /\ cpc[c] = "wait" /\ count' = count - 1
        /\ Go(c, IF count > 0 THEN "look" ELSE "asleep")
    BY <1>4 DEF StopSpinning, locals, Passes
  <2>2. Covered'
    BY <1>2, <2>1 DEF Tokens, Covered, indices, Go
  <2>3. CASE count > 0
    <3>1. /\ Cardinality(Holders') = Cardinality(Holders) + 1
          /\ Cardinality(Sleepers') = Cardinality(Sleepers)
          /\ Cardinality(Counted') = Cardinality(Counted)
      BY <1>1, <2>1, <2>3, SemaphoreMove DEF ConsumerSteps, Looks
    <3>2. QED
      BY <1>1, <2>1, <2>2, <2>3, <3>1, TokensNext
         DEF indices, Tokens, TokensAreItems, SleepersAreCounted
  <2>4. CASE ~(count > 0)
    <3>1. /\ Cardinality(Holders') = Cardinality(Holders)
          /\ Cardinality(Sleepers') = Cardinality(Sleepers) + 1
          /\ Cardinality(Counted') = Cardinality(Counted)
      BY <1>1, <2>1, <2>4, SemaphoreMove DEF ConsumerSteps, Looks
    <3>2. QED
      BY <1>1, <2>1, <2>2, <2>4, <3>1, TokensNext
         DEF indices, Tokens, TokensAreItems, SleepersAreCounted
  <2>5. QED
    BY <2>3, <2>4
<1>5. CASE WakeUp(c)
  <2>1. /\ UNCHANGED <<indices, count, ppc, mine, seen>>
        /\ cpc[c] = "asleep" /\ sema' = sema - 1 /\ Go(c, "look")
    BY <1>5 DEF WakeUp, locals
  <2>2. Covered'
    BY <1>2, <2>1 DEF Tokens, Covered, indices, Go
  <2>3. /\ Cardinality(Holders') = Cardinality(Holders) + 1
        /\ Cardinality(Sleepers') = Cardinality(Sleepers) - 1
        /\ Cardinality(Counted') = Cardinality(Counted)
    BY <1>1, <2>1, SemaphoreMove DEF ConsumerSteps, Looks
  <2>4. QED
    BY <1>1, <2>1, <2>2, <2>3, TokensNext
       DEF indices, Tokens, TokensAreItems, SleepersAreCounted
<1>6. CASE Look(c)
  <2>1. PICK step \in Looks \cup {"count"} :
          /\ UNCHANGED <<indices, semaphore, ppc, mine>>
          /\ cpc[c] \in Looks /\ Go(c, step)
          /\ seen' = seen \/ seen' = [seen EXCEPT ![c] = dequeueOvercommit]
    BY <1>6, LookSteps
  <2>2. Covered'
    BY <1>2, <2>1 DEF Tokens, Covered, indices, Go, Looks
  <2>3. /\ Cardinality(Holders') = Cardinality(Holders)
        /\ Cardinality(Sleepers') = Cardinality(Sleepers)
        /\ Cardinality(Counted') = Cardinality(Counted)
    BY <1>1, <2>1, SemaphoreMove DEF ConsumerSteps, Looks
  <2>4. QED
    BY <1>1, <2>1, <2>2, <2>3, TokensNext
       DEF indices, semaphore, Tokens, TokensAreItems, SleepersAreCounted
<1>7. CASE Count(c)
  <2>1. /\ UNCHANGED <<tailIndex, headIndex, dequeueOvercommit, semaphore, ppc, seen>>
        /\ cpc[c] = "count" /\ Go(c, "claim")
        /\ mine' = [mine EXCEPT ![c] = dequeueOptimisticCount]
        /\ dequeueOptimisticCount' = dequeueOptimisticCount + 1
    BY <1>7 DEF Count
  <2>2. dequeueOptimisticCount < tailIndex
    BY <2>1, HolderHasItem
  <2>3. Covered'
    BY <1>2, <2>1, <2>2 DEF Tokens, Covered, Go
  <2>4. /\ Cardinality(Holders') = Cardinality(Holders)
        /\ Cardinality(Sleepers') = Cardinality(Sleepers)
        /\ Cardinality(Counted') = Cardinality(Counted) + 1
    BY <1>1, <2>1, SemaphoreMove DEF ConsumerSteps, Looks
  <2>5. QED
    BY <1>1, <2>1, <2>3, <2>4, TokensNext
       DEF semaphore, Tokens, TokensAreItems, SleepersAreCounted
<1>8. CASE Claim(c)
  <2>1. cpc[c] = "claim" /\ seen[c] = 0 /\ mine[c] < tailIndex
    BY <1>8 DEF Claim, Tokens
  <2>2. /\ UNCHANGED <<indices, semaphore, ppc, seen, mine>>
        /\ Go(c, "take")
    BY <1>1, <1>2, <1>8, <2>1 DEF Claim, indices, locals
  <2>3. Covered'
    BY <1>2, <2>2 DEF Tokens, Covered, Go, indices
  <2>4. /\ Cardinality(Holders') = Cardinality(Holders)
        /\ Cardinality(Sleepers') = Cardinality(Sleepers)
        /\ Cardinality(Counted') = Cardinality(Counted)
    BY <1>1, <2>1, <2>2, SemaphoreMove DEF ConsumerSteps, Looks
  <2>5. QED
    BY <1>1, <2>2, <2>3, <2>4, TokensNext
       DEF indices, semaphore, Tokens, TokensAreItems, SleepersAreCounted
<1>9. CASE Take(c)
  <2>1. /\ UNCHANGED <<tailIndex, dequeueOptimisticCount, dequeueOvercommit, semaphore,
                       ppc, seen, mine>>
        /\ cpc[c] = "take" /\ Go(c, "read") /\ headIndex' = headIndex + 1
    BY <1>9 DEF Take
  <2>2. Covered'
    BY <1>2, <2>1 DEF Tokens, Covered, Go
  <2>3. /\ Cardinality(Holders') = Cardinality(Holders) - 1
        /\ Cardinality(Sleepers') = Cardinality(Sleepers)
        /\ Cardinality(Counted') = Cardinality(Counted) - 1
    BY <1>1, <2>1, SemaphoreMove DEF ConsumerSteps, Looks
  <2>4. dequeueOptimisticCount' = headIndex' + Cardinality(Counted')
    BY <1>1, <2>1, <2>3 DEF Tokens
  <2>5. tailIndex' - headIndex'
          = count' + Cardinality(Holders') + Cardinality(Sleepers')
            + (IF ppc' = "signal" THEN 1 ELSE 0)
    BY <1>1, <2>1, <2>3 DEF semaphore, Tokens, TokensAreItems
  <2>6. Cardinality(Sleepers')
          = sema' + (IF ppc' = "post" THEN 1 ELSE 0) + (IF count' < 0 THEN -count' ELSE 0)
    BY <2>1, <2>3 DEF semaphore, Tokens, SleepersAreCounted
  <2>7. QED
    BY <2>2, <2>4, <2>5, <2>6, TokensNext
<1>10. CASE Read(c) \/ SetEmpty(c) \/ Release(c) \/ ComeBack(c)
  <2>1. PICK step \in {"wait", "empty", "release", "busy"} :
            /\ UNCHANGED <<indices, semaphore, ppc, seen, mine>>
            /\ cpc[c] \in {"read", "empty", "release", "busy"} /\ Go(c, step)
    <3>1. UNCHANGED <<indices, semaphore, ppc, seen, mine>>
      BY <1>10 DEF Read, SetEmpty, Release, ComeBack, locals
    <3>2. \/ cpc[c] = "read" /\ Go(c, "empty")
          \/ cpc[c] = "empty" /\ (Go(c, "release") \/ Go(c, "busy"))
          \/ cpc[c] = "release" /\ Go(c, "busy")
          \/ cpc[c] = "busy" /\ Go(c, "wait")
      BY <1>10 DEF Read, SetEmpty, Release, ComeBack
    <3>3. QED
      BY <3>1, <3>2
  <2>2. Covered'
    BY <1>2, <2>1 DEF Tokens, Covered, Go, indices
  <2>3. /\ Cardinality(Holders') = Cardinality(Holders)
        /\ Cardinality(Sleepers') = Cardinality(Sleepers)
        /\ Cardinality(Counted') = Cardinality(Counted)
    BY <1>1, <2>1, SemaphoreMove DEF ConsumerSteps, Looks
  <2>4. QED
    BY <1>1, <2>1, <2>2, <2>3, TokensNext
       DEF indices, semaphore, Tokens, TokensAreItems, SleepersAreCounted
<1>11. QED
  BY <1>3, <1>4, <1>5, <1>6, <1>7, <1>8, <1>9, <1>10 DEF Consumer

LEMMA TokensStep == TypeOK /\ Tokens /\ [Next]_vars => Tokens'
<1> SUFFICES ASSUME TypeOK, Tokens, [Next]_vars PROVE Tokens'
  OBVIOUS
<1>1. CASE UNCHANGED vars
  BY <1>1 DEF vars, indices, semaphore, locals, Tokens, TokensAreItems, SleepersAreCounted,
              Holders, Sleepers, Counted
<1>2. QED
  BY <1>1, ProducerTokens, ConsumerTokens DEF Next

(* What Tokens says of the loop of wait_dequeue.                           *)
LEMMA TokensSuffice == TypeOK /\ Tokens => SemaphoreBalances /\ TokenIsAnItem
<1> SUFFICES ASSUME TypeOK, Tokens PROVE SemaphoreBalances /\ TokenIsAnItem
  OBVIOUS
<1>1. SemaphoreBalances
  BY DEF Tokens, SemaphoreBalances
<1>2. ASSUME NEW c \in Consumers, c \in Holders PROVE headIndex < tailIndex
  BY <1>2, HolderHasItem DEF Holders
<1>3. ASSUME NEW c \in Consumers, cpc[c] = "claim" PROVE mine[c] - seen[c] < tailIndex
  BY <1>3 DEF Tokens, TypeOK
<1>4. QED
  BY <1>1, <1>2, <1>3 DEF TokenIsAnItem
-----------------------------------------------------------------------------
(* The looks.                                                              *)

LEMMA AheadInit == Init => Ahead
BY DEF Init, Ahead

(* tailIndex only grows, and a look is its consumer's own.                 *)
LEMMA AheadStep == TypeOK /\ Tokens /\ Ahead /\ [Next]_vars => Ahead'
<1> SUFFICES ASSUME TypeOK, Tokens, Ahead, [Next]_vars PROVE Ahead'
  OBVIOUS
<1>1. /\ tailIndex \in Nat /\ dequeueOptimisticCount \in Nat
      /\ cpc \in [Consumers -> ConsumerSteps]
      /\ loaded \in [Consumers -> Nat] /\ began \in [Consumers -> Nat]
  BY DEF TypeOK
<1>2. CASE UNCHANGED vars
  BY <1>2 DEF vars, indices, locals, Ahead
<1>3. CASE Producer
  <2>1. UNCHANGED <<cpc, loaded, began>> /\ (tailIndex' = tailIndex \/ tailIndex' = tailIndex + 1)
    BY <1>3 DEF Producer, StartBlock, WriteSlot, Publish, Signal, Post, indices, locals
  <2>2. QED
    BY <1>1, <2>1 DEF Ahead
<1>4. ASSUME NEW c \in Consumers, Consumer(c) PROVE Ahead'
  <2>1. CASE Look(c)
    <3>1. tailIndex' = tailIndex
      BY <2>1, LookSteps DEF indices
    <3>2. CASE LoadTail(c)
      <4>1. dequeueOptimisticCount < tailIndex
        BY <3>2, HolderHasItem DEF LoadTail, Looks
      <4>2. QED
        BY <1>1, <3>1, <3>2, <4>1 DEF LoadTail, Go, Ahead
    <3>3. CASE LoadHead(c)
      <4>1. /\ cpc[c] = "size" /\ loaded' = [loaded EXCEPT ![c] = 0]
            /\ \/ HasSome(headIndex, loaded[c]) /\ Go(c, "tail") /\ UNCHANGED began
               \/ Go(c, "look") /\ began' = [began EXCEPT ![c] = 0]
        BY <3>3 DEF LoadHead, LookAgain
      <4>2. began[c] < tailIndex
        BY <1>1, <4>1 DEF Ahead
      <4>3. QED
        BY <1>1, <3>1, <4>1, <4>2 DEF Go, Ahead
    <3>4. CASE LoadTailAgain(c)
      BY <1>1, <3>1, <3>4 DEF LoadTailAgain, Go, Ahead
    <3>5. CASE LoadOvercommit(c)
      <4>1. cpc[c] = "overcommit" /\ Go(c, "compare") /\ UNCHANGED <<loaded, began>>
        BY <3>5 DEF LoadOvercommit
      <4>2. QED
        BY <1>1, <3>1, <4>1 DEF Go, Ahead
    <3>6. CASE Compare(c)
      <4>1. /\ loaded' = [loaded EXCEPT ![c] = 0] /\ began' = [began EXCEPT ![c] = 0]
            /\ Go(c, "count") \/ Go(c, "look")
        BY <3>6 DEF Compare, LookAgain
      <4>2. QED
        BY <1>1, <3>1, <4>1 DEF Go, Ahead
    <3>7. QED
      BY <2>1, <3>2, <3>3, <3>4, <3>5, <3>6 DEF Look
  <2>2. CASE ~Look(c)
    <3>1. UNCHANGED <<tailIndex, loaded, began>>
      BY <1>4, <2>2 DEF Consumer, TryWait, StopSpinning, WakeUp, Count, Claim, Take, Read,
                        SetEmpty, Release, ComeBack, indices, locals
    <3>2. \E step : step \notin {"size", "compare", "tail", "overcommit"} /\ Go(c, step)
      BY <1>4, <2>2 DEF Consumer, TryWait, StopSpinning, WakeUp, Count, Claim, Take, Read,
                        SetEmpty, Release, ComeBack
    <3>3. QED
      BY <1>1, <3>1, <3>2 DEF Go, Ahead
  <2>3. QED
    BY <2>1, <2>2
<1>5. QED
  BY <1>2, <1>3, <1>4 DEF Next

(* A look that fails has compared something at or below                    *)
(* dequeueOptimisticCount with a tailIndex above the count it began with.  *)
LEMMA FailsForOthers ==
    Sound /\ [Next]_vars
      => \A c \in Consumers : LookFails(c) => began[c] < dequeueOptimisticCount
<1> SUFFICES ASSUME Sound, [Next]_vars, NEW c \in Consumers, LookFails(c)
             PROVE  began[c] < dequeueOptimisticCount
  OBVIOUS
<1>1. /\ headIndex \in Nat /\ dequeueOptimisticCount \in Nat /\ seen[c] = 0
      /\ loaded[c] \in Nat /\ began[c] \in Nat
      /\ headIndex <= dequeueOptimisticCount
  <2>1. TypeOK /\ Tokens /\ Cardinality(Counted) \in Nat
    BY Numbers DEF Sound
  <2>2. QED
    BY <2>1 DEF TypeOK, Tokens
<1>2. cpc[c] \in Looks \ {"look"} /\ cpc'[c] = "look"
  BY DEF LookFails
<1>3. PICK d \in Consumers : Consumer(d)
  <2>1. ~(UNCHANGED cpc)
    BY <1>2
  <2>2. QED
    BY <2>1 DEF Next, vars, Producer, StartBlock, WriteSlot, Publish, Signal, Post
<1>4. Consumer(c)
  <2>1. cpc \in [Consumers -> ConsumerSteps] /\ \E step : Go(d, step)
    BY <1>3 DEF Sound, TypeOK, Consumer, TryWait, StopSpinning, WakeUp, Look, LoadTail,
                LoadHead, LoadTailAgain, LoadOvercommit, Compare, LookAgain, Count, Claim,
                Take, Read, SetEmpty, Release, ComeBack
  <2>2. cpc'[c] = cpc[c] \/ c = d
    BY <2>1 DEF Go
  <2>3. QED
    BY <1>2, <1>3, <2>2
<1>5. Look(c)
  BY <1>2, <1>4 DEF Consumer, TryWait, StopSpinning, WakeUp, Count, Claim, Take, Read,
                    SetEmpty, Release, ComeBack, Looks
<1>6. CASE LoadHead(c)
  <2>1. cpc[c] = "size" /\ ~(headIndex < loaded[c])
    BY <1>2, <1>6 DEF LoadHead, HasSome, Go, Sound, TypeOK
  <2>2. QED
    BY <1>1, <2>1 DEF Sound, Ahead
<1>7. CASE Compare(c)
  <2>1. cpc[c] = "compare" /\ ~(dequeueOptimisticCount - seen[c] < loaded[c])
    BY <1>2, <1>7 DEF Compare, Go, Sound, TypeOK
  <2>2. QED
    BY <1>1, <2>1 DEF Sound, Ahead
<1>8. CASE LoadTail(c) \/ LoadTailAgain(c) \/ LoadOvercommit(c)
  BY <1>2, <1>8 DEF LoadTail, LoadTailAgain, LoadOvercommit, Go, Sound, TypeOK
<1>9. QED
  BY <1>5, <1>6, <1>7, <1>8 DEF Look
-----------------------------------------------------------------------------
(* The blocks.                                                             *)

LEMMA StoredInit == Init => Stored
<1> SUFFICES ASSUME Init PROVE Stored
  OBVIOUS
<1>1. Used = {}
  BY DEF Init, Used
<1>2. Filling
  BY <1>1, SizeType DEF Init, Filling, Writing
<1>3. Placed
  BY <1>1, QueueAssumption DEF Init, Placed
<1>4. Emptying
  BY <1>1 DEF Init, Emptying
<1>5. Elements
  BY DEF Init, Elements
<1>6. QED
  BY <1>2, <1>3, <1>4, <1>5 DEF Stored

LEMMA UsedBlock ==
    ASSUME TypeOK, NEW i \in Used
    PROVE  i \in Bases /\ i \in Nat /\ i % BlockSize = 0 /\ blockOf[i] \in Blocks
<1>1. blockOf \in [Bases -> Blocks \cup {None}]
  BY DEF TypeOK
<1>2. i \in Bases /\ blockOf[i] # None
  BY DEF Used
<1>3. i \in Nat /\ i % BlockSize = 0
  BY <1>2, SizeType DEF Bases
<1>4. QED
  BY <1>1, <1>2, <1>3

LEMMA HeldBlock ==
    ASSUME TypeOK, NEW i \in 0..MaxItems
    PROVE  Holds(i) <=> Base(i) \in Used /\ slots[blockOf[Base(i)]][i % BlockSize] = i + 1
BY BaseIsBase DEF Holds, Used

LEMMA IndexFacts ==
    ASSUME Sound
    PROVE  /\ headIndex \in Nat /\ tailIndex \in Nat
           /\ headIndex <= tailIndex /\ tailIndex <= MaxItems
           /\ \A i \in headIndex..(tailIndex - 1) : i \in 0..MaxItems /\ Base(i) \in Used
           /\ \A c \in Consumers :
                 cpc[c] \in {"read", "empty", "release"} =>
                    /\ index[c] \in 0..MaxItems /\ index[c] < headIndex
                    /\ Base(index[c]) \in Used
<1>1. /\ tailIndex \in Nat /\ headIndex \in Nat /\ sema \in Nat /\ count \in Int
      /\ Cardinality(Holders) \in Nat /\ Cardinality(Sleepers) \in Nat
  BY Numbers DEF Sound
<1>2. headIndex <= tailIndex
  BY <1>1 DEF Sound, Tokens, TokensAreItems, SleepersAreCounted
<1>3. tailIndex <= MaxItems
  BY DEF Sound, Stored, Filling
<1>4. ASSUME NEW i \in headIndex..(tailIndex - 1)
      PROVE  i \in 0..MaxItems /\ Base(i) \in Used
  <2>1. i \in 0..MaxItems
    BY <1>1, <1>3, SizeType
  <2>2. QED
    BY <2>1, HeldBlock DEF Sound, Stored, Elements
<1>5. ASSUME NEW c \in Consumers, cpc[c] \in {"read", "empty", "release"}
      PROVE  /\ index[c] \in 0..MaxItems /\ index[c] < headIndex
             /\ Base(index[c]) \in Used
  <2>1. index[c] < headIndex /\ Base(index[c]) \in Used
    BY <1>5 DEF Sound, Stored, Elements
  <2>2. index[c] \in Nat
    BY DEF Sound, TypeOK
  <2>3. QED
    BY <1>1, <1>2, <1>3, <2>1, <2>2, SizeType
<1>6. QED
  BY <1>1, <1>2, <1>3, <1>4, <1>5

(* Different indices have different slots.                                 *)
LEMMA OwnSlot ==
    ASSUME Sound, NEW i \in Nat, NEW j \in Nat, i # j,
           Base(i) \in Used, Base(j) \in Used
    PROVE  blockOf[Base(i)] # blockOf[Base(j)] \/ i % BlockSize # j % BlockSize
BY IndexOfSlot DEF Sound, Stored, Placed

LEMMA SlotWritten ==
    ASSUME TypeOK, NEW b \in Blocks, NEW k \in 0..(BlockSize - 1), NEW n \in 0..MaxItems,
           slots' = [slots EXCEPT ![b][k] = n]
    PROVE  /\ slots' \in [Blocks -> [0..(BlockSize - 1) -> 0..MaxItems]]
           /\ slots'[b][k] = n
           /\ \A a \in Blocks, m \in 0..(BlockSize - 1) :
                 a # b \/ m # k => slots'[a][m] = slots[a][m]
BY DEF TypeOK

(* So an element stays when another is written or destroyed.               *)
LEMMA OthersKept ==
    ASSUME Sound, NEW i \in 0..MaxItems, NEW n \in 0..MaxItems, Base(i) \in Used,
           slots' = [slots EXCEPT ![blockOf[Base(i)]][i % BlockSize] = n],
           UNCHANGED blockOf,
           NEW j \in 0..MaxItems, j # i, Holds(j)
    PROVE  Holds(j)'
<1>1. Base(j) \in Used /\ slots[blockOf[Base(j)]][j % BlockSize] = j + 1
  BY HeldBlock DEF Sound
<1>2. /\ blockOf[Base(i)] \in Blocks /\ blockOf[Base(j)] \in Blocks
      /\ i \in Nat /\ j \in Nat
      /\ i % BlockSize \in 0..(BlockSize - 1) /\ j % BlockSize \in 0..(BlockSize - 1)
  <2>1. blockOf[Base(i)] \in Blocks /\ blockOf[Base(j)] \in Blocks
    BY <1>1, UsedBlock DEF Sound
  <2>2. i \in Nat /\ j \in Nat
    BY SizeType
  <2>3. i % BlockSize \in 0..(BlockSize - 1) /\ j % BlockSize \in 0..(BlockSize - 1)
    BY <2>2, BaseFacts
  <2>4. QED
    BY <2>1, <2>2, <2>3
<1>3. blockOf[Base(i)] # blockOf[Base(j)] \/ i % BlockSize # j % BlockSize
  BY <1>1, <1>2, OwnSlot
<1>4. slots'[blockOf[Base(j)]][j % BlockSize] = j + 1
  <2>1. PICK a, b, k, m : /\ a = blockOf[Base(j)] /\ m = j % BlockSize
                          /\ b = blockOf[Base(i)] /\ k = i % BlockSize
    OBVIOUS
  <2>2. slots' = [slots EXCEPT ![b][k] = n]
    BY <2>1
  <2>3. slots'[a][m] = slots[a][m]
    BY <1>2, <1>3, <2>1, <2>2, SlotWritten DEF Sound
  <2>4. QED
    BY <1>1, <2>1, <2>3
<1>5. QED
  BY <1>1, <1>4 DEF Holds, Used, Base

(* Steps of the semaphore and of the counts do not concern the blocks.     *)
Inside == {"read", "empty", "release", "busy"}

LEMMA StoredQuiet ==
    ASSUME Sound, UNCHANGED <<memory, tailIndex, headIndex, index, item>>,
           Writing' <=> Writing, ppc' = "publish" => ppc = "publish",
           \A d \in Consumers : cpc'[d] = cpc[d] \/ (cpc[d] \notin Inside /\ cpc'[d] \notin Inside)
    PROVE  Stored'
<1>. USE DEF Sound, Stored, memory, Inside
<1>1. Used' = Used /\ \A i : Base(i)' = Base(i) /\ Holds(i)' = Holds(i)
  BY DEF Used, Holds, Base
<1>2. Filling'
  BY <1>1 DEF Filling
<1>3. Placed'
  BY <1>1 DEF Placed
<1>4. Emptying'
  <2>1. \A i : Pending(i)' = Pending(i) /\ Passed(i)' = Passed(i)
    BY DEF Pending, Passed, Base
  <2>2. QED
    BY <1>1, <2>1 DEF Emptying, BlockFor, Base
<1>5. Elements'
  BY <1>1 DEF Elements
<1>6. QED
  BY <1>2, <1>3, <1>4, <1>5

LEMMA StartBlockStored ==
    ASSUME Sound, StartBlock
    PROVE  Stored'
<1>. DEFINE t == tailIndex
<1>1. PICK b \in Blocks :
        /\ Requisition(b)
        /\ dequeued' = [dequeued EXCEPT ![b] = 0]
        /\ blockOf' = [blockOf EXCEPT ![t] = b]
  BY DEF StartBlock, CountReset
<1>2. /\ ppc = "idle" /\ t < MaxItems /\ t % BlockSize = 0 /\ ppc' = "write"
      /\ UNCHANGED <<tailIndex, headIndex, slots, cpc, index, item>>
  BY DEF StartBlock, indices, locals
<1>3. t \in Bases /\ t \in Nat /\ Base(t) = t
  BY <1>2, IndexFacts, SizeType DEF Bases, Base
<1>4. t \notin Used
  BY <1>2 DEF Sound, Stored, Filling, Writing
<1>5. /\ blockOf \in [Bases -> Blocks \cup {None}] /\ None \notin Blocks
      /\ dequeued \in [Blocks -> 0..BlockSize]
  BY QueueAssumption DEF Sound, TypeOK
<1>6. /\ Used' = Used \cup {t} /\ blockOf'[t] = b
      /\ \A i \in Used : i # t /\ blockOf'[i] = blockOf[i]
  BY <1>1, <1>3, <1>4, <1>5 DEF Used, Bases
<1>7. /\ b \in pool \cup freeList \cup heap
      /\ pool' \cup freeList' \cup heap' = (pool \cup freeList \cup heap) \ {b}
      /\ pool' \cap freeList' = {}
  BY <1>1, QueueAssumption DEF Requisition, Sound, TypeOK, Stored, Placed
<1>8. \A i \in Used : blockOf[i] # b
  BY <1>7 DEF Sound, Stored, Placed
<1>9. Filling'
  <2>1. Base(t)' = t
    BY <1>2, <1>3 DEF Base
  <2>2. QED
    BY <1>2, <1>3, <1>6, <2>1, IndexFacts DEF Sound, Stored, Filling, Writing
<1>10. Placed'
  BY <1>6, <1>7, <1>8 DEF Sound, Stored, Placed
<1>11. Emptying'
  <2>1. \A i : Pending(i)' = Pending(i) /\ Passed(i)' = Passed(i)
    BY <1>2 DEF Pending, Passed, Base
  <2>2. Pending(t) = {} /\ Passed(t) = 0
    <3>1. ASSUME NEW c \in Consumers, cpc[c] \in {"read", "empty"} PROVE Base(index[c]) # t
      <4>1. Base(index[c]) \in Used
        BY <3>1, IndexFacts
      <4>2. QED
        BY <1>4, <4>1
    <3>2. QED
      BY <1>3, <3>1, IndexFacts DEF Pending, Passed
  <2>3. Cardinality({}) = 0
    BY FS_EmptySet
  <2>4. \A i \in Used' : dequeued'[blockOf'[i]] + Cardinality(Pending(i)) = Passed(i)
    <3>1. dequeued'[blockOf'[t]] + Cardinality(Pending(t)) = Passed(t)
      BY <1>1, <1>5, <1>6, <2>2, <2>3
    <3>2. ASSUME NEW i \in Used
          PROVE  dequeued'[blockOf'[i]] + Cardinality(Pending(i)) = Passed(i)
      <4>1. dequeued'[blockOf'[i]] = dequeued[blockOf[i]]
        BY <1>1, <1>5, <1>6, <1>8
      <4>2. QED
        BY <4>1 DEF Sound, Stored, Emptying
    <3>3. QED
      BY <1>6, <3>1, <3>2
  <2>5. ASSUME NEW c \in Consumers, cpc'[c] = "release"
        PROVE  dequeued'[BlockFor(c)'] = BlockSize
    <3>1. cpc[c] = "release" /\ dequeued[BlockFor(c)] = BlockSize
      BY <1>2, <2>5 DEF Sound, Stored, Emptying
    <3>2. Base(index[c]) \in Used
      BY <3>1, IndexFacts
    <3>3. BlockFor(c)' = BlockFor(c) /\ BlockFor(c) # b
      BY <1>2, <1>6, <1>8, <3>2 DEF BlockFor, Base
    <3>4. QED
      BY <1>1, <1>5, <3>1, <3>3
  <2>6. QED
    BY <1>2, <2>1, <2>4, <2>5 DEF Emptying, Sound, Stored, Base
<1>12. Elements'
  <2>1. \A i : Base(i)' = Base(i)
    BY DEF Base
  <2>2. ASSUME NEW i, Base(i) \in Bases, Holds(i) PROVE Holds(i)'
    BY <1>2, <1>6, <2>1, <2>2 DEF Holds, Used
  <2>3. QED
    BY <1>2, <1>6, <2>1, <2>2, IndexFacts DEF Elements, Sound, Stored, Used
<1>13. QED
  BY <1>9, <1>10, <1>11, <1>12 DEF Stored

LEMMA WriteSlotStored ==
    ASSUME Sound, WriteSlot
    PROVE  Stored'
<1>. DEFINE t == tailIndex
<1>1. /\ t < MaxItems /\ ppc' = "publish" /\ Base(t) \in Used
      /\ slots' = [slots EXCEPT ![blockOf[Base(t)]][t % BlockSize] = t + 1]
      /\ UNCHANGED <<tailIndex, headIndex, blockOf, dequeued, pool, freeList, heap, cpc, index, item>>
  BY DEF WriteSlot, indices, locals, Sound, Stored, Filling, Writing
<1>2. t \in 0..MaxItems /\ t + 1 \in 0..MaxItems /\ t \in Nat
  BY <1>1, IndexFacts, SizeType
<1>3. Used' = Used /\ \A i : Base(i)' = Base(i)
  BY <1>1 DEF Used, Base
<1>4. Holds(t)'
  <2>1. PICK b, k : b = blockOf[Base(t)] /\ k = t % BlockSize
    OBVIOUS
  <2>2. b \in Blocks
    BY <1>1, <2>1, UsedBlock DEF Sound
  <2>3. k \in 0..(BlockSize - 1)
    BY <1>2, <2>1, BaseFacts
  <2>4. slots' = [slots EXCEPT ![b][k] = t + 1]
    BY <1>1, <2>1
  <2>5. slots'[b][k] = t + 1
    BY <1>2, <2>2, <2>3, <2>4, SlotWritten DEF Sound
  <2>6. QED
    BY <1>1, <1>3, <2>1, <2>5 DEF Holds, Used
<1>5. ASSUME NEW j \in 0..MaxItems, j # t, Holds(j) PROVE Holds(j)'
  BY <1>1, <1>2, <1>5, OthersKept
<1>6. Filling'
  <2>1. Writing'
    BY <1>1 DEF Writing
  <2>2. Base(t)' = Base(t)
    BY <1>1 DEF Base
  <2>3. QED
    BY <1>1, <1>3, <1>4, <2>1, <2>2 DEF Filling, Sound, Stored
<1>7. Placed'
  BY <1>1, <1>3 DEF Placed, Sound, Stored
<1>8. Emptying'
  <2>1. \A i : Pending(i)' = Pending(i) /\ Passed(i)' = Passed(i)
    BY <1>1, <1>3 DEF Pending, Passed
  <2>2. QED
    BY <1>1, <1>3, <2>1 DEF Emptying, BlockFor, Sound, Stored
<1>9. Elements'
  <2>1. \A i \in headIndex..(t - 1) : Holds(i)'
    BY <1>2, <1>5, IndexFacts DEF Elements, Sound, Stored
  <2>2. ASSUME NEW c \in Consumers, cpc[c] = "read" PROVE Holds(index[c])'
    <3>1. index[c] \in 0..MaxItems /\ index[c] # t /\ Holds(index[c])
      BY <1>2, <2>2, IndexFacts DEF Elements, Sound, Stored
    <3>2. PICK j : j = index[c]
      OBVIOUS
    <3>3. Holds(j)'
      BY <1>5, <3>1, <3>2
    <3>4. QED
      BY <1>1, <3>2, <3>3
  <2>3. QED
    BY <1>1, <1>3, <2>1, <2>2 DEF Elements, Sound, Stored
<1>10. QED
  BY <1>6, <1>7, <1>8, <1>9 DEF Stored

LEMMA PublishStored ==
    ASSUME Sound, Publish
    PROVE  Stored'
<1>. DEFINE t == tailIndex
<1>1. /\ ppc = "publish" /\ ppc' = "signal" /\ tailIndex' = t + 1
      /\ UNCHANGED <<headIndex, blockOf, slots, dequeued, pool, freeList, heap, cpc, index, item>>
  BY DEF Publish, memory, locals
<1>2. t < MaxItems /\ t \in Nat /\ Base(t) \in Used /\ Holds(t)
  BY <1>1, IndexFacts DEF Sound, Stored, Filling, Writing
<1>3. Used' = Used /\ \A i : Base(i)' = Base(i) /\ Holds(i)' = Holds(i)
  BY <1>1 DEF Used, Base, Holds
<1>4. Filling'
  <2>1. \A i \in Used : i <= t /\ i \in Nat
    BY UsedBlock DEF Sound, Stored, Filling
  <2>2. (t + 1) % BlockSize # 0 => Base(t + 1) \in Used
    BY <1>2, NextIndex
  <2>3. ~Writing'
    BY <1>1 DEF Writing
  <2>4. QED
    BY <1>1, <1>2, <1>3, <2>1, <2>2, <2>3, SizeType DEF Filling
<1>5. Placed'
  BY <1>1, <1>3 DEF Placed, Sound, Stored
<1>6. Emptying'
  <2>1. \A i : Pending(i)' = Pending(i) /\ Passed(i)' = Passed(i)
    BY <1>1, <1>3 DEF Pending, Passed
  <2>2. QED
    BY <1>1, <1>3, <2>1 DEF Emptying, BlockFor, Sound, Stored
<1>7. Elements'
  <2>1. \A i \in headIndex..t : Holds(i)
    BY <1>2, IndexFacts DEF Elements, Sound, Stored
  <2>2. QED
    BY <1>1, <1>2, <1>3, <2>1 DEF Elements, Sound, Stored
<1>8. QED
  BY <1>4, <1>5, <1>6, <1>7 DEF Stored

LEMMA ComeBackStored ==
    ASSUME Sound, NEW c \in Consumers, ComeBack(c)
    PROVE  Stored'
<1>1. /\ cpc[c] = "busy" /\ Go(c, "wait") /\ item' = [item EXCEPT ![c] = 0]
      /\ UNCHANGED <<tailIndex, headIndex, memory, ppc, index>>
  BY DEF ComeBack, indices
<1>2. UNCHANGED <<blockOf, slots, dequeued, pool, freeList, heap>>
  BY <1>1 DEF memory
<1>3. /\ cpc \in [Consumers -> ConsumerSteps] /\ item \in [Consumers -> 0..MaxItems]
      /\ cpc'[c] = "wait" /\ \A d \in Consumers \ {c} : cpc'[d] = cpc[d]
  BY <1>1 DEF Sound, TypeOK, Go
<1>4. Used' = Used /\ \A i : Base(i)' = Base(i) /\ Holds(i)' = Holds(i)
  BY <1>2 DEF Used, Base, Holds
<1>5. Filling'
  BY <1>1, <1>4 DEF Filling, Writing, Sound, Stored
<1>6. Placed'
  BY <1>2, <1>4 DEF Placed, Sound, Stored
<1>7. Emptying'
  <2>1. \A i : Pending(i)' = Pending(i) /\ Passed(i)' = Passed(i)
    BY <1>1, <1>3, <1>4 DEF Pending, Passed
  <2>2. QED
    BY <1>1, <1>2, <1>3, <1>4, <2>1 DEF Emptying, BlockFor, Sound, Stored
<1>8. Elements'
  BY <1>1, <1>3, <1>4 DEF Elements, Sound, Stored
<1>9. QED
  BY <1>5, <1>6, <1>7, <1>8 DEF Stored

(* headIndex passes one more element of its block, and of no other.        *)
LEMMA PassedNext ==
    ASSUME headIndex \in Nat, headIndex' = headIndex + 1, NEW i \in Bases
    PROVE  /\ i = Base(headIndex) => Passed(i)' = Passed(i) + 1
           /\ i # Base(headIndex) => Passed(i)' = Passed(i)
           /\ Passed(i) \in Int
<1>1. i \in Nat /\ i % BlockSize = 0
  BY SizeType DEF Bases
<1>2. ASSUME i = Base(headIndex) PROVE i <= headIndex /\ headIndex < i + BlockSize
  BY <1>2, BaseFacts
<1>3. ASSUME i # Base(headIndex) PROVE headIndex < i \/ i + BlockSize <= headIndex
  BY <1>1, <1>3, BaseUnique, SizeType
<1>4. i = Base(headIndex) => Passed(i)' = Passed(i) + 1
  BY <1>1, <1>2, SizeType DEF Passed
<1>5. i # Base(headIndex) => Passed(i)' = Passed(i)
  BY <1>1, <1>3, SizeType DEF Passed
<1>6. QED
  BY <1>1, <1>4, <1>5, SizeType DEF Passed

LEMMA TakeStored ==
    ASSUME Sound, NEW c \in Consumers, Take(c)
    PROVE  Stored'
<1>. DEFINE h == headIndex
<1>1. /\ cpc[c] = "take" /\ Go(c, "read") /\ index' = [index EXCEPT ![c] = h]
      /\ headIndex' = h + 1
      /\ UNCHANGED <<tailIndex, blockOf, slots, dequeued, pool, freeList, heap, ppc, item>>
  BY DEF Take, memory
<1>2. h < tailIndex /\ h \in Nat /\ tailIndex \in Nat
  BY <1>1, HolderHasItem, IndexFacts DEF Sound
<1>3. Holds(h) /\ Base(h) \in Used
  BY <1>2, IndexFacts DEF Sound, Stored, Elements
<1>4. /\ cpc'[c] = "read" /\ \A d \in Consumers \ {c} : cpc'[d] = cpc[d]
      /\ index'[c] = h /\ \A d \in Consumers \ {c} : index'[d] = index[d]
  BY <1>1 DEF Sound, TypeOK, Go
<1>5. Used' = Used /\ \A i : Base(i)' = Base(i) /\ Holds(i)' = Holds(i)
  BY <1>1 DEF Used, Base, Holds
<1>6. Filling'
  BY <1>1, <1>5 DEF Filling, Writing, Sound, Stored
<1>7. Placed'
  BY <1>1, <1>5 DEF Placed, Sound, Stored
<1>8. Emptying'
  <2>1. ASSUME NEW i \in Used
        PROVE  dequeued[blockOf[i]] + Cardinality(Pending(i)') = Passed(i)'
    <3>1. /\ dequeued[blockOf[i]] + Cardinality(Pending(i)) = Passed(i)
          /\ dequeued[blockOf[i]] \in Nat
      <4>1. blockOf[i] \in Blocks
        BY UsedBlock DEF Sound
      <4>2. dequeued[blockOf[i]] \in Nat
        BY <4>1, SizeType DEF Sound, TypeOK
      <4>3. QED
        BY <4>2 DEF Sound, Stored, Emptying
    <3>2. IsFiniteSet(Pending(i)) /\ Cardinality(Pending(i)) \in Nat
      BY CountsAreNumbers DEF Pending
    <3>3. CASE i = Base(h)
      <4>1. Pending(i)' = Pending(i) \cup {c} /\ c \notin Pending(i)
        BY <1>1, <1>4, <1>5, <3>3 DEF Pending, Base
      <4>2. Cardinality(Pending(i)') = Cardinality(Pending(i)) + 1
        BY <3>2, <4>1, FS_AddElement
      <4>3. Passed(i)' = Passed(i) + 1
        BY <1>1, <1>2, <3>3, PassedNext, UsedBlock DEF Sound
      <4>4. QED
        BY <3>1, <3>2, <4>2, <4>3
    <3>4. CASE i # Base(h)
      <4>1. Pending(i)' = Pending(i)
        BY <1>1, <1>4, <1>5, <3>4 DEF Pending, Base
      <4>2. Passed(i)' = Passed(i)
        BY <1>1, <1>2, <3>4, PassedNext, UsedBlock DEF Sound
      <4>3. QED
        BY <3>1, <4>1, <4>2
    <3>5. QED
      BY <3>3, <3>4
  <2>2. ASSUME NEW d \in Consumers, cpc'[d] = "release"
        PROVE  cpc[d] = "release" /\ index'[d] = index[d] /\ BlockFor(d)' = BlockFor(d)
    <3>1. cpc[d] = "release" /\ index'[d] = index[d]
      BY <1>4, <2>2
    <3>2. QED
      BY <1>1, <3>1 DEF BlockFor, Base
  <2>3. ASSUME NEW d \in Consumers, cpc'[d] = "release"
        PROVE  dequeued'[BlockFor(d)'] = BlockSize
    BY <1>1, <2>2, <2>3 DEF Sound, Stored, Emptying
  <2>4. ASSUME NEW d \in Consumers, NEW e \in Consumers,
               cpc'[d] = "release", cpc'[e] = "release",
               Base(index'[d]) = Base(index'[e])
        PROVE  d = e
    BY <2>2, <2>4 DEF Sound, Stored, Emptying
  <2>5. QED
    BY <1>1, <1>5, <2>1, <2>3, <2>4 DEF Emptying, Base
<1>9. Elements'
  <2>1. \A i \in (h + 1)..(tailIndex - 1) : Holds(i)'
    BY <1>2, <1>5 DEF Elements, Sound, Stored
  <2>2. ASSUME NEW d \in Consumers, cpc'[d] \in {"read", "empty", "release"}
        PROVE  index'[d] < h + 1 /\ Base(index'[d]) \in Used
    <3>1. CASE d = c
      BY <1>2, <1>3, <1>4, <3>1
    <3>2. CASE d # c
      BY <1>2, <1>4, <2>2, <3>2, IndexFacts, SizeType
    <3>3. QED
      BY <3>1, <3>2
  <2>3. ASSUME NEW d \in Consumers, cpc'[d] = "read"
        PROVE  Holds(index'[d])
    BY <1>3, <1>4, <2>3 DEF Elements, Sound, Stored
  <2>4. ASSUME NEW d \in Consumers, NEW e \in Consumers,
               cpc'[d] = "read", cpc'[e] = "read", index'[d] = index'[e]
        PROVE  d = e
    <3>1. \A f \in Consumers \ {c} : cpc'[f] = "read" => index'[f] # h
      BY <1>2, <1>4, IndexFacts, SizeType
    <3>2. QED
      BY <1>4, <2>4, <3>1 DEF Elements, Sound, Stored
  <2>5. \A d \in Consumers : item'[d] = 0 <=> cpc'[d] \notin {"empty", "release", "busy"}
    BY <1>1, <1>4 DEF Elements, Sound, Stored
  <2>6. \A d \in Consumers :
           cpc'[d] = "read" => Holds(index[d])' /\ Base(index[d])' = Base(index'[d])
    BY <1>1, <2>3 DEF Holds, Base
  <2>7. \A d \in Consumers : Base(index[d])' = Base(index'[d])
    BY DEF Base
  <2>8. QED
    BY <1>1, <1>5, <2>1, <2>2, <2>4, <2>5, <2>6, <2>7 DEF Elements
<1>10. QED
  BY <1>6, <1>7, <1>8, <1>9 DEF Stored

LEMMA ReadStored ==
    ASSUME Sound, NEW c \in Consumers, Read(c)
    PROVE  /\ Stored'
           /\ item'[c] = index[c] + 1
           /\ slots' \in [Blocks -> [0..(BlockSize - 1) -> 0..MaxItems]]
<1>1. /\ cpc[c] = "read" /\ Go(c, "empty")
      /\ item' = [item EXCEPT ![c] = slots[BlockFor(c)][Slot(c)]]
      /\ slots' = [slots EXCEPT ![BlockFor(c)][Slot(c)] = 0]
      /\ UNCHANGED <<tailIndex, headIndex, blockOf, dequeued, pool, freeList, heap, ppc, index>>
  BY DEF Read, indices
<1>2. PICK i : i = index[c]
  OBVIOUS
<1>3. i \in 0..MaxItems /\ i \in Nat /\ i < headIndex /\ Base(i) \in Used /\ Holds(i)
  BY <1>1, <1>2, IndexFacts, SizeType DEF Sound, Stored, Elements
<1>4. slots' = [slots EXCEPT ![blockOf[Base(i)]][i % BlockSize] = 0]
  BY <1>1, <1>2 DEF BlockFor, Slot
<1>5. slots[BlockFor(c)][Slot(c)] = i + 1
  BY <1>2, <1>3 DEF BlockFor, Slot, Holds
<1>6. /\ cpc'[c] = "empty" /\ \A d \in Consumers \ {c} : cpc'[d] = cpc[d]
      /\ item'[c] = i + 1 /\ \A d \in Consumers \ {c} : item'[d] = item[d]
  BY <1>1, <1>5 DEF Sound, TypeOK, Go
<1>7. ASSUME NEW j \in 0..MaxItems, j # i, Holds(j) PROVE Holds(j)'
  <2>1. PICK n \in 0..MaxItems : n = 0
    BY SizeType
  <2>2. slots' = [slots EXCEPT ![blockOf[Base(i)]][i % BlockSize] = n]
    BY <1>4, <2>1
  <2>3. UNCHANGED blockOf
    BY <1>1
  <2>4. QED
    BY <1>3, <1>7, <2>2, <2>3, OthersKept
<1>8. Used' = Used /\ \A n : Base(n)' = Base(n)
  BY <1>1 DEF Used, Base
<1>9. Filling'
  <2>1. ASSUME ppc = "publish" PROVE Holds(tailIndex)'
    <3>1. tailIndex \in 0..MaxItems /\ tailIndex # i /\ Holds(tailIndex)
      BY <1>3, <2>1, IndexFacts, SizeType DEF Sound, Stored, Filling
    <3>2. PICK j : j = tailIndex
      OBVIOUS
    <3>3. Holds(j)'
      BY <1>7, <3>1, <3>2
    <3>4. QED
      BY <1>1, <3>2, <3>3 DEF Holds, Base
  <2>2. Base(tailIndex)' = Base(tailIndex) /\ Writing' = Writing
    BY <1>1 DEF Base, Writing
  <2>3. QED
    BY <1>1, <1>8, <2>1, <2>2 DEF Filling, Sound, Stored
<1>10. Placed'
  BY <1>1, <1>8 DEF Placed, Sound, Stored
<1>11. Emptying'
  <2>1. \A n : Pending(n)' = Pending(n) /\ Passed(n)' = Passed(n)
    BY <1>1, <1>6, <1>8 DEF Pending, Passed, Base
  <2>2. \A d \in Consumers : cpc'[d] = "release" => cpc[d] = "release"
    BY <1>6
  <2>3. QED
    BY <1>1, <1>8, <2>1, <2>2 DEF Emptying, BlockFor, Base, Sound, Stored
<1>12. Elements'
  <2>1. \A j \in headIndex..(tailIndex - 1) : Holds(j)'
    BY <1>3, <1>7, IndexFacts DEF Elements, Sound, Stored
  <2>2. ASSUME NEW d \in Consumers, cpc'[d] = "read" PROVE Holds(index[d])'
    <3>1. d # c /\ cpc[d] = "read"
      BY <1>6, <2>2
    <3>2. index[d] \in 0..MaxItems /\ index[d] # i /\ Holds(index[d])
      BY <1>1, <1>2, <3>1, IndexFacts DEF Elements, Sound, Stored
    <3>3. PICK j : j = index[d]
      OBVIOUS
    <3>4. Holds(j)'
      BY <1>7, <3>2, <3>3
    <3>5. QED
      BY <1>1, <3>3, <3>4 DEF Holds, Base
  <2>3. \A d \in Consumers : item'[d] = 0 <=> cpc'[d] \notin {"empty", "release", "busy"}
    BY <1>3, <1>6 DEF Elements, Sound, Stored
  <2>4. \A d \in Consumers :
           cpc'[d] \in {"read", "empty", "release"} =>
              index[d] < headIndex /\ Base(index[d]) \in Used
    BY <1>1, <1>6, IndexFacts
  <2>5. \A d \in Consumers : cpc'[d] = "read" => cpc[d] = "read"
    BY <1>6
  <2>6. \A d \in Consumers : Base(index[d])' = Base(index[d])
    BY <1>1 DEF Base
  <2>7. QED
    BY <1>1, <1>8, <2>1, <2>2, <2>3, <2>4, <2>5, <2>6 DEF Elements, Sound, Stored
<1>13. slots' \in [Blocks -> [0..(BlockSize - 1) -> 0..MaxItems]]
  <2>1. PICK b, k : b = blockOf[Base(i)] /\ k = i % BlockSize
    OBVIOUS
  <2>2. b \in Blocks
    BY <1>3, <2>1, UsedBlock DEF Sound
  <2>3. k \in 0..(BlockSize - 1) /\ 0 \in 0..MaxItems
    BY <1>3, <2>1, BaseFacts, SizeType
  <2>4. slots' = [slots EXCEPT ![b][k] = 0]
    BY <1>4, <2>1
  <2>5. QED
    BY <2>2, <2>3, <2>4, SlotWritten DEF Sound
<1>14. QED
  BY <1>2, <1>6, <1>9, <1>10, <1>11, <1>12, <1>13 DEF Stored

(* Who counts the last element of a block is alone in it.                  *)
LEMMA PendingCount ==
    ASSUME Sound, NEW c \in Consumers, cpc[c] = "empty"
    PROVE  /\ BlockFor(c) \in Blocks /\ dequeued[BlockFor(c)] \in Nat
           /\ dequeued[BlockFor(c)] < BlockSize
           /\ \A d \in Consumers : cpc[d] = "release" => Base(index[d]) # Base(index[c])
<1>. DEFINE i == Base(index[c])
<1>1. i \in Used
  BY IndexFacts
<1>2. blockOf[i] \in Blocks /\ i \in Bases
  BY <1>1, UsedBlock DEF Sound
<1>3. dequeued[blockOf[i]] \in Nat
  BY <1>2, SizeType DEF Sound, TypeOK
<1>4. Cardinality(Pending(i)) \in Nat /\ Cardinality(Pending(i)) > 0
  <2>1. c \in Pending(i)
    BY DEF Pending
  <2>2. IsFiniteSet(Pending(i)) /\ Cardinality(Pending(i)) \in Nat
    BY CountsAreNumbers DEF Pending
  <2>3. QED
    BY <2>1, <2>2, FS_EmptySet
<1>5. Passed(i) <= BlockSize
  BY <1>2, IndexFacts, SizeType DEF Passed, Bases
<1>6. dequeued[blockOf[i]] + Cardinality(Pending(i)) = Passed(i)
  BY <1>1 DEF Sound, Stored, Emptying
<1>7. dequeued[blockOf[i]] < BlockSize
  <2>1. Passed(i) \in Int
    BY <1>3, <1>4, <1>6
  <2>2. QED
    BY <1>3, <1>4, <1>5, <1>6, <2>1, SizeType
<1>8. ASSUME NEW d \in Consumers, cpc[d] = "release", Base(index[d]) = i PROVE FALSE
  <2>1. dequeued[blockOf[i]] = BlockSize
    BY <1>8 DEF Sound, Stored, Emptying, BlockFor
  <2>2. QED
    BY <1>7, <2>1, SizeType
<1>9. QED
  BY <1>2, <1>3, <1>7, <1>8 DEF BlockFor

LEMMA SetEmptyStored ==
    ASSUME Sound, NEW c \in Consumers, SetEmpty(c)
    PROVE  Stored'
<1>. DEFINE i == Base(index[c])
            b == blockOf[i]
<1>1. /\ cpc[c] = "empty" /\ dequeued' = [dequeued EXCEPT ![b] = @ + 1]
      /\ Go(c, IF dequeued[b] = BlockSize - 1 THEN "release" ELSE "busy")
      /\ UNCHANGED <<tailIndex, headIndex, blockOf, slots, pool, freeList, heap, ppc, index, item>>
  BY DEF SetEmpty, indices, locals, BlockFor, IsLast
<1>2. /\ b \in Blocks /\ dequeued[b] \in Nat /\ dequeued[b] < BlockSize
      /\ \A d \in Consumers : cpc[d] = "release" => Base(index[d]) # i
  BY <1>1, PendingCount DEF BlockFor
<1>3. i \in Used
  BY <1>1, IndexFacts
<1>4. /\ dequeued'[b] = dequeued[b] + 1
      /\ \A a \in Blocks \ {b} : dequeued'[a] = dequeued[a]
  BY <1>1, <1>2 DEF Sound, TypeOK
<1>5. /\ cpc'[c] = IF dequeued[b] = BlockSize - 1 THEN "release" ELSE "busy"
      /\ \A d \in Consumers \ {c} : cpc'[d] = cpc[d]
  BY <1>1 DEF Sound, TypeOK, Go
<1>6. Used' = Used /\ \A n : Base(n)' = Base(n) /\ Holds(n)' = Holds(n)
  BY <1>1 DEF Used, Base, Holds
<1>7. Filling'
  BY <1>1, <1>6 DEF Filling, Writing, Sound, Stored
<1>8. Placed'
  BY <1>1, <1>6 DEF Placed, Sound, Stored
<1>9. Emptying'
  <2>1. ASSUME NEW j \in Used
        PROVE  dequeued'[blockOf[j]] + Cardinality(Pending(j)') = Passed(j)
    <3>1. dequeued[blockOf[j]] + Cardinality(Pending(j)) = Passed(j)
      BY DEF Sound, Stored, Emptying
    <3>2. IsFiniteSet(Pending(j)) /\ Cardinality(Pending(j)) \in Nat
      BY CountsAreNumbers DEF Pending
    <3>3. CASE j = i
      <4>1. Pending(j)' = Pending(j) \ {c} /\ c \in Pending(j)
        BY <1>1, <1>5, <1>6, <3>3 DEF Pending, Base
      <4>2. Cardinality(Pending(j)') = Cardinality(Pending(j)) - 1
        BY <3>2, <4>1, FS_RemoveElement
      <4>3. QED
        BY <1>2, <1>4, <3>1, <3>2, <3>3, <4>2
    <3>4. CASE j # i
      <4>1. Pending(j)' = Pending(j)
        BY <1>1, <1>5, <1>6, <3>4 DEF Pending, Base
      <4>2. blockOf[j] \in Blocks /\ blockOf[j] # b
        BY <1>3, <3>4, UsedBlock DEF Sound, Stored, Placed
      <4>3. QED
        BY <1>4, <3>1, <4>1, <4>2
    <3>5. QED
      BY <3>3, <3>4
  <2>2. \A n : Passed(n)' = Passed(n)
    BY <1>1 DEF Passed
  <2>3. ASSUME NEW d \in Consumers, cpc'[d] = "release"
        PROVE  dequeued'[BlockFor(d)'] = BlockSize
    <3>1. BlockFor(d)' = blockOf[Base(index[d])]
      BY <1>1 DEF BlockFor, Base
    <3>2. CASE d = c
      <4>1. dequeued[b] = BlockSize - 1
        BY <1>5, <2>3, <3>2
      <4>2. QED
        BY <1>2, <1>4, <3>1, <3>2, <4>1, SizeType
    <3>3. CASE d # c
      <4>1. cpc[d] = "release" /\ dequeued[blockOf[Base(index[d])]] = BlockSize
        BY <1>5, <2>3, <3>3 DEF Sound, Stored, Emptying, BlockFor
      <4>2. Base(index[d]) \in Used /\ Base(index[d]) # i
        BY <1>2, <4>1, IndexFacts
      <4>3. blockOf[Base(index[d])] \in Blocks /\ blockOf[Base(index[d])] # b
        BY <1>3, <4>2, UsedBlock DEF Sound, Stored, Placed
      <4>4. QED
        BY <1>4, <3>1, <4>1, <4>3
    <3>4. QED
      BY <3>2, <3>3
  <2>4. ASSUME NEW d \in Consumers, NEW e \in Consumers,
               cpc'[d] = "release", cpc'[e] = "release",
               Base(index[d]) = Base(index[e])
        PROVE  d = e
    BY <1>2, <1>5, <2>4 DEF Sound, Stored, Emptying
  <2>5. \A d \in Consumers : Base(index[d])' = Base(index[d])
    BY <1>1 DEF Base
  <2>6. QED
    BY <1>1, <1>6, <2>1, <2>2, <2>3, <2>4, <2>5 DEF Emptying
<1>10. Elements'
  <2>1. \A d \in Consumers : /\ cpc'[d] = "read" => cpc[d] = "read"
                             /\ cpc'[d] \in {"read", "empty", "release"} =>
                                   cpc[d] \in {"read", "empty", "release"}
                             /\ cpc'[d] \in {"empty", "release", "busy"} <=>
                                   cpc[d] \in {"empty", "release", "busy"}
    BY <1>1, <1>5
  <2>2. QED
    BY <1>1, <1>6, <2>1 DEF Elements, Holds, Base, Sound, Stored
<1>11. QED
  BY <1>7, <1>8, <1>9, <1>10 DEF Stored

(* And a block is given back when headIndex has left it.                   *)
LEMMA ReleaseStored ==
    ASSUME Sound, NEW c \in Consumers, Release(c)
    PROVE  Stored'
<1>. DEFINE i == Base(index[c])
            b == blockOf[i]
<1>1. /\ cpc[c] = "release" /\ Go(c, "busy")
      /\ blockOf' = [blockOf EXCEPT ![i] = None]
      /\ \/ b \in Pool /\ freeList' = freeList \cup {b} /\ UNCHANGED heap
         \/ b \notin Pool /\ heap' = heap \cup {b} /\ UNCHANGED freeList
      /\ UNCHANGED <<tailIndex, headIndex, slots, dequeued, pool, ppc, index, item>>
  BY DEF Release, indices, locals, BlockFor
<1>2. i \in Used /\ i \in Bases /\ i \in Nat /\ b \in Blocks
  <2>1. i \in Used
    BY <1>1, IndexFacts
  <2>2. QED
    BY <2>1, UsedBlock DEF Sound
<1>3. dequeued[b] = BlockSize
  BY <1>1 DEF Sound, Stored, Emptying, BlockFor
<1>4. Pending(i) = {} /\ i + BlockSize <= headIndex
  <2>1. BlockSize + Cardinality(Pending(i)) = Passed(i)
    BY <1>2, <1>3 DEF Sound, Stored, Emptying
  <2>2. IsFiniteSet(Pending(i)) /\ Cardinality(Pending(i)) \in Nat
    BY CountsAreNumbers DEF Pending
  <2>3. headIndex \in Nat
    BY IndexFacts
  <2>4. Cardinality(Pending(i)) = 0 /\ i + BlockSize <= headIndex
    BY <1>2, <2>1, <2>2, <2>3, SizeType DEF Passed
  <2>5. QED
    BY <2>2, <2>4, FS_EmptySet
<1>5. Used' = Used \ {i} /\ \A j \in Used \ {i} : blockOf'[j] = blockOf[j]
  BY <1>1, <1>2, QueueAssumption DEF Used, Bases, Sound, TypeOK
<1>6. cpc'[c] = "busy" /\ \A d \in Consumers \ {c} : cpc'[d] = cpc[d]
  BY <1>1 DEF Sound, TypeOK, Go
<1>7. \A n : Base(n)' = Base(n)
  BY DEF Base
<1>8. ASSUME NEW n \in Nat, n >= headIndex PROVE Base(n) # i
  <2>1. n < Base(n) + BlockSize /\ Base(n) \in Nat /\ headIndex \in Nat
    BY BaseFacts, IndexFacts
  <2>2. QED
    BY <1>2, <1>4, <1>8, <2>1, SizeType
<1>9. ASSUME NEW n, Base(n) \in Bases, Base(n) # i, Holds(n) PROVE Holds(n)'
  BY <1>1, <1>5, <1>7, <1>9 DEF Holds, Used
<1>10. Filling'
  <2>1. Base(tailIndex) # i /\ Base(tailIndex)' = Base(tailIndex)
    BY <1>1, <1>8, IndexFacts DEF Base
  <2>2. ASSUME ppc = "publish" PROVE Holds(tailIndex)'
    <3>1. Holds(tailIndex) /\ Base(tailIndex) \in Bases
      BY <2>2, BaseIsBase, IndexFacts, SizeType DEF Sound, Stored, Filling
    <3>2. PICK n : n = tailIndex
      OBVIOUS
    <3>3. Holds(n)'
      BY <1>9, <2>1, <3>1, <3>2
    <3>4. QED
      BY <1>1, <3>2, <3>3 DEF Holds, Base
  <2>3. QED
    BY <1>1, <1>5, <2>1, <2>2 DEF Filling, Writing, Sound, Stored
<1>11. Placed'
  <2>1. b \notin pool /\ b \notin freeList /\ b \notin heap
    BY <1>2 DEF Sound, Stored, Placed
  <2>2. \A j \in Used \ {i} : blockOf[j] # b
    BY <1>2 DEF Sound, Stored, Placed
  <2>3. \A j \in Used' : blockOf'[j] \notin pool' \cup freeList' \cup heap'
    BY <1>1, <1>5, <2>1, <2>2 DEF Sound, Stored, Placed
  <2>4. pool' \cap freeList' = {}
    BY <1>1, <2>1 DEF Sound, Stored, Placed
  <2>5. ASSUME NEW a \in Blocks
        PROVE  a \in pool' \cup freeList' \cup heap' \/ \E j \in Used' : blockOf'[j] = a
    BY <1>1, <1>5 DEF Sound, Stored, Placed
  <2>6. \A j, k \in Used' : blockOf'[j] = blockOf'[k] => j = k
    BY <1>5 DEF Sound, Stored, Placed
  <2>7. QED
    BY <2>3, <2>4, <2>5, <2>6 DEF Placed
<1>12. Emptying'
  <2>1. \A n : Passed(n)' = Passed(n) /\ Pending(n)' = Pending(n)
    BY <1>1, <1>6, <1>7 DEF Passed, Pending, Base
  <2>2. ASSUME NEW d \in Consumers, cpc'[d] = "release"
        PROVE  cpc[d] = "release" /\ BlockFor(d)' = BlockFor(d)
    <3>1. d # c /\ cpc[d] = "release"
      BY <1>6, <2>2
    <3>2. Base(index[d]) \in Used /\ Base(index[d]) # i
      BY <1>1, <3>1, IndexFacts DEF Sound, Stored, Emptying
    <3>3. BlockFor(d)' = blockOf'[Base(index[d])]
      BY <1>1 DEF BlockFor, Base
    <3>4. QED
      BY <1>5, <3>1, <3>2, <3>3 DEF BlockFor
  <2>3. \A d \in Consumers : Base(index[d])' = Base(index[d])
    BY <1>1 DEF Base
  <2>4. QED
    BY <1>1, <1>5, <2>1, <2>2, <2>3 DEF Emptying, Sound, Stored
<1>13. Elements'
  <2>1. ASSUME NEW j \in headIndex..(tailIndex - 1) PROVE Holds(j)'
    <3>1. Holds(j) /\ Base(j) \in Used /\ j \in Nat /\ j >= headIndex
      BY IndexFacts DEF Elements, Sound, Stored
    <3>2. QED
      BY <1>8, <1>9, <3>1 DEF Used
  <2>2. ASSUME NEW d \in Consumers, cpc'[d] \in {"read", "empty", "release"}
        PROVE  /\ index[d] < headIndex /\ Base(index[d]) \in Used \ {i}
               /\ cpc[d] = cpc'[d]
    <3>1. d # c /\ cpc[d] = cpc'[d]
      BY <1>6, <2>2
    <3>2. index[d] < headIndex /\ Base(index[d]) \in Used
      BY <2>2, <3>1, IndexFacts
    <3>3. CASE cpc[d] = "release"
      BY <1>1, <3>1, <3>2, <3>3 DEF Sound, Stored, Emptying
    <3>4. CASE cpc[d] \in {"read", "empty"}
      BY <1>4, <3>1, <3>2, <3>4 DEF Pending
    <3>5. QED
      BY <2>2, <3>1, <3>2, <3>3, <3>4
  <2>3. ASSUME NEW d \in Consumers, cpc'[d] = "read" PROVE Holds(index[d])'
    <3>1. Holds(index[d]) /\ Base(index[d]) \in Used /\ Base(index[d]) # i
      BY <2>2, <2>3 DEF Elements, Sound, Stored
    <3>2. PICK n : n = index[d]
      OBVIOUS
    <3>3. Holds(n)'
      BY <1>9, <3>1, <3>2 DEF Used
    <3>4. QED
      BY <1>1, <3>2, <3>3 DEF Holds, Base
  <2>4. \A d \in Consumers : /\ item[d] = 0 <=> cpc'[d] \notin {"empty", "release", "busy"}
                             /\ Base(index[d])' = Base(index[d])
    BY <1>1, <1>6 DEF Elements, Sound, Stored, Base
  <2>5. QED
    BY <1>1, <1>5, <2>1, <2>2, <2>3, <2>4 DEF Elements, Sound, Stored
<1>14. QED
  BY <1>10, <1>11, <1>12, <1>13 DEF Stored
-----------------------------------------------------------------------------
(* The invariant.                                                          *)

LEMMA TypeInit == Init => TypeOK
BY SizeType, QueueAssumption DEF Init, TypeOK, ProducerSteps, ConsumerSteps, Looks

LEMMA TypeStep == Sound /\ [Next]_vars => TypeOK'
<1> SUFFICES ASSUME Sound, [Next]_vars PROVE TypeOK'
  OBVIOUS
<1>1. TypeOK
  BY DEF Sound
<1>. USE DEF indices, semaphore, memory, locals, ProducerSteps
<1>2. CASE UNCHANGED vars
  BY <1>1, <1>2 DEF vars, TypeOK
<1>3. CASE StartBlock
  <2>1. PICK b \in Blocks :
          /\ Requisition(b)
          /\ dequeued' = [dequeued EXCEPT ![b] = 0]
          /\ blockOf' = [blockOf EXCEPT ![tailIndex] = b]
    BY <1>3 DEF StartBlock, CountReset
  <2>2. pool' \subseteq pool /\ freeList' \subseteq freeList /\ heap' \subseteq heap
    BY <2>1 DEF Requisition
  <2>3. blockOf' \in [Bases -> Blocks \cup {None}]
    BY <1>1, <2>1 DEF TypeOK
  <2>4. dequeued' \in [Blocks -> 0..BlockSize]
    <3>1. 0 \in 0..BlockSize /\ dequeued \in [Blocks -> 0..BlockSize]
      BY <1>1, SizeType DEF TypeOK
    <3>2. QED
      BY <2>1, <3>1
  <2>5. QED
    BY <1>1, <1>3, <2>2, <2>3, <2>4 DEF StartBlock, TypeOK
<1>4. CASE WriteSlot
  <2>1. Base(tailIndex) \in Used /\ tailIndex < MaxItems
    BY <1>4 DEF WriteSlot, Sound, Stored, Filling, Writing
  <2>2. PICK b, k : b = blockOf[Base(tailIndex)] /\ k = tailIndex % BlockSize
    OBVIOUS
  <2>3. b \in Blocks
    BY <1>1, <2>1, <2>2, UsedBlock
  <2>4. k \in 0..(BlockSize - 1) /\ tailIndex + 1 \in 0..MaxItems
    <3>1. tailIndex \in Nat
      BY IndexFacts
    <3>2. k \in 0..(BlockSize - 1)
      BY <2>2, <3>1, BaseFacts
    <3>3. tailIndex + 1 \in 0..MaxItems
      BY <2>1, <3>1, SizeType
    <3>4. QED
      BY <3>2, <3>3
  <2>5. slots' = [slots EXCEPT ![b][k] = tailIndex + 1]
    BY <1>4, <2>2 DEF WriteSlot
  <2>6. slots' \in [Blocks -> [0..(BlockSize - 1) -> 0..MaxItems]]
    BY <1>1, <2>3, <2>4, <2>5, SlotWritten
  <2>7. QED
    BY <1>1, <1>4, <2>6 DEF WriteSlot, TypeOK
<1>5. CASE Publish
  BY <1>1, <1>5 DEF Publish, TypeOK
<1>6. CASE Signal
  BY <1>1, <1>6 DEF Signal, TypeOK
<1>7. CASE Post
  BY <1>1, <1>7 DEF Post, TypeOK
<1>8. ASSUME NEW c \in Consumers, Consumer(c) PROVE TypeOK'
  <2>1. ASSUME NEW step \in ConsumerSteps, Go(c, step)
        PROVE  cpc' \in [Consumers -> ConsumerSteps]
    BY <1>1, <2>1 DEF Go, TypeOK
  <2>2. cpc' \in [Consumers -> ConsumerSteps]
    <3>1. CASE Look(c)
      BY <2>1, <3>1, LookSteps DEF ConsumerSteps
    <3>2. QED
      BY <1>8, <2>1, <3>1
         DEF Consumer, TryWait, StopSpinning, WakeUp, Count, Claim, Take, Read, SetEmpty,
             Release, ComeBack, ConsumerSteps, Looks
  <2>3. CASE TryWait(c) \/ StopSpinning(c) \/ WakeUp(c)
    <3>1. count' \in Int /\ sema' \in Nat
      <4>1. count \in Int /\ sema \in Nat
        BY <1>1, Numbers
      <4>2. \/ count' = count - 1 /\ sema' = sema
            \/ count' = count /\ sema > 0 /\ sema' = sema - 1
        BY <2>3 DEF TryWait, StopSpinning, WakeUp
      <4>3. QED
        BY <4>1, <4>2
    <3>2. UNCHANGED <<indices, memory, ppc, locals>>
      BY <2>3 DEF TryWait, StopSpinning, WakeUp
    <3>3. QED
      BY <1>1, <2>2, <3>1, <3>2 DEF TypeOK
  <2>4. CASE Look(c)
    <3>1. /\ loaded' \in [Consumers -> Nat] /\ seen' \in [Consumers -> Nat]
          /\ began' \in [Consumers -> Nat]
      <4>1. /\ loaded \in [Consumers -> Nat] /\ seen \in [Consumers -> Nat]
            /\ began \in [Consumers -> Nat]
            /\ tailIndex \in Nat /\ dequeueOptimisticCount \in Nat
            /\ dequeueOvercommit \in Nat
        BY <1>1 DEF TypeOK
      <4>2. /\ \E n \in Nat : loaded' = loaded \/ loaded' = [loaded EXCEPT ![c] = n]
            /\ \E n \in Nat : seen' = seen \/ seen' = [seen EXCEPT ![c] = n]
            /\ \E n \in Nat : began' = began \/ began' = [began EXCEPT ![c] = n]
        BY <2>4, <4>1 DEF Look, LoadTail, LoadHead, LoadTailAgain, LoadOvercommit, Compare,
                          LookAgain
      <4>3. QED
        BY <4>1, <4>2
    <3>2. UNCHANGED <<indices, semaphore, memory, ppc, mine, index, item>>
      BY <2>4, LookSteps
    <3>3. QED
      BY <1>1, <2>2, <3>1, <3>2 DEF TypeOK
  <2>5. CASE Count(c)
    <3>1. mine' \in [Consumers -> Nat] /\ dequeueOptimisticCount' \in Nat
      BY <1>1, <2>5 DEF Count, TypeOK
    <3>2. UNCHANGED <<tailIndex, headIndex, dequeueOvercommit, semaphore, memory, ppc,
                      loaded, seen, index, item, began>>
      BY <2>5 DEF Count
    <3>3. QED
      BY <1>1, <2>2, <3>1, <3>2 DEF TypeOK
  <2>6. CASE Claim(c)
    <3>1. dequeueOvercommit' \in Nat
      BY <1>1, <2>6 DEF Claim, TypeOK
    <3>2. UNCHANGED <<tailIndex, headIndex, dequeueOptimisticCount, semaphore, memory, ppc, locals>>
      BY <2>6 DEF Claim
    <3>3. QED
      BY <1>1, <2>2, <3>1, <3>2 DEF TypeOK
  <2>7. CASE Take(c)
    <3>1. index' \in [Consumers -> Nat] /\ headIndex' \in Nat
      BY <1>1, <2>7 DEF Take, TypeOK
    <3>2. UNCHANGED <<tailIndex, dequeueOptimisticCount, dequeueOvercommit, semaphore, memory,
                      ppc, loaded, seen, mine, item, began>>
      BY <2>7 DEF Take
    <3>3. QED
      BY <1>1, <2>2, <3>1, <3>2 DEF TypeOK
  <2>8. CASE Read(c)
    <3>1. index[c] + 1 \in 0..MaxItems
      BY <2>8, IndexFacts, SizeType DEF Read
    <3>2. item'[c] = index[c] + 1 /\ slots' \in [Blocks -> [0..(BlockSize - 1) -> 0..MaxItems]]
      BY <2>8, ReadStored
    <3>3. item' \in [Consumers -> 0..MaxItems]
      BY <1>1, <2>8, <3>1, <3>2 DEF Read, TypeOK
    <3>4. UNCHANGED <<indices, semaphore, blockOf, dequeued, pool, freeList, heap, ppc,
                      loaded, seen, mine, index, began>>
      BY <2>8 DEF Read
    <3>5. QED
      BY <1>1, <2>2, <3>2, <3>3, <3>4 DEF TypeOK
  <2>9. CASE SetEmpty(c)
    <3>1. dequeued[BlockFor(c)] + 1 \in 0..BlockSize
      BY <2>9, PendingCount, SizeType DEF SetEmpty
    <3>2. dequeued' \in [Blocks -> 0..BlockSize]
      BY <1>1, <2>9, <3>1 DEF SetEmpty, TypeOK
    <3>3. UNCHANGED <<indices, semaphore, blockOf, slots, pool, freeList, heap, ppc, locals>>
      BY <2>9 DEF SetEmpty
    <3>4. QED
      BY <1>1, <2>2, <3>2, <3>3 DEF TypeOK
  <2>10. CASE Release(c)
    <3>1. BlockFor(c) \in Blocks
      BY <1>1, <2>10, IndexFacts, UsedBlock DEF Release, BlockFor
    <3>2. blockOf' \in [Bases -> Blocks \cup {None}]
      BY <1>1, <2>10 DEF Release, TypeOK
    <3>3. freeList' \subseteq Pool /\ heap' \subseteq Blocks \ Pool
      BY <1>1, <2>10, <3>1 DEF Release, TypeOK
    <3>4. UNCHANGED <<indices, semaphore, slots, dequeued, pool, ppc, locals>>
      BY <2>10 DEF Release
    <3>5. QED
      BY <1>1, <2>2, <3>2, <3>3, <3>4 DEF TypeOK
  <2>11. CASE ComeBack(c)
    <3>1. item' \in [Consumers -> 0..MaxItems]
      BY <1>1, <2>11, SizeType DEF ComeBack, TypeOK
    <3>2. UNCHANGED <<indices, semaphore, memory, ppc, loaded, seen, mine, index, began>>
      BY <2>11 DEF ComeBack
    <3>3. QED
      BY <1>1, <2>2, <3>1, <3>2 DEF TypeOK
  <2>12. QED
    BY <1>8, <2>3, <2>4, <2>5, <2>6, <2>7, <2>8, <2>9, <2>10, <2>11 DEF Consumer
<1>9. QED
  BY <1>2, <1>3, <1>4, <1>5, <1>6, <1>7, <1>8 DEF Next, Producer

LEMMA StoredStep == Sound /\ [Next]_vars => Stored'
<1> SUFFICES ASSUME Sound, [Next]_vars PROVE Stored'
  OBVIOUS
<1>. USE DEF indices, semaphore, memory, locals
<1>1. CASE UNCHANGED vars
  <2>1. Writing' <=> Writing
    BY <1>1 DEF vars, Writing
  <2>2. QED
    BY <1>1, <2>1, StoredQuiet DEF vars
<1>2. CASE Producer
  <2>1. CASE Signal \/ Post
    <3>1. /\ UNCHANGED <<memory, tailIndex, headIndex, index, item, cpc>>
          /\ ~Writing /\ ~Writing' /\ ppc' # "publish"
      BY <2>1 DEF Signal, Post, Writing
    <3>2. QED
      BY <3>1, StoredQuiet
  <2>2. QED
    BY <1>2, <2>1, StartBlockStored, WriteSlotStored, PublishStored DEF Producer
<1>3. ASSUME NEW c \in Consumers, Consumer(c) PROVE Stored'
  <2>1. CASE TryWait(c) \/ StopSpinning(c) \/ WakeUp(c) \/ Look(c) \/ Count(c) \/ Claim(c)
    <3>1. UNCHANGED <<memory, tailIndex, headIndex, index, item, ppc>>
      BY <2>1, LookSteps DEF TryWait, StopSpinning, WakeUp, Count, Claim
    <3>2. /\ cpc[c] \notin Inside
          /\ \E step : step \notin Inside /\ Go(c, step)
      BY <2>1, LookSteps DEF TryWait, StopSpinning, WakeUp, Count, Claim, Inside, Looks
    <3>3. \A d \in Consumers : cpc'[d] = cpc[d] \/ (cpc[d] \notin Inside /\ cpc'[d] \notin Inside)
      BY <3>2 DEF Go, Sound, TypeOK
    <3>4. QED
      BY <3>1, <3>3, StoredQuiet DEF Writing
  <2>2. QED
    BY <1>3, <2>1, TakeStored, ReadStored, SetEmptyStored, ReleaseStored, ComeBackStored
       DEF Consumer
<1>4. QED
  BY <1>1, <1>2, <1>3 DEF Next

LEMMA SoundAlways == Safety => []Sound
<1>1. Init => Sound
  BY TypeInit, TokensInit, AheadInit, StoredInit DEF Sound
<1>2. Sound /\ [Next]_vars => Sound'
  BY TypeStep, TokensStep, AheadStep, StoredStep DEF Sound
<1>3. QED
  BY <1>1, <1>2, PTL DEF Safety
-----------------------------------------------------------------------------
(* Every variable has its type: no index leaves the block index or a slot, *)
(* no count of dequeued elements passes BLOCK_SIZE (concurrentqueue.h:     *)
(* 2507-2568, 2584-2628).                                                  *)
THEOREM TypeCorrect == Safety => []TypeOK
BY SoundAlways, PTL DEF Sound

(* However many consumers spin, sleep and are woken up, the semaphore      *)
(* counts the items, and as many sleep as it owes a wakeup                 *)
(* (lightweightsemaphore.h:290-304, 421-430).                              *)
THEOREM SemaphoreAlwaysBalances == Safety => []SemaphoreBalances
<1>1. Sound => SemaphoreBalances
  BY TokensSuffice DEF Sound
<1>2. QED
  BY <1>1, SoundAlways, PTL

(* For a consumer that has passed the semaphore there is an item until it  *)
(* takes one, and once it has counted itself in it never counts back       *)
(* (blockingconcurrentqueue.h:365-373, concurrentqueue.h:2574-2635).       *)
THEOREM HoldersHaveItems == Safety => []TokenIsAnItem
<1>1. Sound => TokenIsAnItem
  BY TokensSuffice DEF Sound
<1>2. QED
  BY <1>1, SoundAlways, PTL

(* A look fails only when another consumer has counted itself in since it  *)
(* began: the loop of wait_dequeue turns at the expense of somebody who    *)
(* gets on (blockingconcurrentqueue.h:370-372, concurrentqueue.h:1757-     *)
(* 1762, 2574-2576).                                                       *)
THEOREM LooksFailForOthers == Safety => TurnsOnlyForOthers
<1>. DEFINE Turn == \A c \in Consumers : LookFails(c) => began[c] < dequeueOptimisticCount
<1>1. Sound /\ [Next]_vars => [Turn]_vars
  BY FailsForOthers
<1>2. QED
  BY <1>1, SoundAlways, PTL DEF Safety, TurnsOnlyForOthers

LEMMA OnePlace ==
    ASSUME Sound, NEW b \in Blocks
    PROVE  InOnePlace(b)
<1>. DEFINE spare == {n \in 1..3 : b \in <<pool, freeList, heap>>[n]}
            used == {i \in Used : blockOf[i] = b}
<1>1. pool \cap freeList = {} /\ (pool \cup freeList) \cap heap = {}
  BY DEF Sound, TypeOK, Stored, Placed
<1>2. <<pool, freeList, heap>>[1] = pool /\ <<pool, freeList, heap>>[2] = freeList
      /\ <<pool, freeList, heap>>[3] = heap
  OBVIOUS
<1>3. 1..3 = {1, 2, 3}
  OBVIOUS
<1>4. Cardinality({}) = 0 /\ \A x : Cardinality({x}) = 1
  BY FS_EmptySet, FS_Singleton
<1>5. CASE b \in pool \cup freeList \cup heap
  <2>1. used = {}
    BY <1>5 DEF Sound, Stored, Placed
  <2>2. \E n : spare = {n}
    <3>1. CASE b \in pool
      <4>1. spare = {1}
        BY <1>1, <1>2, <1>3, <3>1
      <4>2. QED
        BY <4>1
    <3>2. CASE b \in freeList
      <4>1. spare = {2}
        BY <1>1, <1>2, <1>3, <3>2
      <4>2. QED
        BY <4>1
    <3>3. CASE b \in heap
      <4>1. spare = {3}
        BY <1>1, <1>2, <1>3, <3>3
      <4>2. QED
        BY <4>1
    <3>4. QED
      BY <1>5, <3>1, <3>2, <3>3
  <2>3. Cardinality(used) = 0
    BY <1>4, <2>1
  <2>4. Cardinality(spare) = 1
    BY <1>4, <2>2
  <2>5. QED
    BY <2>3, <2>4 DEF InOnePlace
<1>6. CASE b \notin pool \cup freeList \cup heap
  <2>1. spare = {}
    BY <1>2, <1>3, <1>6
  <2>2. PICK i \in Used : blockOf[i] = b
    BY <1>6 DEF Sound, Stored, Placed
  <2>3. used = {i}
    BY <2>2 DEF Sound, Stored, Placed
  <2>4. Cardinality(used) = 1
    BY <1>4, <2>3
  <2>5. Cardinality(spare) = 0
    BY <1>4, <2>1
  <2>6. QED
    BY <2>4, <2>5 DEF InOnePlace
<1>7. QED
  BY <1>5, <1>6

(* A block is in one place at a time and given back only when each of its  *)
(* elements has been moved out, by whichever consumer comes last: an index *)
(* always leads to the element that was stored there (concurrentqueue.h:   *)
(* 2507-2568, 2584-2628, 3087-3134).                                       *)
THEOREM BlockAlwaysKept == Safety => []BlockIsKept
<1>1. Sound => BlockIsKept
  <2> SUFFICES ASSUME Sound PROVE BlockIsKept
    OBVIOUS
  <2>1. \A b \in Blocks : InOnePlace(b)
    BY OnePlace
  <2>2. \A i \in headIndex..(tailIndex - 1) : Holds(i)
    BY DEF Sound, Stored, Elements
  <2>3. \A c \in Consumers : /\ cpc[c] = "read" => Holds(index[c])
                             /\ cpc[c] \in {"empty", "release"} => Base(index[c]) \in Used
    BY DEF Sound, Stored, Elements
  <2>4. headIndex \in Nat /\ tailIndex \in Nat
    BY IndexFacts
  <2>5. QED
    BY <2>1, <2>2, <2>3, <2>4 DEF BlockIsKept
<1>2. QED
  BY <1>1, SoundAlways, PTL
-----------------------------------------------------------------------------
(* The refinement.                                                         *)

(* The items from index h to before index t.                               *)
Items(h, t) == [n \in 1..(t - h) |-> h + n]
Held == [c \in Consumers |-> IF cpc[c] = "read" THEN index[c] + 1 ELSE item[c]]

LEMMA ItemsAdded ==
    ASSUME NEW h \in Nat, NEW t \in Nat, h <= t
    PROVE  /\ Items(h, t) \in Seq(Nat) /\ Len(Items(h, t)) = t - h
           /\ \A i \in 1..Len(Items(h, t)) : Items(h, t)[i] < t + 1
           /\ Items(h, t + 1) = Append(Items(h, t), t + 1)
<1>1. Items(h, t) \in Seq(Nat) /\ Len(Items(h, t)) = t - h
  BY DEF Items
<1>2. \A i \in 1..(t - h) : Items(h, t)[i] = h + i
  BY DEF Items
<1>3. Items(h, t + 1) = Append(Items(h, t), t + 1)
  BY <1>1, <1>2 DEF Items
<1>4. QED
  BY <1>1, <1>2, <1>3

LEMMA ItemsTaken ==
    ASSUME NEW h \in Nat, NEW t \in Nat, h < t
    PROVE  /\ Items(h, t) # <<>> /\ Head(Items(h, t)) = h + 1
           /\ Items(h + 1, t) = Tail(Items(h, t))
<1>1. Items(h, t) \in Seq(Nat) /\ Len(Items(h, t)) = t - h
  BY DEF Items
<1>2. \A i \in 1..(t - h) : Items(h, t)[i] = h + i
  BY DEF Items
<1>3. Items(h, t) # <<>> /\ Head(Items(h, t)) = h + 1
  BY <1>1, <1>2
<1>4. PICK q, n : q = Items(h, t) /\ n = t - h
  OBVIOUS
<1>5. /\ Tail(q) \in Seq(Nat) /\ Len(Tail(q)) = n - 1
      /\ \A i \in 1..(n - 1) : Tail(q)[i] = q[i + 1]
  BY <1>1, <1>3, <1>4
<1>6. Items(h + 1, t) \in Seq(Nat) /\ Len(Items(h + 1, t)) = n - 1
  BY <1>4 DEF Items
<1>7. ASSUME NEW i \in 1..(n - 1) PROVE Items(h + 1, t)[i] = Tail(q)[i]
  <2>1. i + 1 \in 1..n /\ i \in 1..(t - (h + 1))
    BY <1>4
  <2>2. Items(h + 1, t)[i] = (h + 1) + i
    BY <2>1 DEF Items
  <2>3. q[i + 1] = h + (i + 1)
    BY <1>2, <1>4, <2>1
  <2>4. QED
    BY <1>5, <2>2, <2>3
<1>8. Items(h + 1, t) = Tail(q)
  BY <1>5, <1>6, <1>7, SeqEqual
<1>9. QED
  BY <1>3, <1>4, <1>8

(* Puts and gets, as the queue and what is held show them.                 *)
Queue == Items(headIndex, tailIndex)

LEMMA FifoIs ==
    /\ Fifo!Init <=> Queue = <<>> /\ Held = [c \in Consumers |-> 0]
    /\ \A n : Fifo!Put(n) <=> /\ n \in 1..MaxItems
                              /\ \A i \in 1..Len(Queue) : Queue[i] < n
                              /\ Queue' = Append(Queue, n)
                              /\ Held' = Held
    /\ \A c : Fifo!Get(c) <=> /\ Queue # <<>> /\ Held[c] = 0
                              /\ Held' = [Held EXCEPT ![c] = Head(Queue)]
                              /\ Queue' = Tail(Queue)
    /\ \A c : Fifo!Return(c) <=> /\ Held[c] # 0
                                 /\ Held' = [Held EXCEPT ![c] = 0]
                                 /\ Queue' = Queue
BY DEF Fifo!Init, Fifo!Put, Fifo!Get, Fifo!Return, Queue, Held, Items

LEMMA HeldMove ==
    ASSUME NEW c \in Consumers, NEW n, Held'[c] = n,
           \A d \in Consumers \ {c} : Held'[d] = Held[d]
    PROVE  Held' = [Held EXCEPT ![c] = n]
<1>1. PICK f, g : f = Held /\ g = Held'
  OBVIOUS
<1>2. f = [d \in Consumers |-> f[d]] /\ g = [d \in Consumers |-> g[d]]
  BY <1>1 DEF Held
<1>3. g[c] = n /\ \A d \in Consumers \ {c} : g[d] = f[d]
  BY <1>1
<1>4. g = [f EXCEPT ![c] = n]
  BY <1>2, <1>3
<1>5. QED
  BY <1>1, <1>4

LEMMA FifoInit == Init => Fifo!Init
<1> SUFFICES ASSUME Init PROVE Fifo!Init
  OBVIOUS
<1>1. Queue = <<>>
  BY DEF Init, Queue, Items
<1>2. Held = [c \in Consumers |-> 0]
  BY DEF Init, Held
<1>3. QED
  BY <1>1, <1>2, FifoIs

(* Publish puts, Take gets and ComeBack returns; nothing else is seen.     *)
LEMMA FifoStep == Sound /\ [Next]_vars => [Fifo!Next]_(Fifo!vars)
<1> SUFFICES ASSUME Sound, [Next]_vars PROVE Fifo!Next \/ UNCHANGED Fifo!vars
  OBVIOUS
<1>. USE DEF indices, semaphore, memory, locals
<1>1. /\ headIndex \in Nat /\ tailIndex \in Nat /\ headIndex <= tailIndex
      /\ cpc \in [Consumers -> ConsumerSteps] /\ item \in [Consumers -> 0..MaxItems]
      /\ index \in [Consumers -> Nat]
  BY IndexFacts DEF Sound, TypeOK
<1>2. ASSUME UNCHANGED <<headIndex, tailIndex>>, Held' = Held PROVE UNCHANGED Fifo!vars
  <2>1. Queue' = Queue
    BY <1>2 DEF Queue, Items
  <2>2. QED
    BY <1>2, <2>1 DEF Fifo!vars, Queue, Held, Items
<1>3. ASSUME UNCHANGED <<headIndex, tailIndex, index, item>>,
             \A d \in Consumers : cpc'[d] = "read" <=> cpc[d] = "read"
      PROVE  UNCHANGED Fifo!vars
  <2>1. Held' = Held
    BY <1>3 DEF Held
  <2>2. QED
    BY <1>2, <1>3, <2>1
<1>4. CASE UNCHANGED vars
  BY <1>3, <1>4 DEF vars
<1>5. CASE StartBlock \/ WriteSlot \/ Signal \/ Post
  <2>1. UNCHANGED <<headIndex, tailIndex, index, item, cpc>>
    BY <1>5 DEF StartBlock, WriteSlot, Signal, Post
  <2>2. QED
    BY <1>3, <2>1
<1>6. CASE Publish
  <2>1. /\ UNCHANGED <<headIndex, index, item, cpc>> /\ tailIndex' = tailIndex + 1
        /\ tailIndex < MaxItems
    BY <1>6 DEF Publish, Sound, Stored, Filling, Writing
  <2>2. Held' = Held
    BY <2>1 DEF Held
  <2>3. Queue' = Items(headIndex, tailIndex + 1)
    BY <2>1 DEF Queue, Items
  <2>4. /\ Queue' = Append(Queue, tailIndex + 1)
        /\ \A i \in 1..Len(Queue) : Queue[i] < tailIndex + 1
    BY <1>1, <2>3, ItemsAdded DEF Queue
  <2>5. tailIndex + 1 \in 1..MaxItems
    BY <1>1, <2>1, SizeType
  <2>6. PICK n \in 1..MaxItems : n = tailIndex + 1
    BY <2>5
  <2>7. Fifo!Put(n)
    BY <2>2, <2>4, <2>6, FifoIs
  <2>8. QED
    BY <2>7 DEF Fifo!Next
<1>7. ASSUME NEW c \in Consumers, Consumer(c) PROVE Fifo!Next \/ UNCHANGED Fifo!vars
  <2>1. CASE TryWait(c) \/ StopSpinning(c) \/ WakeUp(c) \/ Look(c) \/ Count(c) \/ Claim(c)
             \/ SetEmpty(c) \/ Release(c)
    <3>1. UNCHANGED <<headIndex, tailIndex, index, item>>
      BY <2>1, LookSteps DEF TryWait, StopSpinning, WakeUp, Count, Claim, SetEmpty, Release
    <3>2. cpc[c] # "read" /\ \E step : step # "read" /\ Go(c, step)
      BY <2>1, LookSteps DEF TryWait, StopSpinning, WakeUp, Count, Claim, SetEmpty, Release, Looks
    <3>3. \A d \in Consumers : cpc'[d] = "read" <=> cpc[d] = "read"
      BY <1>1, <3>2 DEF Go
    <3>4. QED
      BY <1>3, <3>1, <3>3
  <2>2. CASE Take(c)
    <3>1. /\ cpc[c] = "take" /\ Go(c, "read") /\ index' = [index EXCEPT ![c] = headIndex]
          /\ headIndex' = headIndex + 1 /\ UNCHANGED <<tailIndex, item>>
      BY <2>2 DEF Take
    <3>2. headIndex < tailIndex
      BY <3>1, HolderHasItem DEF Sound
    <3>3. Queue # <<>> /\ Head(Queue) = headIndex + 1 /\ Queue' = Tail(Queue)
      <4>1. Queue' = Items(headIndex + 1, tailIndex)
        BY <3>1 DEF Queue, Items
      <4>2. QED
        BY <1>1, <3>2, <4>1, ItemsTaken DEF Queue
    <3>4. Held[c] = 0
      BY <3>1 DEF Held, Sound, Stored, Elements
    <3>5. Held'[c] = headIndex + 1 /\ \A d \in Consumers \ {c} : Held'[d] = Held[d]
      BY <1>1, <3>1 DEF Held, Go
    <3>6. Held' = [Held EXCEPT ![c] = Head(Queue)]
      BY <3>3, <3>5, HeldMove
    <3>7. Fifo!Get(c)
      BY <3>3, <3>4, <3>6, FifoIs
    <3>8. QED
      BY <3>7 DEF Fifo!Next
  <2>3. CASE Read(c)
    <3>1. /\ cpc[c] = "read" /\ Go(c, "empty") /\ UNCHANGED <<headIndex, tailIndex, index>>
          /\ item' = [item EXCEPT ![c] = slots[BlockFor(c)][Slot(c)]]
          /\ item'[c] = index[c] + 1
      BY <2>3, ReadStored DEF Read
    <3>2. \A d \in Consumers : Held'[d] = Held[d]
      BY <1>1, <3>1 DEF Held, Go
    <3>3. Held' = Held
      BY <3>2 DEF Held
    <3>4. QED
      BY <1>2, <3>1, <3>3
  <2>4. CASE ComeBack(c)
    <3>1. /\ cpc[c] = "busy" /\ Go(c, "wait") /\ item' = [item EXCEPT ![c] = 0]
          /\ UNCHANGED <<headIndex, tailIndex, index>>
      BY <2>4 DEF ComeBack
    <3>2. Held[c] # 0
      BY <3>1 DEF Held, Sound, Stored, Elements
    <3>3. Held'[c] = 0 /\ \A d \in Consumers \ {c} : Held'[d] = Held[d]
      BY <1>1, <3>1 DEF Held, Go
    <3>4. Held' = [Held EXCEPT ![c] = 0]
      BY <3>3, HeldMove
    <3>5. Queue' = Queue
      BY <3>1 DEF Queue, Items
    <3>6. Fifo!Return(c)
      BY <3>2, <3>4, <3>5, FifoIs
    <3>7. QED
      BY <3>6 DEF Fifo!Next
  <2>5. QED
    BY <1>7, <2>1, <2>2, <2>3, <2>4 DEF Consumer
<1>8. QED
  BY <1>4, <1>5, <1>6, <1>7 DEF Next, Producer

(* With any number of consumers, blocks of any size and any interleaving,  *)
(* what is enqueued comes out in its order, each item once: the safety     *)
(* part of ImplementsFifo (MPMCTaskExecutor.hpp:55, 79).                   *)
THEOREM RefinesFifo == Safety => Fifo!Safety
<1>1. Init => Fifo!Init
  BY FifoInit
<1>2. Sound /\ [Next]_vars => [Fifo!Next]_(Fifo!vars)
  BY FifoStep
<1>3. QED
  BY <1>1, <1>2, SoundAlways, PTL DEF Safety, Fifo!Safety
=============================================================================
