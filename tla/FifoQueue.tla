------------------------------ MODULE FifoQueue ------------------------------
(***************************************************************************)
(* What a blocking queue with one producer promises: items come out in the *)
(* order in which they went in, each to one consumer, and a consumer waits *)
(* only while there is none.  TaskExecutor takes moodycamel's queue to be  *)
(* this.  Items are numbered in the order in which they are put.           *)
(***************************************************************************)
EXTENDS Naturals, Sequences

CONSTANTS Consumers, MaxItems

VARIABLES queue,   \* the items put and not got
          held     \* held[c]: the item consumer c has got last, 0 if it waits

vars == <<queue, held>>

Init == queue = <<>> /\ held = [c \in Consumers |-> 0]

(* n: the number of the item, one more than the last.                      *)
Put(n) ==
    /\ n \in 1..MaxItems
    /\ \A i \in 1..Len(queue) : queue[i] < n
    /\ queue' = Append(queue, n)
    /\ UNCHANGED held

Get(c) ==
    /\ queue # <<>> /\ held[c] = 0
    /\ held' = [held EXCEPT ![c] = Head(queue)]
    /\ queue' = Tail(queue)

Return(c) ==
    /\ held[c] # 0
    /\ held' = [held EXCEPT ![c] = 0]
    /\ UNCHANGED queue

Next == \/ \E n \in 1..MaxItems : Put(n)
        \/ \E c \in Consumers : Get(c) \/ Return(c)

Safety == Init /\ [][Next]_vars

Spec == /\ Safety
        /\ WF_vars(\E c \in Consumers : Get(c))
        /\ \A c \in Consumers : WF_vars(Return(c))
=============================================================================
