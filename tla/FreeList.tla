------------------------------ MODULE FreeList ------------------------------
(***************************************************************************)
(* moodycamel's FreeList: a lock-free stack of the blocks that a queue     *)
(* uses again.  The workers give back blocks of tasks and the epoll thread *)
(* takes them; in the return channel it is the other way round.            *)
(*                                                                         *)
(* freeListRefs counts who may look at a node, the list being one of them. *)
(* Its upper bit says that the node should be on the list but could not be *)
(* put there because of someone who looks at it: who leaves last does it.  *)
(* Each atomic operation is a step; steps are sequentially consistent.     *)
(***************************************************************************)
EXTENDS Integers, FiniteSets

CONSTANTS Givers,     \* threads that call add
          Takers,     \* threads that call try_get
          Nodes,
          Null        \* the null pointer

Threads == Givers \cup Takers

ListAssumption == Null \notin Nodes /\ IsFiniteSet(Threads) /\ IsFiniteSet(Nodes)

VARIABLES head,   \* freeListHead
          next,   \* next[n]: freeListNext
          refs,   \* refs[n]: freeListRefs without its upper bit
          should, \* should[n]: SHOULD_BE_ON_FREELIST, the upper bit
          inUse,  \* blocks that have been handed out, and hold items
          pc,     \* pc[t]: the operation that thread t does next, see Steps
          node,   \* node[t]: the node that t adds, or has taken a reference to
          top,    \* top[t]: the local variable head
          below,  \* below[t]: the local variable next, in try_get
          word,   \* word[t]: the local variable refs, both parts of it
          getting \* getting[t]: t is in try_get

shared == <<head, next, refs, should, inUse>>
locals == <<node, top, below, word, getting>>
vars == <<shared, pc, locals>>

Steps == {"idle", "mark", "loadHead", "link", "activate", "push", "giveUp",
          "start", "loadRefs", "grab", "loadNext", "pop", "drop", "unref"}

TypeOK ==
    /\ head \in Nodes \cup {Null}
    /\ next \in [Nodes -> Nodes \cup {Null}]
    /\ refs \in [Nodes -> 0..(Cardinality(Threads) + 2)]
    /\ should \in [Nodes -> BOOLEAN]
    /\ inUse \subseteq Nodes
    /\ pc \in [Threads -> Steps]
    /\ {node, top, below} \subseteq [Threads -> Nodes \cup {Null}]
    /\ word \in [Threads -> [refs : Nat, should : BOOLEAN]]
    /\ getting \in [Threads -> BOOLEAN]

(* Every block has been handed out once, from the initial pool.            *)
NoWord == [refs |-> 0, should |-> FALSE]

Init ==
    /\ head = Null
    /\ next = [n \in Nodes |-> Null]
    /\ refs = [n \in Nodes |-> 0] /\ should = [n \in Nodes |-> FALSE]
    /\ inUse = Nodes
    /\ pc = [t \in Threads |-> "idle"]
    /\ node = [t \in Threads |-> Null] /\ top = node /\ below = node
    /\ word = [t \in Threads |-> NoWord]
    /\ getting = [t \in Threads |-> FALSE]
-----------------------------------------------------------------------------
Go(t, step) == pc' = [pc EXCEPT ![t] = step]
Load(t) == top' = [top EXCEPT ![t] = head]

(* A local variable that is not used again is cleared, to have fewer       *)
(* states.                                                                 *)
Forget(t) == node' = [node EXCEPT ![t] = Null]

(* add                                                                     *)
Add(t, n) ==
    /\ pc[t] = "idle" /\ n \in inUse
    /\ inUse' = inUse \ {n}
    /\ node' = [node EXCEPT ![t] = n]
    /\ Go(t, "mark")
    /\ UNCHANGED <<head, next, refs, should, top, below, word, getting>>

(* The last one who has a reference, and nobody else, puts it there.       *)
NoMatterWho(n) == TRUE
NobodyLooks(n) == refs[n] = 0

Mark(t) ==
    /\ pc[t] = "mark"
    /\ should' = [should EXCEPT ![node[t]] = TRUE]
    /\ IF NobodyLooks(node[t]) THEN Go(t, "loadHead") /\ UNCHANGED node
                              ELSE Go(t, "idle") /\ Forget(t)
    /\ UNCHANGED <<head, next, refs, inUse, top, below, word, getting>>

(* add_knowing_refcount_is_zero, from add or from try_get, which goes on   *)
(* with the head it has found before.                                      *)
LoadHead(t) ==
    /\ pc[t] = "loadHead"
    /\ below' = [below EXCEPT ![t] = head]
    /\ Go(t, "link")
    /\ UNCHANGED <<shared, node, top, word, getting>>

Link(t) ==
    /\ pc[t] = "link"
    /\ next' = [next EXCEPT ![node[t]] = below[t]]
    /\ Go(t, "activate")
    /\ UNCHANGED <<head, refs, should, inUse, locals>>

Activate(t) ==
    /\ pc[t] = "activate"
    /\ refs' = [refs EXCEPT ![node[t]] = 1]
    /\ should' = [should EXCEPT ![node[t]] = FALSE]
    /\ Go(t, "push")
    /\ UNCHANGED <<head, next, inUse, locals>>

LoopsOn(t) == IF getting[t] THEN "loadRefs" ELSE "idle"

Push(t) ==
    /\ pc[t] = "push"
    /\ IF head = below[t]
          THEN /\ head' = node[t]
               /\ Go(t, LoopsOn(t)) /\ Forget(t) /\ below' = [below EXCEPT ![t] = Null]
          ELSE /\ below' = [below EXCEPT ![t] = head]
               /\ Go(t, "giveUp") /\ UNCHANGED <<head, node>>
    /\ UNCHANGED <<next, refs, should, inUse, top, word, getting>>

(* fetch_add(SHOULD_BE_ON_FREELIST - 1)                                    *)
LeftToMe(n) == refs[n] = 1

GiveUp(t) ==
    /\ pc[t] = "giveUp"
    /\ refs' = [refs EXCEPT ![node[t]] = @ - 1]
    /\ should' = [should EXCEPT ![node[t]] = TRUE]
    /\ IF LeftToMe(node[t])
          THEN Go(t, "link") /\ UNCHANGED <<node, below>>
          ELSE Go(t, LoopsOn(t)) /\ Forget(t) /\ below' = [below EXCEPT ![t] = Null]
    /\ UNCHANGED <<head, next, inUse, top, word, getting>>

(* try_get                                                                 *)
TryGet(t) ==
    /\ pc[t] = "idle"
    /\ getting' = [getting EXCEPT ![t] = TRUE]
    /\ Go(t, "start")
    /\ UNCHANGED <<shared, node, top, below, word>>

Start(t) ==
    /\ pc[t] = "start"
    /\ Load(t)
    /\ Go(t, "loadRefs")
    /\ UNCHANGED <<shared, node, below, word, getting>>

FoundEmpty(t) ==
    /\ pc[t] = "loadRefs" /\ top[t] = Null
    /\ getting' = [getting EXCEPT ![t] = FALSE]
    /\ Go(t, "idle")
    /\ UNCHANGED <<shared, node, top, below, word>>

LoadRefs(t) ==
    /\ pc[t] = "loadRefs" /\ top[t] # Null
    /\ word' = [word EXCEPT ![t] = [refs |-> refs[top[t]], should |-> should[top[t]]]]
    /\ Go(t, IF refs[top[t]] = 0 THEN "start" ELSE "grab")
    /\ UNCHANGED <<shared, node, top, below, getting>>

Grab(t) ==
    /\ pc[t] = "grab"
    /\ IF word[t] = [refs |-> refs[top[t]], should |-> should[top[t]]]
          THEN /\ refs' = [refs EXCEPT ![top[t]] = @ + 1]
               /\ node' = [node EXCEPT ![t] = top[t]]
               /\ Go(t, "loadNext")
          ELSE Go(t, "start") /\ UNCHANGED <<refs, node>>
    /\ word' = [word EXCEPT ![t] = NoWord]
    /\ UNCHANGED <<head, next, should, inUse, top, below, getting>>

LoadNext(t) ==
    /\ pc[t] = "loadNext"
    /\ below' = [below EXCEPT ![t] = next[node[t]]]
    /\ Go(t, "pop")
    /\ UNCHANGED <<shared, node, top, word, getting>>

(* compare_exchange_strong gives a failed one the new head.                *)
Pop(t) ==
    /\ pc[t] = "pop"
    /\ IF head = node[t]
          THEN /\ head' = below[t]
               /\ Go(t, "drop") /\ UNCHANGED top
          ELSE /\ Load(t)
               /\ Go(t, "unref") /\ UNCHANGED head
    /\ below' = [below EXCEPT ![t] = Null]
    /\ UNCHANGED <<next, refs, should, inUse, node, word, getting>>

(* One for this thread, one for the list.                                  *)
Drop(t) ==
    /\ pc[t] = "drop"
    /\ refs' = [refs EXCEPT ![node[t]] = @ - 2]
    /\ inUse' = inUse \cup {node[t]}
    /\ getting' = [getting EXCEPT ![t] = FALSE]
    /\ Go(t, "idle") /\ Forget(t) /\ top' = [top EXCEPT ![t] = Null]
    /\ UNCHANGED <<head, next, should, below, word>>

NeverAdds(n) == FALSE
MustAdd(n) == refs[n] = 1 /\ should[n]

Unref(t) ==
    /\ pc[t] = "unref"
    /\ refs' = [refs EXCEPT ![node[t]] = @ - 1]
    /\ IF MustAdd(node[t]) THEN Go(t, "loadHead") /\ UNCHANGED node
                           ELSE Go(t, "loadRefs") /\ Forget(t)
    /\ UNCHANGED <<head, next, should, inUse, top, below, word, getting>>
-----------------------------------------------------------------------------
Step(t) ==
    \/ Mark(t) \/ LoadHead(t) \/ Link(t) \/ Activate(t) \/ Push(t) \/ GiveUp(t)
    \/ Start(t) \/ FoundEmpty(t) \/ LoadRefs(t) \/ Grab(t) \/ LoadNext(t) \/ Pop(t)
    \/ Drop(t) \/ Unref(t)

Next == \/ \E t \in Threads : Step(t)
        \/ \E t \in Takers : TryGet(t)
        \/ \E t \in Givers, n \in Nodes : Add(t, n)

Safety == Init /\ [][Next]_vars
-----------------------------------------------------------------------------
(* What can be reached from a node by way of a link, which is what every   *)
(* set that has the node and goes along with the link has.                 *)
Closed(S, link) == \A n \in S \ {Null} : link[n] \in S

Reached(from, link) ==
    {n \in Nodes \cup {Null} :
        \A S \in SUBSET (Nodes \cup {Null}) : from \in S /\ Closed(S, link) => n \in S}

(* The list.                                                               *)
Chain == Reached(head, next)

(* Nodes that were given back to the list, and are not taken off it yet.   *)
Back ==
    Nodes \ (inUse \cup {node[t] : t \in {u \in Threads : pc[u] \in {"mark", "drop"}}})

(* The comments say of the upper bit that it is clear when it is set by an *)
(* addition, which would clear it otherwise, and of the loop that adds a   *)
(* node that it is run once at a time for a node (concurrentqueue.h:1484,  *)
(* 1513-1515, 1538-1540, 1552).                                            *)
Adding(t) == pc[t] \in {"mark", "loadHead", "link", "activate", "push", "giveUp"}

AddedOnce ==
    /\ \A t \in Threads : pc[t] \in {"mark", "giveUp", "drop"} => ~should[node[t]]
    /\ \A t, u \in Threads : Adding(t) /\ Adding(u) /\ node[t] = node[u] => t = u

(* No block is handed out twice, and none is lost: the list ends, no node  *)
(* on it is in use, and a node that was given back is on the list or       *)
(* somebody is about to put it there; the add that is left to the last one *)
(* with a reference is always done, and done once (concurrentqueue.h:      *)
(* 1479-1530, 1536-1558).                                                  *)
NoBlockIsLost ==
    /\ Null \in Chain /\ Chain \ {Null} \subseteq Back
    /\ \A n \in Back : n \in Chain \/ \E t \in Threads : node[t] = n
    /\ AddedOnce

(* Whom freeListRefs counts: those who look at a node, and the list, whose *)
(* reference a thread has before the node is on it and after it is off.    *)
Looking(n) == {t \in Threads : node[t] = n /\ pc[t] \in {"loadNext", "pop", "drop", "unref"}}
Listing(n) == {t \in Threads : node[t] = n /\ pc[t] \in {"push", "giveUp", "drop"}}

RefsAreCounted ==
    \A n \in Nodes :
        refs[n] = Cardinality(Looking(n)) + Cardinality(Listing(n)) + (IF n \in Chain THEN 1 ELSE 0)

(* The compare-and-swap of try_get never succeeds with an old next: while  *)
(* a thread has its reference the node may leave the list, but not come    *)
(* back (concurrentqueue.h:1501-1510).  It is because freeListRefs counts  *)
(* those who look at a node and the list itself, until the thread that     *)
(* took the node off has subtracted both (1515-1517, 1546-1553).           *)
PopIsFresh ==
    /\ \A t \in Threads : pc[t] = "pop" /\ head = node[t] => below[t] = next[node[t]]
    /\ RefsAreCounted
=============================================================================
