--------------------------- MODULE FreeListProofs ---------------------------
(***************************************************************************)
(* That moodycamel's free list is right, for any threads and any nodes.    *)
(*                                                                         *)
(* A node is in one of four places: handed out, on the list, with the one  *)
(* thread that puts it on the list or has taken it off, or left to those   *)
(* who look at it.  Only in the last, and with a thread that is alone with *)
(* the node, is the upper bit of freeListRefs set; a thread is alone with  *)
(* it while the count is zero, and then nobody can come to look at it.     *)
(***************************************************************************)
EXTENDS FreeList, FiniteSetTheorems, TLAPS

(* The thread that may put the node on the list, or has just taken it off; *)
(* among them one that is alone with the node.                             *)
Private == {"loadHead", "link", "activate"}
Owning == Private \cup {"mark", "push", "giveUp", "drop"}

Owns(t, n) == node[t] = n /\ pc[t] \in Owning
Looks(t, n) == node[t] = n /\ pc[t] \in {"loadNext", "pop", "drop", "unref"}
Lists(t, n) == node[t] = n /\ pc[t] \in {"push", "giveUp", "drop"}

(* As TypeOK, but for the bound of the counts, which is not inductive.     *)
Typed ==
    /\ head \in Nodes \cup {Null}
    /\ next \in [Nodes -> Nodes \cup {Null}]
    /\ refs \in [Nodes -> Nat]
    /\ should \in [Nodes -> BOOLEAN]
    /\ inUse \subseteq Nodes
    /\ pc \in [Threads -> Steps]
    /\ node \in [Threads -> Nodes \cup {Null}]
    /\ top \in [Threads -> Nodes \cup {Null}]
    /\ below \in [Threads -> Nodes \cup {Null}]
    /\ word \in [Threads -> [refs : Nat, should : BOOLEAN]]
    /\ getting \in [Threads -> BOOLEAN]

(* What a thread knows of its node: the link it has written or read is the *)
(* link of the node until it tries the compare-and-swap.                   *)
Locals ==
    \A t \in Threads :
        /\ node[t] = Null <=> pc[t] \in {"idle", "start", "loadRefs", "grab"}
        /\ pc[t] = "grab" => top[t] # Null /\ word[t].refs # 0
        /\ pc[t] \in {"activate", "push", "pop"} => next[node[t]] = below[t]

PlacedAt(n) ==
    /\ \A t, u \in Threads : Owns(t, n) /\ Owns(u, n) => t = u
    /\ n \in inUse \/ n \in Chain => ~should[n] /\ \A t \in Threads : ~Owns(t, n)
    /\ ~(n \in inUse /\ n \in Chain)
    /\ \A t \in Threads :
          Owns(t, n) => IF pc[t] \in Private THEN should[n] /\ refs[n] = 0 ELSE ~should[n]
    /\ n \notin inUse /\ n \notin Chain /\ (\A t \in Threads : ~Owns(t, n))
          => should[n] /\ \E t \in Threads : Looks(t, n)

Placed == \A n \in Nodes : PlacedAt(n)

(* The list ends, and has no two ways to a node.                           *)
Linked ==
    /\ Null \in Chain
    /\ \A m \in Chain \ {Null} :
          /\ next[m] # head
          /\ \A n \in Chain \ {Null} : next[m] = next[n] /\ next[m] # Null => m = n

Sound == Typed /\ Locals /\ Placed /\ Linked /\ RefsAreCounted
-----------------------------------------------------------------------------
(* The list is closed under next, and is the least such set with head.     *)
LEMMA ReachedIsClosed ==
    ASSUME NEW from \in Nodes \cup {Null}, NEW link \in [Nodes -> Nodes \cup {Null}]
    PROVE  /\ Reached(from, link) \subseteq Nodes \cup {Null}
           /\ from \in Reached(from, link)
           /\ Closed(Reached(from, link), link)
BY DEF Reached, Closed

LEMMA ReachedIsLeast ==
    ASSUME NEW from \in Nodes \cup {Null}, NEW link \in [Nodes -> Nodes \cup {Null}],
           NEW S \in SUBSET (Nodes \cup {Null}), from \in S, Closed(S, link)
    PROVE  Reached(from, link) \subseteq S
BY DEF Reached

LEMMA PushReaches ==
    ASSUME ListAssumption, NEW link \in [Nodes -> Nodes \cup {Null}], NEW n \in Nodes
    PROVE  Reached(n, link) = Reached(link[n], link) \cup {n}
<1> DEFINE old == Reached(link[n], link)
           new == Reached(n, link)
<1>1. link[n] \in Nodes \cup {Null} /\ n # Null
  BY DEF ListAssumption
<1>2. /\ old \subseteq Nodes \cup {Null} /\ link[n] \in old /\ Closed(old, link)
      /\ new \subseteq Nodes \cup {Null} /\ n \in new /\ Closed(new, link)
  BY <1>1, ReachedIsClosed
<1> HIDE DEF old, new
<1>3. Closed(old \cup {n}, link) /\ old \cup {n} \in SUBSET (Nodes \cup {Null})
  BY <1>2 DEF Closed
<1>4. new \subseteq old \cup {n}
  BY <1>3, ReachedIsLeast DEF new
<1>5. link[n] \in new
  BY <1>1, <1>2 DEF Closed
<1>6. old \subseteq new
  BY <1>1, <1>2, <1>5, ReachedIsLeast DEF old
<1>7. new = old \cup {n}
  BY <1>2, <1>4, <1>6
<1> QED BY <1>7 DEF old, new

(* ... unless something on the list leads back to its head.                *)
LEMMA PopReaches ==
    ASSUME ListAssumption, NEW link \in [Nodes -> Nodes \cup {Null}], NEW n \in Nodes,
           \A m \in Reached(n, link) \ {Null} : link[m] # n
    PROVE  Reached(link[n], link) = Reached(n, link) \ {n}
<1> DEFINE old == Reached(n, link)
           new == Reached(link[n], link)
<1>1. link[n] \in Nodes \cup {Null} /\ n # Null
  BY DEF ListAssumption
<1>2. /\ old \subseteq Nodes \cup {Null} /\ n \in old /\ Closed(old, link)
      /\ \A m \in old \ {Null} : link[m] # n
  BY ReachedIsClosed
<1> HIDE DEF old
<1>3. /\ Closed(old \ {n}, link) /\ link[n] \in old \ {n}
      /\ old \ {n} \in SUBSET (Nodes \cup {Null})
  BY <1>1, <1>2 DEF Closed
<1>4. new \subseteq old \ {n}
  BY <1>1, <1>3, ReachedIsLeast
<1>5. old = new \cup {n}
  BY PushReaches DEF old
<1>6. new = old \ {n}
  BY <1>4, <1>5
<1> QED BY <1>6 DEF old

LEMMA LinkReaches ==
    ASSUME NEW from \in Nodes \cup {Null}, NEW link \in [Nodes -> Nodes \cup {Null}],
           NEW n \in Nodes, n \notin Reached(from, link), NEW to \in Nodes \cup {Null}
    PROVE  Reached(from, [link EXCEPT ![n] = to]) = Reached(from, link)
<1> DEFINE new == [link EXCEPT ![n] = to]
           R == Reached(from, link)
           S == Reached(from, new)
<1>1. new \in [Nodes -> Nodes \cup {Null}] /\ \A m \in Nodes : m # n => new[m] = link[m]
  OBVIOUS
<1> HIDE DEF new
<1>2. /\ R \subseteq Nodes \cup {Null} /\ from \in R /\ Closed(R, link) /\ n \notin R
      /\ S \subseteq Nodes \cup {Null} /\ from \in S /\ Closed(S, new)
  BY <1>1, ReachedIsClosed
<1> HIDE DEF R, S
<1>3. Closed(R, new)
  BY <1>1, <1>2 DEF Closed
<1>4. S \subseteq R
  BY <1>1, <1>2, <1>3, ReachedIsLeast DEF S
<1>5. Closed(S, link)
  BY <1>1, <1>2, <1>4 DEF Closed
<1>6. R \subseteq S
  BY <1>2, <1>5, ReachedIsLeast DEF R
<1> QED BY <1>4, <1>6 DEF R, S, new
-----------------------------------------------------------------------------
(* Counting.  Only thread t moves; who else looks at a node still does.    *)
One(b) == IF b THEN 1 ELSE 0

Alone(t) == \A u \in Threads \ {t} : UNCHANGED <<pc[u], node[u]>>

LEMMA CountApart ==
    ASSUME NEW S, IsFiniteSet(S), NEW t
    PROVE  /\ Cardinality(S \ {t}) \in Nat
           /\ Cardinality(S) = Cardinality(S \ {t}) + One(t \in S)
<1>1. Cardinality(S) \in Nat /\ Cardinality(S \ {t}) \in Nat
  BY FS_CardinalityType, FS_RemoveElement
<1>2. Cardinality(S \ {t}) = IF t \in S THEN Cardinality(S) - 1 ELSE Cardinality(S)
  BY FS_RemoveElement
<1> QED BY <1>1, <1>2 DEF One

LEMMA CountMoves ==
    ASSUME ListAssumption, NEW t \in Threads, Alone(t), NEW n \in Nodes
    PROVE  \E k, m \in Nat :
              /\ Cardinality(Looking(n)) = k + One(Looks(t, n))
              /\ Cardinality(Looking(n)') = k + One(Looks(t, n)')
              /\ Cardinality(Listing(n)) = m + One(Lists(t, n))
              /\ Cardinality(Listing(n)') = m + One(Lists(t, n)')
<1>1. /\ Looking(n) \in SUBSET Threads /\ Looking(n)' \in SUBSET Threads
      /\ Listing(n) \in SUBSET Threads /\ Listing(n)' \in SUBSET Threads
  BY DEF Looking, Listing
<1>2. /\ IsFiniteSet(Looking(n)) /\ IsFiniteSet(Looking(n)')
      /\ IsFiniteSet(Listing(n)) /\ IsFiniteSet(Listing(n)')
  BY <1>1, FS_Subset DEF ListAssumption
<1>3. /\ Looking(n) \ {t} = Looking(n)' \ {t} /\ Listing(n) \ {t} = Listing(n)' \ {t}
  BY DEF Alone, Looking, Listing
<1>4. /\ t \in Looking(n) <=> Looks(t, n)
      /\ t \in Looking(n)' <=> Looks(t, n)'
      /\ t \in Listing(n) <=> Lists(t, n)
      /\ t \in Listing(n)' <=> Lists(t, n)'
  BY DEF Looking, Listing, Looks, Lists
<1>5. /\ Cardinality(Looking(n)) = Cardinality(Looking(n) \ {t}) + One(t \in Looking(n))
      /\ Cardinality(Looking(n)') = Cardinality(Looking(n)' \ {t}) + One(t \in Looking(n)')
      /\ Cardinality(Listing(n)) = Cardinality(Listing(n) \ {t}) + One(t \in Listing(n))
      /\ Cardinality(Listing(n)') = Cardinality(Listing(n)' \ {t}) + One(t \in Listing(n)')
      /\ Cardinality(Looking(n) \ {t}) \in Nat /\ Cardinality(Listing(n) \ {t}) \in Nat
  BY <1>2, CountApart
<1> QED BY <1>3, <1>4, <1>5 DEF One

(* The count of a node is right after a step if it changes by as much as   *)
(* the one thread that moves, and the list, change it.                     *)
LEMMA CountedStays ==
    ASSUME ListAssumption, NEW t \in Threads, Alone(t), NEW n \in Nodes,
           refs[n] \in Nat, refs'[n] \in Int,
           refs[n] = Cardinality(Looking(n)) + Cardinality(Listing(n)) + One(n \in Chain),
           refs'[n] - refs[n] = One(Looks(t, n)') - One(Looks(t, n))
                              + One(Lists(t, n)') - One(Lists(t, n))
                              + One((n \in Chain)') - One(n \in Chain)
    PROVE  refs'[n] = Cardinality(Looking(n)') + Cardinality(Listing(n)') + One((n \in Chain)')
<1>1. PICK k, m \in Nat :
              /\ Cardinality(Looking(n)) = k + One(Looks(t, n))
              /\ Cardinality(Looking(n)') = k + One(Looks(t, n)')
              /\ Cardinality(Listing(n)) = m + One(Lists(t, n))
              /\ Cardinality(Listing(n)') = m + One(Lists(t, n)')
  BY CountMoves
<1> QED BY <1>1 DEF One

LEMMA CountedFromDeltas ==
    ASSUME ListAssumption, NEW t \in Threads, Alone(t), Typed, Typed', RefsAreCounted,
           \A n \in Nodes :
              refs'[n] - refs[n] = One(Looks(t, n)') - One(Looks(t, n))
                                 + One(Lists(t, n)') - One(Lists(t, n))
                                 + One((n \in Chain)') - One(n \in Chain)
    PROVE  RefsAreCounted'
<1>1. ASSUME NEW n \in Nodes
      PROVE  refs'[n] = Cardinality(Looking(n)') + Cardinality(Listing(n)') + One((n \in Chain)')
  <2>1. refs[n] \in Nat /\ refs'[n] \in Int
    BY DEF Typed
  <2>2. refs[n] = Cardinality(Looking(n)) + Cardinality(Listing(n)) + One(n \in Chain)
    BY DEF RefsAreCounted, One
  <2> QED BY <2>1, <2>2, CountedStays
<1> QED BY <1>1 DEF RefsAreCounted, One

(* A node with references that is neither on the list nor being put there  *)
(* has someone who looks at it, and one more if it has another.            *)
LEMMA SomeoneLooks ==
    ASSUME ListAssumption, RefsAreCounted, Typed, NEW n \in Nodes, n \notin Chain,
           NEW t \in Threads, \A u \in Threads \ {t} : ~Lists(u, n),
           refs[n] > One(Looks(t, n)) + One(Lists(t, n))
    PROVE  \E u \in Threads \ {t} : Looks(u, n)
<1> SUFFICES ASSUME \A u \in Threads \ {t} : ~Looks(u, n)
             PROVE  FALSE
  OBVIOUS
<1>1. Looking(n) \ {t} = {} /\ Listing(n) \ {t} = {}
  BY DEF Looking, Listing, Looks, Lists
<1>2. /\ t \in Looking(n) <=> Looks(t, n)
      /\ t \in Listing(n) <=> Lists(t, n)
  BY DEF Looking, Listing, Looks, Lists
<1>3. IsFiniteSet(Looking(n)) /\ IsFiniteSet(Listing(n))
  <2>1. Looking(n) \in SUBSET Threads /\ Listing(n) \in SUBSET Threads
    BY DEF Looking, Listing
  <2> QED BY <2>1, FS_Subset DEF ListAssumption
<1>4. /\ Cardinality(Looking(n)) = 0 + One(t \in Looking(n))
      /\ Cardinality(Listing(n)) = 0 + One(t \in Listing(n))
  BY <1>1, <1>3, CountApart, FS_EmptySet
<1>5. refs[n] = Cardinality(Looking(n)) + Cardinality(Listing(n))
  BY <1>4 DEF RefsAreCounted, One
<1> QED BY <1>2, <1>4, <1>5 DEF One, Typed

(* Nobody looks at a node without references, and it is nowhere.           *)
LEMMA NobodyLooksAtZero ==
    ASSUME ListAssumption, RefsAreCounted, Typed, NEW n \in Nodes, refs[n] = 0
    PROVE  n \notin Chain /\ \A t \in Threads : ~Looks(t, n) /\ ~Lists(t, n)
<1>1. IsFiniteSet(Looking(n)) /\ IsFiniteSet(Listing(n))
  <2>1. Looking(n) \in SUBSET Threads /\ Listing(n) \in SUBSET Threads
    BY DEF Looking, Listing
  <2> QED BY <2>1, FS_Subset DEF ListAssumption
<1>2. Cardinality(Looking(n)) \in Nat /\ Cardinality(Listing(n)) \in Nat
  BY <1>1, FS_CardinalityType
<1>3. refs[n] = Cardinality(Looking(n)) + Cardinality(Listing(n)) + One(n \in Chain)
  BY DEF RefsAreCounted, One
<1>4. Cardinality(Looking(n)) = 0 /\ Cardinality(Listing(n)) = 0 /\ n \notin Chain
  BY <1>2, <1>3 DEF One
<1>5. Looking(n) = {} /\ Listing(n) = {}
  BY <1>1, <1>4, FS_EmptySet
<1> QED BY <1>4, <1>5 DEF Looking, Listing, Looks, Lists

LEMMA ReferencesOfOne ==
    ASSUME ListAssumption, RefsAreCounted, Typed, NEW n \in Nodes, NEW t \in Threads
    PROVE  refs[n] >= One(Looks(t, n)) + One(Lists(t, n)) + One(n \in Chain)
<1>1. IsFiniteSet(Looking(n)) /\ IsFiniteSet(Listing(n))
  <2>1. Looking(n) \in SUBSET Threads /\ Listing(n) \in SUBSET Threads
    BY DEF Looking, Listing
  <2> QED BY <2>1, FS_Subset DEF ListAssumption
<1>2. /\ Cardinality(Looking(n)) = Cardinality(Looking(n) \ {t}) + One(t \in Looking(n))
      /\ Cardinality(Listing(n)) = Cardinality(Listing(n) \ {t}) + One(t \in Listing(n))
      /\ Cardinality(Looking(n) \ {t}) \in Nat /\ Cardinality(Listing(n) \ {t}) \in Nat
  BY <1>1, CountApart
<1>3. refs[n] = Cardinality(Looking(n)) + Cardinality(Listing(n)) + One(n \in Chain)
  BY DEF RefsAreCounted, One
<1>4. /\ t \in Looking(n) <=> Looks(t, n)
      /\ t \in Listing(n) <=> Lists(t, n)
  BY DEF Looking, Listing, Looks, Lists
<1> QED BY <1>2, <1>3, <1>4 DEF One
-----------------------------------------------------------------------------
(* The head, the links and what depends on them stay when the list does    *)
(* and the links of what is on it do.                                      *)
LEMMA ChainTyped ==
    ASSUME Typed
    PROVE  Chain \subseteq Nodes \cup {Null} /\ head \in Chain /\ Closed(Chain, next)
BY ReachedIsClosed DEF Typed, Chain

LEMMA SameChain ==
    ASSUME UNCHANGED <<head, next>>
    PROVE  Chain' = Chain
BY DEF Chain, Reached, Closed

(* A step in which nobody comes to own or to look at a node, or ceases to. *)
LEMMA QuietStep ==
    ASSUME ListAssumption, Sound, NEW t \in Threads, Alone(t),
           Typed', Locals', Linked', Chain' = Chain, UNCHANGED <<refs, should, inUse>>,
           \A n \in Nodes : /\ Owns(t, n)' <=> Owns(t, n)
                            /\ Looks(t, n)' <=> Looks(t, n)
                            /\ Lists(t, n)' <=> Lists(t, n),
           pc'[t] \in Private <=> pc[t] \in Private
    PROVE  Sound'
<1>1. \A n \in Nodes, u \in Threads : /\ Owns(u, n)' <=> Owns(u, n)
                                      /\ Looks(u, n)' <=> Looks(u, n)
                                      /\ pc'[u] \in Private <=> pc[u] \in Private
  BY DEF Alone, Owns, Looks
<1>2. Placed'
  BY <1>1 DEF Sound, Placed, Private, PlacedAt
<1>3. RefsAreCounted'
  <2>1. \A n \in Nodes :
              refs'[n] - refs[n] = One(Looks(t, n)') - One(Looks(t, n))
                                 + One(Lists(t, n)') - One(Lists(t, n))
                                 + One((n \in Chain)') - One(n \in Chain)
    BY DEF One, Sound, Typed
  <2> QED BY <2>1, CountedFromDeltas DEF Sound
<1> QED BY <1>2, <1>3 DEF Sound

LEMMA LinkedStays ==
    ASSUME Sound, UNCHANGED <<head, next>>
    PROVE  Linked'
BY SameChain DEF Sound, Linked

(* The steps of try_get that change nothing but what a thread knows.       *)
LEMMA TryGetQuietly ==
    ASSUME ListAssumption, Sound, NEW t \in Threads,
           \/ TryGet(t) \/ Start(t) \/ FoundEmpty(t) \/ LoadRefs(t)
    PROVE  Sound'
<1>1. UNCHANGED <<shared, node, below>> /\ Alone(t)
  BY DEF TryGet, Start, FoundEmpty, LoadRefs, Alone, Go, Sound, Typed
<1>2. Typed'
  <2>1. CASE TryGet(t) BY <2>1 DEF TryGet, Go, Sound, Typed, shared, Steps
  <2>2. CASE Start(t) BY <2>2 DEF Start, Load, Go, Sound, Typed, shared, Steps
  <2>3. CASE FoundEmpty(t) BY <2>3 DEF FoundEmpty, Go, Sound, Typed, shared, Steps
  <2>4. CASE LoadRefs(t)
    <3>1. [refs |-> refs[top[t]], should |-> should[top[t]]] \in [refs : Nat, should : BOOLEAN]
      BY <2>4 DEF LoadRefs, Sound, Typed
    <3> QED BY <2>4, <3>1 DEF LoadRefs, Go, Sound, Typed, shared, Steps
  <2> QED BY <2>1, <2>2, <2>3, <2>4
<1>3. /\ pc[t] \in {"idle", "start", "loadRefs"}
      /\ pc'[t] \in {"idle", "start", "loadRefs", "grab"}
      /\ pc'[t] = "grab" => top'[t] # Null /\ word'[t].refs # 0
      /\ \A u \in Threads \ {t} : pc'[u] = pc[u] /\ top'[u] = top[u] /\ word'[u] = word[u]
  BY DEF TryGet, Start, FoundEmpty, LoadRefs, Load, Go, Sound, Typed
<1>4. Locals'
  BY <1>1, <1>3 DEF Sound, Locals, shared
<1>5. Linked' /\ Chain' = Chain
  BY <1>1, LinkedStays, SameChain DEF shared
<1>6. \A n \in Nodes : /\ Owns(t, n)' <=> Owns(t, n)
                       /\ Looks(t, n)' <=> Looks(t, n)
                       /\ Lists(t, n)' <=> Lists(t, n)
  BY <1>3 DEF Owns, Looks, Lists, Owning, Private
<1>7. pc'[t] \in Private <=> pc[t] \in Private
  BY <1>3 DEF Private
<1> QED BY <1>1, <1>2, <1>4, <1>5, <1>6, <1>7, QuietStep DEF shared

LEMMA LoadHeadIsQuiet ==
    ASSUME ListAssumption, Sound, NEW t \in Threads, LoadHead(t)
    PROVE  Sound'
<1>1. Typed' /\ Alone(t)
  BY DEF LoadHead, Go, Sound, Typed, shared, Steps, Alone
<1>2. /\ pc[t] = "loadHead" /\ pc'[t] = "link" /\ UNCHANGED <<shared, node, top, word>>
      /\ \A u \in Threads \ {t} : pc'[u] = pc[u] /\ below'[u] = below[u]
  BY DEF LoadHead, Go, Sound, Typed
<1>3. Locals'
  BY <1>2 DEF Sound, Locals, shared
<1>4. Linked' /\ Chain' = Chain
  BY <1>2, LinkedStays, SameChain DEF shared
<1>5. \A n \in Nodes : /\ Owns(t, n)' <=> Owns(t, n)
                       /\ Looks(t, n)' <=> Looks(t, n)
                       /\ Lists(t, n)' <=> Lists(t, n)
  BY <1>2 DEF Owns, Looks, Lists, Owning, Private
<1>6. pc'[t] \in Private <=> pc[t] \in Private
  BY <1>2 DEF Private
<1> QED BY <1>1, <1>2, <1>3, <1>4, <1>5, <1>6, QuietStep DEF shared

(* The link of a node is written while nobody else can see the node.       *)
LEMMA LinkIsQuiet ==
    ASSUME ListAssumption, Sound, NEW t \in Threads, Link(t)
    PROVE  Sound'
<1> DEFINE n == node[t]
<1>1. Typed' /\ Alone(t)
  BY DEF Link, Go, Sound, Typed, locals, Steps, Alone
<1>2. /\ pc[t] = "link" /\ pc'[t] = "activate" /\ UNCHANGED <<head, refs, should, inUse, locals>>
      /\ \A u \in Threads \ {t} : pc'[u] = pc[u]
      /\ next' = [next EXCEPT ![n] = below[t]]
  BY DEF Link, Go, Sound, Typed
<1>3. n \in Nodes /\ below[t] \in Nodes \cup {Null}
  BY <1>2 DEF Sound, Locals, Typed
<1>4. /\ Owns(t, n) /\ refs[n] = 0 /\ n \notin Chain
      /\ \A u \in Threads \ {t} : ~Owns(u, n) /\ ~Looks(u, n)
  <2>1. Owns(t, n)
    BY <1>2 DEF Owns, Owning, Private
  <2>2. refs[n] = 0 /\ n \notin Chain /\ \A u \in Threads \ {t} : ~Owns(u, n)
    BY <1>2, <1>3, <2>1 DEF Sound, Placed, PlacedAt, Private
  <2> QED BY <1>3, <2>1, <2>2, NobodyLooksAtZero DEF Sound
<1>5. Chain' = Chain
  <2>1. /\ head \in Nodes \cup {Null} /\ next \in [Nodes -> Nodes \cup {Null}]
        /\ n \notin Reached(head, next)
    BY <1>4 DEF Chain, Sound, Typed
  <2> HIDE DEF n
  <2>2. Reached(head, [next EXCEPT ![n] = below[t]]) = Reached(head, next)
    BY <2>1, <1>3, LinkReaches
  <2>3. Chain' = Reached(head, next')
    BY <1>2 DEF Chain, Reached
  <2> QED BY <1>2, <2>2, <2>3 DEF Chain
<1>6. next'[n] = below[t] /\ \A m \in Nodes : m # n => next'[m] = next[m]
  BY <1>2, <1>3 DEF Sound, Typed
<1>7. Linked'
  BY <1>2, <1>4, <1>5, <1>6, ChainTyped DEF Sound, Linked
<1>8. Locals'
  <2>1. \A u \in Threads \ {t} : pc[u] \in {"activate", "push", "pop"} => node[u] # n
    BY <1>4 DEF Owns, Owning, Looks, Private
  <2>2. ASSUME NEW u \in Threads
        PROVE  pc'[u] \in {"activate", "push", "pop"} => next'[node'[u]] = below'[u]
    <3>1. CASE u = t
      BY <3>1, <1>2, <1>6 DEF locals
    <3>2. CASE u # t
      <4>1. pc[u] \in {"activate", "push", "pop"} => node[u] \in Nodes
        BY DEF Sound, Locals, Typed
      <4> QED BY <3>2, <4>1, <1>2, <1>6, <2>1 DEF locals, Sound, Locals
    <3> QED BY <3>1, <3>2
  <2> QED BY <1>2, <2>2 DEF Sound, Locals, locals
<1>9. \A m \in Nodes : /\ Owns(t, m)' <=> Owns(t, m)
                       /\ Looks(t, m)' <=> Looks(t, m)
                       /\ Lists(t, m)' <=> Lists(t, m)
  BY <1>2 DEF Owns, Looks, Lists, Owning, locals, Private
<1>10. pc'[t] \in Private <=> pc[t] \in Private
  BY <1>2 DEF Private
<1> QED BY <1>1, <1>2, <1>5, <1>7, <1>8, <1>9, <1>10, QuietStep

LEMMA LoadNextIsQuiet ==
    ASSUME ListAssumption, Sound, NEW t \in Threads, LoadNext(t)
    PROVE  Sound'
<1>1. node[t] \in Nodes
  BY DEF LoadNext, Sound, Locals, Typed
<1>2. Typed' /\ Alone(t)
  BY <1>1 DEF LoadNext, Go, Sound, Typed, shared, Steps, Alone
<1>3. /\ pc[t] = "loadNext" /\ pc'[t] = "pop" /\ UNCHANGED <<shared, node, top, word>>
      /\ below'[t] = next[node[t]]
      /\ \A u \in Threads \ {t} : pc'[u] = pc[u] /\ below'[u] = below[u]
  BY DEF LoadNext, Go, Sound, Typed
<1>4. Locals'
  BY <1>3 DEF Sound, Locals, shared
<1>5. Linked' /\ Chain' = Chain
  BY <1>3, LinkedStays, SameChain DEF shared
<1>6. \A n \in Nodes : /\ Owns(t, n)' <=> Owns(t, n)
                       /\ Looks(t, n)' <=> Looks(t, n)
                       /\ Lists(t, n)' <=> Lists(t, n)
  BY <1>3 DEF Owns, Looks, Lists, Owning, Private
<1>7. pc'[t] \in Private <=> pc[t] \in Private
  BY <1>3 DEF Private
<1> QED BY <1>2, <1>3, <1>4, <1>5, <1>6, <1>7, QuietStep DEF shared

(* The old head of a node that could not be put on the list.               *)
LEMMA PushFails ==
    ASSUME ListAssumption, Sound, NEW t \in Threads, Push(t), head # below[t]
    PROVE  Sound'
<1>1. Typed' /\ Alone(t)
  BY DEF Push, Go, Sound, Typed, shared, Steps, Alone
<1>2. /\ pc[t] = "push" /\ pc'[t] = "giveUp" /\ UNCHANGED <<shared, node, top, word>>
      /\ \A u \in Threads \ {t} : pc'[u] = pc[u] /\ below'[u] = below[u]
  BY DEF Push, Go, Sound, Typed, shared
<1>3. Locals'
  BY <1>2 DEF Sound, Locals, shared
<1>4. Linked' /\ Chain' = Chain
  BY <1>2, LinkedStays, SameChain DEF shared
<1>5. \A n \in Nodes : /\ Owns(t, n)' <=> Owns(t, n)
                       /\ Looks(t, n)' <=> Looks(t, n)
                       /\ Lists(t, n)' <=> Lists(t, n)
  BY <1>2 DEF Owns, Looks, Lists, Owning, Private
<1>6. pc'[t] \in Private <=> pc[t] \in Private
  BY <1>2 DEF Private
<1> QED BY <1>1, <1>2, <1>3, <1>4, <1>5, <1>6, QuietStep DEF shared

LEMMA PopFails ==
    ASSUME ListAssumption, Sound, NEW t \in Threads, Pop(t), head # node[t]
    PROVE  Sound'
<1>1. Typed' /\ Alone(t)
  BY DEF Pop, Load, Go, Sound, Typed, Steps, Alone
<1>2. /\ pc[t] = "pop" /\ pc'[t] = "unref" /\ UNCHANGED <<shared, node, word>>
      /\ \A u \in Threads \ {t} : pc'[u] = pc[u] /\ below'[u] = below[u] /\ top'[u] = top[u]
  BY DEF Pop, Load, Go, Sound, Typed, shared
<1>3. Locals'
  BY <1>2 DEF Sound, Locals, shared
<1>4. Linked' /\ Chain' = Chain
  BY <1>2, LinkedStays, SameChain DEF shared
<1>5. \A n \in Nodes : /\ Owns(t, n)' <=> Owns(t, n)
                       /\ Looks(t, n)' <=> Looks(t, n)
                       /\ Lists(t, n)' <=> Lists(t, n)
  BY <1>2 DEF Owns, Looks, Lists, Owning, Private
<1>6. pc'[t] \in Private <=> pc[t] \in Private
  BY <1>2 DEF Private
<1> QED BY <1>1, <1>2, <1>3, <1>4, <1>5, <1>6, QuietStep DEF shared
-----------------------------------------------------------------------------
(* What moves a node from one place to another: the other nodes stay where *)
(* they are.                                                               *)
LEMMA OthersStay ==
    ASSUME Placed, NEW t \in Threads, Alone(t), NEW n \in Nodes,
           ~Owns(t, n), ~Owns(t, n)', Looks(t, n) => Looks(t, n)',
           UNCHANGED <<refs[n], should[n]>>, n \in inUse' <=> n \in inUse,
           (n \in Chain)' <=> n \in Chain
    PROVE  PlacedAt(n)'
<1>1. \A u \in Threads : /\ Owns(u, n)' <=> Owns(u, n)
                         /\ Looks(u, n) => Looks(u, n)'
                         /\ Owns(u, n) => pc'[u] = pc[u]
  BY DEF Alone, Owns, Looks
<1>2. PlacedAt(n)
  BY DEF Placed
<1> QED BY <1>1, <1>2 DEF PlacedAt

LEMMA SoundByAdd ==
    ASSUME ListAssumption, Sound, NEW t \in Threads, NEW n \in Nodes, Add(t, n)
    PROVE  Sound'
<1>1. Typed' /\ Alone(t)
  BY DEF Add, Go, Sound, Typed, Steps, Alone
<1>2. /\ pc[t] = "idle" /\ pc'[t] = "mark" /\ node'[t] = n /\ n \in inUse /\ inUse' = inUse \ {n}
      /\ UNCHANGED <<head, next, refs, should, top, below, word, getting>>
      /\ \A u \in Threads \ {t} : pc'[u] = pc[u] /\ node'[u] = node[u]
  BY DEF Add, Go, Sound, Typed
<1>3. node[t] = Null /\ n # Null
  BY <1>2 DEF Sound, Locals, ListAssumption
<1>4. Locals'
  BY <1>2, <1>3 DEF Sound, Locals
<1>5. Linked' /\ Chain' = Chain
  BY <1>2, LinkedStays, SameChain
<1>6. PlacedAt(n)'
  BY <1>2, <1>3, <1>5 DEF Sound, Placed, PlacedAt, Owns, Owning, Looks, Private
<1>7. ASSUME NEW m \in Nodes, m # n
      PROVE  PlacedAt(m)'
  <2>1. ~Owns(t, m) /\ ~Owns(t, m)' /\ ~Looks(t, m)
    BY <1>2, <1>7 DEF Owns, Owning, Looks, Private
  <2> QED BY <1>1, <1>2, <1>5, <1>7, <2>1, OthersStay DEF Sound
<1>8. Placed'
  BY <1>6, <1>7 DEF Placed, PlacedAt, Private
<1>9. RefsAreCounted'
  <2>1. \A m \in Nodes : ~Looks(t, m) /\ ~Looks(t, m)' /\ ~Lists(t, m) /\ ~Lists(t, m)'
    BY <1>2 DEF Looks, Lists
  <2> QED BY <1>1, <1>2, <1>5, <2>1, CountedFromDeltas DEF Sound, One, Typed
<1> QED BY <1>1, <1>4, <1>5, <1>8, <1>9 DEF Sound

(* Who finds that nobody looks at the node puts it on the list; who does   *)
(* not leaves it to the one who looks.                                     *)
LEMMA SoundByMark ==
    ASSUME ListAssumption, Sound, NEW t \in Threads, Mark(t)
    PROVE  Sound'
<1>0. pc[t] = "mark" /\ node[t] \in Nodes
  BY DEF Mark, Sound, Locals, Typed
<1> PICK n \in Nodes : n = node[t]
  BY <1>0
<1>1. /\ pc[t] = "mark" /\ should' = [should EXCEPT ![n] = TRUE]
      /\ UNCHANGED <<head, next, refs, inUse, top, below, word, getting>>
      /\ \A u \in Threads \ {t} : pc'[u] = pc[u] /\ node'[u] = node[u]
      /\ IF refs[n] = 0 THEN pc'[t] = "loadHead" /\ node' = node
                        ELSE pc'[t] = "idle" /\ node'[t] = Null
  BY DEF Mark, NobodyLooks, Forget, Go, Sound, Typed
<1>2. n \in Nodes /\ n # Null
  BY DEF ListAssumption
<1>3. Typed' /\ Alone(t)
  BY <1>2 DEF Mark, Go, Forget, Sound, Typed, Steps, Alone
<1>4. Locals'
  BY <1>1, <1>2 DEF Sound, Locals
<1>5. Linked' /\ Chain' = Chain
  BY <1>1, LinkedStays, SameChain
<1>6. Owns(t, n) /\ ~Looks(t, n) /\ ~Lists(t, n) /\ PlacedAt(n)
  BY <1>1, <1>2 DEF Owns, Owning, Looks, Lists, Sound, Placed, Private
<1>7. /\ n \notin inUse /\ n \notin Chain
      /\ \A u \in Threads \ {t} : ~Owns(u, n) /\ ~Lists(u, n)
  BY <1>6 DEF PlacedAt, Owns, Owning, Lists, Private
<1>8. should'[n] /\ \A m \in Nodes : m # n => should'[m] = should[m]
  BY <1>1, <1>2 DEF Sound, Typed
<1>9. PlacedAt(n)'
  <2>1. CASE refs[n] = 0
    BY <2>1, <1>1, <1>5, <1>7, <1>8 DEF PlacedAt, Owns, Owning, Private
  <2>2. CASE refs[n] # 0
    <3>1. PICK u \in Threads \ {t} : Looks(u, n)
      <4>1. refs[n] > One(Looks(t, n)) + One(Lists(t, n))
        BY <1>2, <1>6, <2>2 DEF One, Sound, Typed
      <4> QED BY <1>2, <1>7, <4>1, SomeoneLooks DEF Sound
    <3>2. Looks(u, n)'
      BY <1>1, <3>1 DEF Looks
    <3>3. \A w \in Threads : ~Owns(w, n)'
      BY <2>2, <1>1, <1>2, <1>7 DEF Owns
    <3> QED BY <1>1, <1>5, <1>7, <1>8, <3>2, <3>3 DEF PlacedAt
  <2> QED BY <2>1, <2>2
<1>10. ASSUME NEW m \in Nodes, m # n
       PROVE  PlacedAt(m)'
  <2>1. ~Owns(t, m) /\ ~Owns(t, m)' /\ ~Looks(t, m)
    BY <1>1, <1>2, <1>10 DEF Owns, Owning, Looks, Private
  <2> QED BY <1>1, <1>3, <1>5, <1>8, <1>10, <2>1, OthersStay DEF Sound
<1>11. Placed'
  BY <1>9, <1>10 DEF Placed, PlacedAt, Private
<1>12. RefsAreCounted'
  <2>1. \A m \in Nodes : ~Looks(t, m) /\ ~Looks(t, m)' /\ ~Lists(t, m) /\ ~Lists(t, m)'
    BY <1>1 DEF Looks, Lists
  <2> QED BY <1>1, <1>3, <1>5, <2>1, CountedFromDeltas DEF Sound, One, Typed
<1> QED BY <1>3, <1>4, <1>5, <1>11, <1>12 DEF Sound

LEMMA SoundByActivate ==
    ASSUME ListAssumption, Sound, NEW t \in Threads, Activate(t)
    PROVE  Sound'
<1>0. pc[t] = "activate" /\ node[t] \in Nodes
  BY DEF Activate, Sound, Locals, Typed
<1> PICK n \in Nodes : n = node[t]
  BY <1>0
<1>1. /\ pc'[t] = "push"
      /\ refs' = [refs EXCEPT ![n] = 1] /\ should' = [should EXCEPT ![n] = FALSE]
      /\ UNCHANGED <<head, next, inUse, locals>>
      /\ \A u \in Threads \ {t} : pc'[u] = pc[u]
  BY DEF Activate, Go, Sound, Typed
<1>2. Typed' /\ Alone(t)
  BY DEF Activate, Go, locals, Sound, Typed, Steps, Alone
<1>3. Locals'
  BY <1>0, <1>1 DEF locals, Sound, Locals
<1>4. Linked' /\ Chain' = Chain
  BY <1>1, LinkedStays, SameChain
<1>5. Owns(t, n) /\ Owns(t, n)' /\ PlacedAt(n) /\ refs[n] = 0
  BY <1>0, <1>1 DEF Owns, Owning, locals, Sound, PlacedAt, Private, Placed
<1>6. /\ refs'[n] = 1 /\ ~should'[n]
      /\ \A m \in Nodes : m # n => refs'[m] = refs[m] /\ should'[m] = should[m]
  BY <1>1 DEF Sound, Typed
<1>7. PlacedAt(n)'
  BY <1>0, <1>1, <1>4, <1>5, <1>6 DEF PlacedAt, Owns, Owning, Private, locals
<1>8. ASSUME NEW m \in Nodes, m # n
      PROVE  PlacedAt(m)'
  <2>1. ~Owns(t, m) /\ ~Owns(t, m)' /\ ~Looks(t, m)
    BY <1>0, <1>1, <1>8 DEF Owns, Owning, Looks, locals, Private
  <2> QED BY <1>1, <1>2, <1>4, <1>6, <1>8, <2>1, OthersStay DEF Sound
<1>9. Placed'
  BY <1>7, <1>8 DEF Placed, PlacedAt, Private
<1>10. RefsAreCounted'
  <2>1. /\ ~Lists(t, n) /\ Lists(t, n)' /\ ~Looks(t, n) /\ ~Looks(t, n)'
        /\ \A m \in Nodes : m # n =>
              ~Looks(t, m) /\ ~Looks(t, m)' /\ ~Lists(t, m) /\ ~Lists(t, m)'
    BY <1>0, <1>1 DEF Looks, Lists, locals
  <2>2. \A m \in Nodes :
              refs'[m] - refs[m] = One(Looks(t, m)') - One(Looks(t, m))
                                 + One(Lists(t, m)') - One(Lists(t, m))
                                 + One((m \in Chain)') - One(m \in Chain)
    BY <1>4, <1>5, <1>6, <2>1 DEF One, Sound, Typed
  <2> QED BY <1>2, <2>2, CountedFromDeltas DEF Sound
<1> QED BY <1>2, <1>3, <1>4, <1>9, <1>10 DEF Sound

(* The node becomes the head; its link is the head that was.               *)
LEMMA PushSucceeds ==
    ASSUME ListAssumption, Sound, NEW t \in Threads, Push(t), head = below[t]
    PROVE  Sound'
<1>0. pc[t] = "push" /\ node[t] \in Nodes
  BY DEF Push, Sound, Locals, Typed
<1> PICK n \in Nodes : n = node[t]
  BY <1>0
<1>1. /\ pc'[t] \in {"loadRefs", "idle"} /\ head' = n /\ node'[t] = Null
      /\ UNCHANGED <<next, refs, should, inUse, top, word, getting>>
      /\ \A u \in Threads \ {t} : pc'[u] = pc[u] /\ node'[u] = node[u] /\ below'[u] = below[u]
  BY DEF Push, LoopsOn, Go, Forget, Sound, Typed
<1>2. Typed' /\ Alone(t)
  BY DEF Push, LoopsOn, Go, Forget, Sound, Typed, Steps, Alone
<1>3. n # Null /\ next[n] = head
  BY <1>0 DEF ListAssumption, Sound, Locals
<1>4. Locals'
  BY <1>1, <1>3 DEF Sound, Locals
<1>5. Owns(t, n) /\ PlacedAt(n) /\ Lists(t, n)
  BY <1>0 DEF Owns, Owning, Lists, Sound, Placed, Private
<1>6. n \notin Chain /\ n \notin inUse /\ ~should[n] /\ \A u \in Threads \ {t} : ~Owns(u, n)
  BY <1>0, <1>5 DEF PlacedAt, Private
<1>7. Chain' = Chain \cup {n}
  <2>1. Reached(n, next) = Reached(next[n], next) \cup {n}
    BY PushReaches DEF Sound, Typed
  <2>2. Chain' = Reached(n, next)
    BY <1>1 DEF Chain, Reached, Closed
  <2> QED BY <1>3, <2>1, <2>2 DEF Chain
<1>8. Linked'
  <2>1. \A m \in Chain \ {Null} : m \in Nodes /\ next[m] \in Chain
    BY ChainTyped DEF Sound, Closed
  <2>2. head \in Chain
    BY ChainTyped DEF Sound
  <2> QED BY <1>1, <1>3, <1>6, <1>7, <2>1, <2>2 DEF Sound, Linked
<1>9. \A u \in Threads : ~Owns(u, n)'
  BY <1>1, <1>3, <1>6 DEF Owns
<1>10. PlacedAt(n)'
  BY <1>1, <1>6, <1>7, <1>9 DEF PlacedAt
<1>11. ASSUME NEW m \in Nodes, m # n
       PROVE  PlacedAt(m)'
  <2>1. ~Owns(t, m) /\ ~Owns(t, m)' /\ ~Looks(t, m)
    BY <1>0, <1>1, <1>11 DEF Owns, Owning, Looks, Private
  <2> QED BY <1>1, <1>2, <1>7, <1>11, <2>1, OthersStay DEF Sound
<1>12. Placed'
  BY <1>10, <1>11 DEF Placed, PlacedAt, Private
<1>13. RefsAreCounted'
  <2>1. /\ ~Lists(t, n)' /\ ~Looks(t, n) /\ ~Looks(t, n)'
        /\ \A m \in Nodes : m # n =>
              ~Looks(t, m) /\ ~Looks(t, m)' /\ ~Lists(t, m) /\ ~Lists(t, m)'
    BY <1>0, <1>1 DEF Looks, Lists
  <2>2. \A m \in Nodes :
              refs'[m] - refs[m] = One(Looks(t, m)') - One(Looks(t, m))
                                 + One(Lists(t, m)') - One(Lists(t, m))
                                 + One((m \in Chain)') - One(m \in Chain)
    BY <1>1, <1>5, <1>6, <1>7, <2>1 DEF One, Sound, Typed
  <2> QED BY <1>2, <2>2, CountedFromDeltas DEF Sound
<1> QED BY <1>2, <1>4, <1>8, <1>12, <1>13 DEF Sound

(* A node that could not be put on the list is linked anew if nobody looks *)
(* at it, and left to who looks at it otherwise.                           *)
LEMMA SoundByGiveUp ==
    ASSUME ListAssumption, Sound, NEW t \in Threads, GiveUp(t)
    PROVE  Sound'
<1>0. pc[t] = "giveUp" /\ node[t] \in Nodes
  BY DEF GiveUp, Sound, Locals, Typed
<1> PICK n \in Nodes : n = node[t]
  BY <1>0
<1>1. /\ refs' = [refs EXCEPT ![n] = @ - 1] /\ should' = [should EXCEPT ![n] = TRUE]
      /\ UNCHANGED <<head, next, inUse, top, word, getting>>
      /\ \A u \in Threads \ {t} : pc'[u] = pc[u] /\ node'[u] = node[u] /\ below'[u] = below[u]
      /\ IF refs[n] = 1 THEN pc'[t] = "link" /\ node' = node
                        ELSE pc'[t] \in {"idle", "loadRefs"} /\ node'[t] = Null
  BY DEF GiveUp, LeftToMe, LoopsOn, Forget, Go, Sound, Typed
<1>2. n # Null /\ Owns(t, n) /\ Lists(t, n) /\ ~Looks(t, n) /\ PlacedAt(n)
  BY <1>0 DEF ListAssumption, Owns, Owning, Lists, Looks, Sound, Placed, Private
<1>3. /\ refs[n] \in Nat /\ refs[n] >= 1
  BY <1>2, ReferencesOfOne DEF Sound, Typed, One
<1>4. Typed' /\ Alone(t)
  <2>1. refs' \in [Nodes -> Nat] /\ should' \in [Nodes -> BOOLEAN]
    BY <1>1, <1>3 DEF Sound, Typed
  <2>2. pc' \in [Threads -> Steps]
    BY DEF GiveUp, LoopsOn, Go, Sound, Typed, Steps
  <2>3. /\ node' \in [Threads -> Nodes \cup {Null}]
        /\ below' \in [Threads -> Nodes \cup {Null}]
    BY DEF GiveUp, Forget, Sound, Typed
  <2> QED BY <1>1, <2>1, <2>2, <2>3 DEF Sound, Typed, Alone
<1>5. Locals'
  BY <1>1, <1>2 DEF Sound, Locals
<1>6. Linked' /\ Chain' = Chain
  BY <1>1, LinkedStays, SameChain
<1>7. /\ n \notin inUse /\ n \notin Chain
      /\ \A u \in Threads \ {t} : ~Owns(u, n) /\ ~Lists(u, n)
  BY <1>2 DEF PlacedAt, Owns, Owning, Lists, Private
<1>8. /\ should'[n] /\ refs'[n] = refs[n] - 1
      /\ \A m \in Nodes : m # n => should'[m] = should[m] /\ refs'[m] = refs[m]
  BY <1>1 DEF Sound, Typed
<1>9. PlacedAt(n)'
  <2>1. CASE refs[n] = 1
    BY <2>1, <1>1, <1>6, <1>7, <1>8 DEF PlacedAt, Owns, Owning, Private
  <2>2. CASE refs[n] # 1
    <3>1. PICK u \in Threads \ {t} : Looks(u, n)
      <4>1. refs[n] > One(Looks(t, n)) + One(Lists(t, n))
        BY <1>2, <1>3, <2>2 DEF One
      <4> QED BY <1>7, <4>1, SomeoneLooks DEF Sound
    <3>2. Looks(u, n)'
      BY <1>1, <3>1 DEF Looks
    <3>3. \A w \in Threads : ~Owns(w, n)'
      BY <2>2, <1>1, <1>2, <1>7 DEF Owns
    <3> QED BY <1>1, <1>6, <1>7, <1>8, <3>2, <3>3 DEF PlacedAt
  <2> QED BY <2>1, <2>2
<1>10. ASSUME NEW m \in Nodes, m # n
       PROVE  PlacedAt(m)'
  <2>1. ~Owns(t, m) /\ ~Owns(t, m)' /\ ~Looks(t, m)
    BY <1>0, <1>1, <1>10 DEF Owns, Owning, Looks, Private
  <2> QED BY <1>1, <1>4, <1>6, <1>8, <1>10, <2>1, OthersStay DEF Sound
<1>11. Placed'
  BY <1>9, <1>10 DEF Placed, PlacedAt, Private
<1>12. RefsAreCounted'
  <2>1. /\ ~Lists(t, n)' /\ ~Looks(t, n)'
        /\ \A m \in Nodes : m # n =>
              ~Looks(t, m) /\ ~Looks(t, m)' /\ ~Lists(t, m) /\ ~Lists(t, m)'
    BY <1>0, <1>1 DEF Looks, Lists
  <2>2. \A m \in Nodes :
              refs'[m] - refs[m] = One(Looks(t, m)') - One(Looks(t, m))
                                 + One(Lists(t, m)') - One(Lists(t, m))
                                 + One((m \in Chain)') - One(m \in Chain)
    BY <1>2, <1>6, <1>8, <2>1 DEF One, Sound, Typed
  <2> QED BY <1>4, <2>2, CountedFromDeltas DEF Sound
<1> QED BY <1>4, <1>5, <1>6, <1>11, <1>12 DEF Sound

(* A reference is taken only of a node that has one already: nobody who    *)
(* owns the node privately can be disturbed.                               *)
LEMMA SoundByGrab ==
    ASSUME ListAssumption, Sound, NEW t \in Threads, Grab(t)
    PROVE  Sound'
<1>0. /\ pc[t] = "grab" /\ top[t] \in Nodes /\ word[t].refs # 0
      /\ node[t] = Null /\ node[t] \notin Nodes
  BY DEF Grab, Sound, Locals, Typed, ListAssumption
<1> PICK n \in Nodes : n = top[t]
  BY <1>0
<1>1. /\ UNCHANGED <<head, next, should, inUse, top, below, getting>>
      /\ \A u \in Threads \ {t} : pc'[u] = pc[u] /\ node'[u] = node[u] /\ word'[u] = word[u]
  BY DEF Grab, Go, Sound, Typed
<1>2. Linked' /\ Chain' = Chain
  BY <1>1, LinkedStays, SameChain
<1>3. \A m \in Nodes : ~Owns(t, m) /\ ~Looks(t, m) /\ ~Lists(t, m)
  BY <1>0 DEF Owns, Looks, Lists
<1>4. CASE word[t] = [refs |-> refs[n], should |-> should[n]]
  <2>1. /\ refs' = [refs EXCEPT ![n] = @ + 1] /\ refs[n] # 0
        /\ node'[t] = n /\ pc'[t] = "loadNext"
    BY <1>0, <1>4 DEF Grab, Go, Sound, Typed
  <2>2. Typed' /\ Alone(t)
    <3>1. refs' \in [Nodes -> Nat]
      BY <2>1 DEF Sound, Typed
    <3>2. /\ pc' \in [Threads -> Steps] /\ node' \in [Threads -> Nodes \cup {Null}]
      BY <1>0, <1>4 DEF Grab, Go, Sound, Typed, Steps
    <3>3. word' \in [Threads -> [refs : Nat, should : BOOLEAN]]
      BY DEF Grab, NoWord, Sound, Typed
    <3> QED BY <1>1, <3>1, <3>2, <3>3 DEF Sound, Typed, Alone
  <2>3. Locals'
    BY <1>1, <2>1, <1>0 DEF Sound, Locals, ListAssumption
  <2>4. /\ refs'[n] = refs[n] + 1
        /\ \A m \in Nodes : m # n => refs'[m] = refs[m]
    BY <2>1 DEF Sound, Typed
  <2>5. Looks(t, n)' /\ \A m \in Nodes : ~Owns(t, m)' /\ ~Lists(t, m)'
    BY <2>1 DEF Owns, Owning, Looks, Lists, Private
  <2>6. PlacedAt(n)'
    <3>1. PlacedAt(n)
      BY DEF Sound, Placed
    <3>2. \A u \in Threads : Owns(u, n)' <=> Owns(u, n)
      BY <1>1, <1>3, <2>5 DEF Owns
    <3>3. \A u \in Threads : ~(Owns(u, n) /\ pc[u] \in Private)
      BY <2>1, <3>1 DEF PlacedAt
    <3>4. \A u \in Threads : Owns(u, n) => pc'[u] = pc[u]
      BY <1>1, <1>3
    <3> QED BY <1>1, <1>2, <2>5, <3>1, <3>2, <3>3, <3>4 DEF PlacedAt
  <2>7. ASSUME NEW m \in Nodes, m # n
        PROVE  PlacedAt(m)'
    BY <1>1, <1>2, <1>3, <2>2, <2>4, <2>5, <2>7, OthersStay DEF Sound
  <2>8. Placed'
    BY <2>6, <2>7 DEF Placed, PlacedAt, Private
  <2>9. RefsAreCounted'
    <3>1. \A m \in Nodes : m # n => ~Looks(t, m)'
      BY <2>1 DEF Looks
    <3>2. \A m \in Nodes :
              refs'[m] - refs[m] = One(Looks(t, m)') - One(Looks(t, m))
                                 + One(Lists(t, m)') - One(Lists(t, m))
                                 + One((m \in Chain)') - One(m \in Chain)
      BY <1>2, <1>3, <2>4, <2>5, <3>1 DEF One, Sound, Typed
    <3> QED BY <2>2, <3>2, CountedFromDeltas DEF Sound
  <2> QED BY <1>2, <2>2, <2>3, <2>8, <2>9 DEF Sound
<1>5. CASE word[t] # [refs |-> refs[n], should |-> should[n]]
  <2>1. UNCHANGED <<refs, node>> /\ pc'[t] = "start"
    BY <1>5 DEF Grab, Go, Sound, Typed
  <2>2. Typed' /\ Alone(t)
    <3>1. pc' \in [Threads -> Steps]
      BY <1>5 DEF Grab, Go, Sound, Typed, Steps
    <3>2. word' \in [Threads -> [refs : Nat, should : BOOLEAN]]
      BY DEF Grab, NoWord, Sound, Typed
    <3> QED BY <1>1, <2>1, <3>1, <3>2 DEF Sound, Typed, Alone
  <2>3. Locals'
    BY <1>0, <1>1, <2>1 DEF Sound, Locals
  <2>4. \A m \in Nodes : /\ Owns(t, m)' <=> Owns(t, m)
                         /\ Looks(t, m)' <=> Looks(t, m)
                         /\ Lists(t, m)' <=> Lists(t, m)
    BY <1>3, <2>1 DEF Owns, Looks, Lists, Owning, Private
  <2>5. pc'[t] \in Private <=> pc[t] \in Private
    BY <1>0, <2>1 DEF Private
  <2> QED BY <1>1, <1>2, <2>1, <2>2, <2>3, <2>4, <2>5, QuietStep
<1> QED BY <1>4, <1>5

(* The head goes, and what it is linked to is the new head: no node of the *)
(* list is linked to the old one.                                          *)
LEMMA PopSucceeds ==
    ASSUME ListAssumption, Sound, NEW t \in Threads, Pop(t), head = node[t]
    PROVE  Sound'
<1>0. pc[t] = "pop" /\ node[t] \in Nodes
  BY DEF Pop, Sound, Locals, Typed
<1> PICK n \in Nodes : n = node[t]
  BY <1>0
<1>1. /\ pc'[t] = "drop" /\ head' = below[t]
      /\ UNCHANGED <<next, refs, should, inUse, node, top, word, getting>>
      /\ \A u \in Threads \ {t} : pc'[u] = pc[u] /\ below'[u] = below[u]
  BY DEF Pop, Go, Sound, Typed
<1>2. Typed' /\ Alone(t)
  BY DEF Pop, Go, Sound, Typed, Steps, Alone
<1>3. n # Null /\ n = head /\ below[t] = next[n] /\ next[n] \in Nodes \cup {Null}
  BY <1>0 DEF ListAssumption, Sound, Locals, Typed
<1>4. Locals'
  BY <1>0, <1>1 DEF Sound, Locals
<1>5. /\ n \in Chain /\ \A m \in Chain \ {Null} : next[m] # n
  BY <1>3, ChainTyped DEF Sound, Linked
<1>6. Chain' = Chain \ {n}
  <2>1. Reached(next[n], next) = Reached(n, next) \ {n}
    BY <1>3, <1>5, PopReaches DEF Chain, Sound, Typed
  <2>2. Chain' = Reached(next[n], next)
    BY <1>1, <1>3 DEF Chain, Reached, Closed
  <2> QED BY <1>3, <2>1, <2>2 DEF Chain
<1>7. Linked'
  <2>1. next[n] = Null => Chain' \subseteq {Null}
    <3>1. Chain' = Reached(next[n], next)
      BY <1>1, <1>3 DEF Chain, Reached, Closed
    <3>2. Closed({Null}, next) /\ {Null} \in SUBSET (Nodes \cup {Null})
      BY DEF Closed
    <3> QED BY <1>3, <3>1, <3>2, ReachedIsLeast DEF Sound, Typed
  <2>2. Null \in Chain'
    BY <1>3, <1>6 DEF Sound, Linked
  <2>3. ASSUME NEW m \in Chain' \ {Null}
        PROVE  next[m] # next[n]
    BY <1>5, <1>6, <2>1, <2>3, <1>3 DEF Sound, Linked
  <2>4. ASSUME NEW m \in Chain' \ {Null}, NEW o \in Chain' \ {Null},
               next[m] = next[o], next[m] # Null
        PROVE  m = o
    BY <1>6, <2>4 DEF Sound, Linked
  <2> QED BY <1>1, <1>3, <2>2, <2>3, <2>4 DEF Linked
<1>8. PlacedAt(n) /\ Owns(t, n)' /\ Looks(t, n) /\ Looks(t, n)' /\ ~Lists(t, n) /\ Lists(t, n)'
  BY <1>0, <1>1 DEF Owns, Owning, Looks, Lists, Sound, Placed, Private
<1>9. PlacedAt(n)'
  BY <1>0, <1>1, <1>5, <1>6, <1>8 DEF PlacedAt, Owns, Owning, Private
<1>10. \A m \in Nodes : m # n => /\ ~Owns(t, m) /\ ~Owns(t, m)' /\ ~Looks(t, m) /\ ~Looks(t, m)'
                                 /\ ~Lists(t, m) /\ ~Lists(t, m)'
  BY <1>1 DEF Owns, Looks, Lists
<1>11. ASSUME NEW m \in Nodes, m # n
       PROVE  PlacedAt(m)'
  BY <1>1, <1>2, <1>6, <1>10, <1>11, OthersStay DEF Sound
<1>12. Placed'
  BY <1>9, <1>11 DEF Placed, PlacedAt, Private
<1>13. RefsAreCounted'
  <2>1. \A m \in Nodes :
              refs'[m] - refs[m] = One(Looks(t, m)') - One(Looks(t, m))
                                 + One(Lists(t, m)') - One(Lists(t, m))
                                 + One((m \in Chain)') - One(m \in Chain)
    BY <1>1, <1>5, <1>6, <1>8, <1>10 DEF One, Sound, Typed
  <2> QED BY <1>2, <2>1, CountedFromDeltas DEF Sound
<1> QED BY <1>2, <1>4, <1>7, <1>12, <1>13 DEF Sound

(* The block is handed out.                                                *)
LEMMA SoundByDrop ==
    ASSUME ListAssumption, Sound, NEW t \in Threads, Drop(t)
    PROVE  Sound'
<1>0. pc[t] = "drop" /\ node[t] \in Nodes
  BY DEF Drop, Sound, Locals, Typed
<1> PICK n \in Nodes : n = node[t]
  BY <1>0
<1>1. /\ refs' = [refs EXCEPT ![n] = @ - 2] /\ inUse' = inUse \cup {n}
      /\ pc'[t] = "idle" /\ node'[t] = Null
      /\ UNCHANGED <<head, next, should, below, word>>
      /\ \A u \in Threads \ {t} : pc'[u] = pc[u] /\ node'[u] = node[u] /\ top'[u] = top[u]
  BY DEF Drop, Forget, Go, Sound, Typed
<1>2. n # Null /\ Owns(t, n) /\ Lists(t, n) /\ Looks(t, n) /\ PlacedAt(n)
  BY <1>0 DEF ListAssumption, Owns, Owning, Lists, Looks, Sound, Placed, Private
<1>3. /\ refs[n] \in Nat /\ refs[n] >= 2
  BY <1>2, ReferencesOfOne DEF Sound, Typed, One
<1>4. Typed' /\ Alone(t)
  <2>1. refs' \in [Nodes -> Nat] /\ inUse' \subseteq Nodes
    BY <1>1, <1>3 DEF Sound, Typed
  <2>2. /\ pc' \in [Threads -> Steps] /\ getting' \in [Threads -> BOOLEAN]
    BY DEF Drop, Go, Sound, Typed, Steps
  <2>3. /\ node' \in [Threads -> Nodes \cup {Null}]
        /\ top' \in [Threads -> Nodes \cup {Null}]
    BY DEF Drop, Forget, Sound, Typed
  <2> QED BY <1>1, <2>1, <2>2, <2>3 DEF Sound, Typed, Alone
<1>5. Locals'
  BY <1>1, <1>2 DEF Sound, Locals
<1>6. Linked' /\ Chain' = Chain
  BY <1>1, LinkedStays, SameChain
<1>7. /\ n \notin Chain /\ ~should[n] /\ \A u \in Threads \ {t} : ~Owns(u, n)
  BY <1>0, <1>2 DEF PlacedAt, Private
<1>8. /\ refs'[n] = refs[n] - 2
      /\ \A m \in Nodes : m # n => refs'[m] = refs[m]
  BY <1>1 DEF Sound, Typed
<1>9. \A u \in Threads : ~Owns(u, n)'
  BY <1>1, <1>2, <1>7 DEF Owns
<1>10. PlacedAt(n)'
  BY <1>1, <1>6, <1>7, <1>9 DEF PlacedAt
<1>11. \A m \in Nodes : m # n => /\ ~Owns(t, m) /\ ~Owns(t, m)' /\ ~Looks(t, m) /\ ~Looks(t, m)'
                                 /\ ~Lists(t, m) /\ ~Lists(t, m)'
  BY <1>0, <1>1 DEF Owns, Owning, Looks, Lists, Private
<1>12. ASSUME NEW m \in Nodes, m # n
       PROVE  PlacedAt(m)'
  BY <1>1, <1>4, <1>6, <1>8, <1>11, <1>12, OthersStay DEF Sound
<1>13. Placed'
  BY <1>10, <1>12 DEF Placed, PlacedAt, Private
<1>14. RefsAreCounted'
  <2>1. ~Looks(t, n)' /\ ~Lists(t, n)'
    BY <1>1 DEF Looks, Lists
  <2>2. \A m \in Nodes :
              refs'[m] - refs[m] = One(Looks(t, m)') - One(Looks(t, m))
                                 + One(Lists(t, m)') - One(Lists(t, m))
                                 + One((m \in Chain)') - One(m \in Chain)
    BY <1>2, <1>6, <1>8, <1>11, <2>1 DEF One, Sound, Typed
  <2> QED BY <1>4, <2>2, CountedFromDeltas DEF Sound
<1> QED BY <1>4, <1>5, <1>6, <1>13, <1>14 DEF Sound

(* The last one with a reference to a node that should be on the list puts *)
(* it there; to that node nobody else has one, and nobody else adds it.    *)
LEMMA SoundByUnref ==
    ASSUME ListAssumption, Sound, NEW t \in Threads, Unref(t)
    PROVE  Sound'
<1>0. pc[t] = "unref" /\ node[t] \in Nodes
  BY DEF Unref, Sound, Locals, Typed
<1> PICK n \in Nodes : n = node[t]
  BY <1>0
<1>1. /\ refs' = [refs EXCEPT ![n] = @ - 1]
      /\ UNCHANGED <<head, next, should, inUse, top, below, word, getting>>
      /\ \A u \in Threads \ {t} : pc'[u] = pc[u] /\ node'[u] = node[u]
      /\ IF refs[n] = 1 /\ should[n] THEN pc'[t] = "loadHead" /\ node' = node
                                     ELSE pc'[t] = "loadRefs" /\ node'[t] = Null
  BY DEF Unref, MustAdd, Forget, Go, Sound, Typed
<1>2. /\ n # Null /\ ~Owns(t, n) /\ ~Lists(t, n) /\ Looks(t, n) /\ PlacedAt(n)
  BY <1>0 DEF ListAssumption, Owns, Owning, Lists, Looks, Sound, Placed, Private
<1>3. /\ refs[n] \in Nat /\ refs[n] >= 1
  BY <1>2, ReferencesOfOne DEF Sound, Typed, One
<1>4. Typed' /\ Alone(t)
  <2>1. refs' \in [Nodes -> Nat]
    BY <1>1, <1>3 DEF Sound, Typed
  <2>2. pc' \in [Threads -> Steps]
    BY DEF Unref, Go, Sound, Typed, Steps
  <2>3. node' \in [Threads -> Nodes \cup {Null}]
    BY DEF Unref, Forget, Sound, Typed
  <2> QED BY <1>1, <2>1, <2>2, <2>3 DEF Sound, Typed, Alone
<1>5. Locals'
  BY <1>0, <1>1, <1>2 DEF Sound, Locals
<1>6. Linked' /\ Chain' = Chain
  BY <1>1, LinkedStays, SameChain
<1>7. /\ refs'[n] = refs[n] - 1
      /\ \A m \in Nodes : m # n => refs'[m] = refs[m]
  BY <1>1 DEF Sound, Typed
<1>8. \A u \in Threads : ~(Owns(u, n) /\ pc[u] \in Private)
  BY <1>2, <1>3 DEF PlacedAt
<1>9. should[n] => /\ n \notin inUse /\ n \notin Chain
                   /\ \A u \in Threads : ~Owns(u, n) /\ ~Lists(u, n)
  BY <1>2, <1>8 DEF PlacedAt, Owns, Owning, Lists, Private
<1>10. PlacedAt(n)'
  <2>1. CASE refs[n] = 1 /\ should[n]
    <3>1. /\ Owns(t, n)' /\ pc'[t] \in Private /\ refs'[n] = 0
          /\ \A u \in Threads \ {t} : ~Owns(u, n)'
      BY <2>1, <1>1, <1>7, <1>9 DEF Owns, Owning, Private
    <3> QED BY <2>1, <3>1, <1>1, <1>6, <1>9 DEF PlacedAt
  <2>2. CASE ~should[n]
    <3>1. \A u \in Threads : Owns(u, n)' <=> Owns(u, n)
      BY <2>2, <1>1, <1>2 DEF Owns
    <3>2. \A u \in Threads : Owns(u, n) => pc'[u] = pc[u]
      BY <1>1, <1>2
    <3> QED BY <2>2, <1>1, <1>2, <1>6, <1>8, <3>1, <3>2 DEF PlacedAt
  <2>3. CASE refs[n] # 1 /\ should[n]
    <3>1. PICK u \in Threads \ {t} : Looks(u, n)
      <4>1. refs[n] > One(Looks(t, n)) + One(Lists(t, n))
        BY <1>2, <1>3, <2>3 DEF One
      <4> QED BY <1>9, <2>3, <4>1, SomeoneLooks DEF Sound
    <3>2. Looks(u, n)'
      BY <1>1, <3>1 DEF Looks
    <3>3. \A w \in Threads : ~Owns(w, n)'
      BY <2>3, <1>1, <1>2, <1>9 DEF Owns
    <3> QED BY <1>1, <1>6, <1>9, <2>3, <3>2, <3>3 DEF PlacedAt
  <2> QED BY <2>1, <2>2, <2>3
<1>11. \A m \in Nodes : m # n => /\ ~Owns(t, m) /\ ~Owns(t, m)' /\ ~Looks(t, m) /\ ~Looks(t, m)'
                                 /\ ~Lists(t, m) /\ ~Lists(t, m)'
  BY <1>0, <1>1 DEF Owns, Owning, Looks, Lists, Private
<1>12. ASSUME NEW m \in Nodes, m # n
       PROVE  PlacedAt(m)'
  BY <1>1, <1>4, <1>6, <1>7, <1>11, <1>12, OthersStay DEF Sound
<1>13. Placed'
  BY <1>10, <1>12 DEF Placed, PlacedAt, Private
<1>14. RefsAreCounted'
  <2>1. ~Looks(t, n)' /\ ~Lists(t, n)'
    BY <1>1 DEF Looks, Lists
  <2>2. \A m \in Nodes :
              refs'[m] - refs[m] = One(Looks(t, m)') - One(Looks(t, m))
                                 + One(Lists(t, m)') - One(Lists(t, m))
                                 + One((m \in Chain)') - One(m \in Chain)
    BY <1>2, <1>6, <1>7, <1>11, <2>1 DEF One, Sound, Typed
  <2> QED BY <1>4, <2>2, CountedFromDeltas DEF Sound
<1> QED BY <1>4, <1>5, <1>6, <1>13, <1>14 DEF Sound
-----------------------------------------------------------------------------
LEMMA SoundAtFirst ==
    ASSUME ListAssumption, Init
    PROVE  Sound
<1>1. Typed /\ Locals
  BY DEF Init, Typed, Locals, NoWord, Steps
<1>2. Chain = {Null}
  <2>1. Closed({Null}, next) /\ {Null} \in SUBSET (Nodes \cup {Null})
    BY DEF Closed
  <2>2. Chain \subseteq {Null}
    BY <1>1, <2>1, ReachedIsLeast DEF Chain, Init, Typed
  <2>3. Null \in Chain
    BY <1>1, ChainTyped DEF Init
  <2> QED BY <2>2, <2>3
<1>3. Placed
  BY <1>2 DEF Init, Placed, Owns, Owning, ListAssumption, PlacedAt, Private
<1>4. Linked
  BY <1>2 DEF Linked
<1>5. RefsAreCounted
  <2>1. \A n \in Nodes : Looking(n) = {} /\ Listing(n) = {}
    BY DEF Init, Looking, Listing
  <2> QED BY <1>2, <2>1, FS_EmptySet DEF Init, RefsAreCounted, ListAssumption
<1> QED BY <1>1, <1>3, <1>4, <1>5 DEF Sound

LEMMA SoundStays ==
    ASSUME ListAssumption, Sound, [Next]_vars
    PROVE  Sound'
<1>1. CASE UNCHANGED vars
  <2>1. Chain' = Chain /\ Linked'
    BY <1>1, SameChain, LinkedStays DEF vars, shared
  <2>2. Typed' /\ Locals'
    BY <1>1 DEF vars, shared, locals, Sound, Typed, Locals
  <2>3. Placed'
    BY <1>1, <2>1 DEF vars, shared, locals, Sound, Placed, Owns, Looks, PlacedAt, Private
  <2>4. RefsAreCounted'
    BY <1>1, <2>1 DEF vars, shared, locals, Sound, RefsAreCounted, Looking, Listing
  <2> QED BY <2>1, <2>2, <2>3, <2>4 DEF Sound
<1>2. ASSUME NEW t \in Threads, Step(t)
      PROVE  Sound'
  <2>1. CASE Mark(t) \/ Activate(t) \/ GiveUp(t) \/ Grab(t) \/ Drop(t) \/ Unref(t)
    BY <2>1, SoundByMark, SoundByActivate, SoundByGiveUp, SoundByGrab, SoundByDrop, SoundByUnref
  <2>2. CASE LoadHead(t) \/ Link(t) \/ LoadNext(t)
    BY <2>2, LoadHeadIsQuiet, LinkIsQuiet, LoadNextIsQuiet
  <2>3. CASE Push(t)
    BY <2>3, PushFails, PushSucceeds
  <2>4. CASE Pop(t)
    BY <2>4, PopFails, PopSucceeds
  <2>5. CASE Start(t) \/ FoundEmpty(t) \/ LoadRefs(t)
    BY <2>5, TryGetQuietly
  <2> QED BY <1>2, <2>1, <2>2, <2>3, <2>4, <2>5 DEF Step
<1>3. ASSUME NEW t \in Takers, TryGet(t)
      PROVE  Sound'
  BY <1>3, TryGetQuietly DEF Threads
<1>4. ASSUME NEW t \in Givers, NEW n \in Nodes, Add(t, n)
      PROVE  Sound'
  BY <1>4, SoundByAdd DEF Threads
<1> QED BY <1>1, <1>2, <1>3, <1>4 DEF Next

(* The invariant, for any threads and nodes, whatever they do in whatever  *)
(* order (concurrentqueue.h:1479-1558).                                    *)
THEOREM SoundAlways == ASSUME ListAssumption PROVE Safety => []Sound
<1>1. Init => Sound
  BY SoundAtFirst
<1>2. Sound /\ [Next]_vars => Sound'
  BY SoundStays
<1> QED BY <1>1, <1>2, PTL DEF Safety

(* Nobody counts a node twice but the thread that has taken it off.        *)
LEMMA RefsAreBounded ==
    ASSUME ListAssumption, Sound, NEW n \in Nodes
    PROVE  refs[n] \in 0..(Cardinality(Threads) + 2)
<1>1. Looking(n) \in SUBSET Threads /\ Listing(n) \in SUBSET Threads
  BY DEF Looking, Listing
<1>2. /\ IsFiniteSet(Looking(n)) /\ IsFiniteSet(Listing(n))
      /\ Cardinality(Looking(n)) <= Cardinality(Threads)
  BY <1>1, FS_Subset DEF ListAssumption
<1>3. Cardinality(Listing(n)) <= 1
  <2>1. CASE Listing(n) = {}
    BY <2>1, FS_EmptySet
  <2>2. CASE Listing(n) # {}
    <3>1. PICK t \in Threads : Lists(t, n)
      BY <2>2 DEF Listing, Lists
    <3>2. \A u \in Threads : Lists(u, n) => u = t
      BY <3>1 DEF Sound, Placed, Lists, Owns, Owning, PlacedAt, Private
    <3>3. Listing(n) = {t}
      BY <3>1, <3>2 DEF Listing, Lists
    <3> QED BY <3>3, FS_Singleton
  <2> QED BY <2>1, <2>2
<1>4. /\ Cardinality(Looking(n)) \in Nat /\ Cardinality(Listing(n)) \in Nat
      /\ Cardinality(Threads) \in Nat
  BY <1>2, FS_CardinalityType DEF ListAssumption
<1>5. refs[n] = Cardinality(Looking(n)) + Cardinality(Listing(n)) + One(n \in Chain)
  BY DEF Sound, RefsAreCounted, One
<1> QED BY <1>2, <1>3, <1>4, <1>5 DEF One

(* What that says of the types, of the blocks and of try_get.              *)
LEMMA SoundImplies ==
    ASSUME ListAssumption, Sound
    PROVE  TypeOK /\ NoBlockIsLost /\ PopIsFresh
<1>1. TypeOK
  <2>1. refs \in [Nodes -> 0..(Cardinality(Threads) + 2)]
    BY RefsAreBounded DEF Sound, Typed
  <2> QED BY <2>1 DEF Sound, Typed, TypeOK
<1>2. NoBlockIsLost
  <2>1. Null \in Chain
    BY DEF Sound, Linked
  <2>2. ASSUME NEW n \in Chain \ {Null}
        PROVE  n \in Back
    <3>1. n \in Nodes
      BY ChainTyped DEF Sound
    <3>2. n \notin inUse /\ \A t \in Threads : ~Owns(t, n)
      BY <3>1 DEF Sound, Placed, PlacedAt, Private
    <3> QED BY <3>1, <3>2 DEF Back, Owns, Owning, Private
  <2>3. ASSUME NEW n \in Back, n \notin Chain
        PROVE  \E t \in Threads : node[t] = n
    <3>1. n \in Nodes /\ n \notin inUse
      BY DEF Back
    <3> QED BY <2>3, <3>1 DEF Sound, Placed, Owns, Looks, PlacedAt, Private
  <2>4. AddedOnce
    <3>1. \A t \in Threads : Adding(t) \/ pc[t] = "drop" => node[t] \in Nodes /\ Owns(t, node[t])
      BY DEF Sound, Typed, Locals, Adding, Owns, Owning, Private
    <3>2. \A t \in Threads : pc[t] \in {"mark", "giveUp", "drop"} => ~should[node[t]]
      BY <3>1 DEF Sound, Placed, Adding, PlacedAt, Private
    <3>3. \A t, u \in Threads : Adding(t) /\ Adding(u) /\ node[t] = node[u] => t = u
      BY <3>1 DEF Sound, Placed, PlacedAt, Private
    <3> QED BY <3>2, <3>3 DEF AddedOnce
  <2> QED BY <2>1, <2>2, <2>3, <2>4 DEF NoBlockIsLost
<1>3. PopIsFresh
  BY DEF Sound, Locals, PopIsFresh
<1> QED BY <1>1, <1>2, <1>3

(* The list is well typed; in particular the count in freeListRefs never   *)
(* reaches its upper bit, and never goes below zero, as long as there are  *)
(* fewer threads than that (concurrentqueue.h:1517, 1523, 1563-1564).      *)
THEOREM TypeCorrect == ASSUME ListAssumption PROVE Safety => []TypeOK
BY SoundAlways, SoundImplies, PTL

(* No block is handed out twice and none is lost, for any number of        *)
(* threads and blocks: the add that a thread leaves to the last one with a *)
(* reference is always done, and once (concurrentqueue.h:1479-1530,        *)
(* 1536-1558).                                                             *)
THEOREM NoBlockIsEverLost == ASSUME ListAssumption PROVE Safety => []NoBlockIsLost
BY SoundAlways, SoundImplies, PTL

(* The compare-and-swap of try_get never succeeds with an old next, the    *)
(* ABA problem that freeListRefs is there for, for any number of threads   *)
(* and blocks (concurrentqueue.h:1501-1510).                               *)
THEOREM PopIsAlwaysFresh == ASSUME ListAssumption PROVE Safety => []PopIsFresh
BY SoundAlways, SoundImplies, PTL
=============================================================================
