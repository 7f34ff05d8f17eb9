------------------------ MODULE ConnectionLoopProofs ------------------------
(***************************************************************************)
(* The safety of ConnectionLoop, for any connections, descriptors, workers *)
(* and sizes, in four layers, each inductive given those before it:        *)
(*                                                                         *)
(*   Typed       every variable has its type, every pc fits its variables  *)
(*   Owned       a client is at one station, in one place, with its own    *)
(*               descriptor                                                *)
(*   Watched     what epoll watches and has reported fits the stations     *)
(*   OpenIsHeld  an open descriptor is of a client somebody holds          *)
(***************************************************************************)
EXTENDS ConnectionLoop, FiniteSetTheorems, FunctionTheorems, SequenceTheorems, TLAPS

(* What the program counters say of the variables they go with.            *)
InStep ==
    /\ apc = "enqueue" <=> accepted # None
    /\ \A w \in Workers : wpc[w] = "running" <=> client[w] # None
    /\ epc = "left" <=> opc # "open"
    /\ opc = "open" => sentinels = 0
    /\ opc = "stopping" => sentinels < ThreadCount
    /\ \A c \in Conns : Len(leftover[c]) <= MaxHeader

Typed == TypeOK /\ InStep

LEMMA ThreadCountIsPositive == ThreadCount \in Nat /\ ThreadCount > 0
<1>1. IsFiniteSet(Workers) /\ Workers # {}
  BY LoopAssumption
<1>2. Cardinality(Workers) \in Nat /\ Cardinality(Workers) # 0
  BY <1>1, FS_CardinalityType, FS_EmptySet
<1>3. QED
  BY <1>2 DEF ThreadCount

(* The model values are told apart.                                        *)
LEMMA NoneIsApart ==
    /\ None \notin Conns /\ None \notin Fds /\ None \notin Workers
    /\ "new" \notin Fds /\ "return" \notin Fds
    /\ PipeCapacity \in Nat /\ PipeCapacity > 0
    /\ ReadChunk \in Nat /\ ReadChunk > 0
    /\ MaxHeader \in Nat /\ MaxHeader > 0
    /\ MaxUnread \in Nat
BY LoopAssumption

LEMMA DropIsSeq ==
    ASSUME NEW S, NEW s \in Seq(S), NEW n \in Nat
    PROVE  Drop(s, n) \in Seq(S) /\ Len(Drop(s, n)) <= Len(s)
<1>1. Len(s) \in Nat /\ \A i \in (n + 1)..Len(s) : s[i] \in S
  BY ElementOfSeq, LenProperties
<1>2. /\ SubSeq(s, n + 1, Len(s)) \in Seq(S)
      /\ Len(SubSeq(s, n + 1, Len(s)))
           = IF n + 1 <= Len(s) THEN Len(s) - (n + 1) + 1 ELSE 0
  <2> HIDE <1>1
  <2>1. n + 1 \in Int /\ Len(s) \in Int
    BY <1>1
  <2>2. QED
    BY <1>1, <2>1, SubSeqProperties, Zenon
<1>3. QED
  BY <1>1, <1>2 DEF Drop

(* The first max of the a leftover segments and the b unread ones are at   *)
(* least the a segments.                                                   *)
LEMMA Capped ==
    ASSUME NEW a \in Nat, NEW b \in Nat, NEW max \in Nat, a <= max
    PROVE  LET n == IF a + b < max THEN a + b ELSE max
           IN  n \in Nat /\ n <= a + b /\ n <= max /\ n - a \in Nat
<1>1. CASE a + b < max
  BY <1>1
<1>2. CASE ~(a + b < max)
  BY <1>2
<1>3. QED
  BY <1>1, <1>2

(* peek() leaves the leftover bytes in front, and takes what it adds from  *)
(* the socket.                                                             *)
LEMMA PeekedIsSeq ==
    ASSUME TypeOK, NEW c \in Conns, Len(leftover[c]) <= MaxHeader
    PROVE  /\ Peeked(c) \in Seq(Segments)
           /\ Len(Peeked(c)) \in Nat /\ Len(Peeked(c)) <= MaxHeader
           /\ Len(Peeked(c)) - Len(leftover[c]) \in Nat
<1>1. leftover[c] \in Seq(Segments) /\ unread[c] \in Seq(Segments)
  BY DEF TypeOK
<1>2. PICK a \in Nat, b \in Nat : a = Len(leftover[c]) /\ b = Len(unread[c])
  BY <1>1, LenProperties
<1>3. PICK all \in Seq(Segments) : all = leftover[c] \o unread[c] /\ Len(all) = a + b
  BY <1>1, <1>2, ConcatProperties
<1>4. PICK n : n = IF a + b < MaxHeader THEN a + b ELSE MaxHeader
  OBVIOUS
<1>5. n \in Nat /\ n <= a + b /\ n <= MaxHeader /\ n - a \in Nat
  <2>1. MaxHeader \in Nat /\ a <= MaxHeader
    BY <1>2, NoneIsApart
  <2>2. QED
    BY <1>4, <2>1, Capped
<1>6. \A i \in 1..n : all[i] \in Segments
  <2>1. TAKE i \in 1..n
  <2>2. i \in 1..Len(all)
    BY <1>3, <1>5
  <2>3. QED
    BY <2>2, ElementOfSeq
<1>7. SubSeq(all, 1, n) \in Seq(Segments) /\ Len(SubSeq(all, 1, n)) = n
  <2>1. 1 \in Int /\ n \in Int /\ (IF 1 <= n THEN n - 1 + 1 ELSE 0) = n
    BY <1>5
  <2>2. QED
    BY <1>6, <2>1, SubSeqProperties
<1>8. Peeked(c) = SubSeq(all, 1, n)
  BY <1>3, <1>4 DEF Peeked
<1>9. QED
  BY <1>2, <1>5, <1>7, <1>8

(* What epoll_wait reports is events of open descriptors.                  *)
LEMMA BatchIsTyped == TypeOK => ReadyEvents \subseteq Events
<1> SUFFICES ASSUME TypeOK, NEW e \in ReadyEvents PROVE e \in Events
  OBVIOUS
<1>1. CASE \E fd \in {"new", "return"} : e = [fd |-> fd, hup |-> FALSE]
  BY <1>1 DEF Events
<1>2. CASE \E c \in Conns : Open(c) /\ e = [fd |-> fdOf[c], hup |-> peer[c] = "reset"]
  BY <1>2 DEF Events, Open, TypeOK
<1>3. QED
  BY <1>1, <1>2 DEF ReadyEvents

LEMMA CloseIsTyped ==
    ASSUME Typed, NEW c \in Conns, CloseClient(c)
    PROVE  /\ fdOf' \in [Conns -> Fds \cup {None}]
           /\ unread' \in [Conns -> Seq(Segments)]
           /\ leftover' \in [Conns -> Seq(Segments)]
           /\ \A d \in Conns : Len(leftover'[d]) <= MaxHeader
           /\ interest' \in [Fds -> {"none", "armed", "disarmed"}]
<1> USE DEF Typed, TypeOK, CloseClient
<1>1. /\ leftover' \in [Conns -> Seq(Segments)]
      /\ unread' \in [Conns -> Seq(Segments)]
  <2>1. <<>> \in Seq(Segments)
    OBVIOUS
  <2>2. leftover' \in [Conns -> Seq(Segments)]
    BY <2>1
  <2>3. unread' = unread \/ unread' = [unread EXCEPT ![c] = <<>>]
    OBVIOUS
  <2>4. QED
    BY <2>1, <2>2, <2>3
<1>2. \A d \in Conns : Len(leftover'[d]) <= MaxHeader
  <2>1. TAKE d \in Conns
  <2>2. leftover'[d] = IF d = c THEN <<>> ELSE leftover[d]
    OBVIOUS
  <2>3. CASE d = c
    BY <2>2, <2>3, NoneIsApart
  <2>4. CASE d # c
    BY <2>2, <2>4 DEF InStep
  <2>5. QED
    BY <2>3, <2>4
<1>3. fdOf' \in [Conns -> Fds \cup {None}]
  OBVIOUS
<1>4. interest' \in [Fds -> {"none", "armed", "disarmed"}]
  OBVIOUS
<1>5. QED
  BY <1>1, <1>2, <1>3, <1>4

(* What is left over, and unread, when the first i segments are taken.     *)
LEMMA PeekIsTyped ==
    ASSUME Typed, NEW c \in Conns, NEW i \in Nat
    PROVE  /\ Drop(Peeked(c), i) \in Seq(Segments)
           /\ Len(Drop(Peeked(c), i)) <= MaxHeader
           /\ Peeked(c) \in Seq(Segments) /\ Len(Peeked(c)) <= MaxHeader
           /\ Drop(unread[c], Len(Peeked(c)) - Len(leftover[c])) \in Seq(Segments)
<1>1. /\ Peeked(c) \in Seq(Segments)
      /\ Len(Peeked(c)) \in Nat /\ Len(Peeked(c)) <= MaxHeader
      /\ Len(Peeked(c)) - Len(leftover[c]) \in Nat
  BY PeekedIsSeq DEF Typed, InStep
<1>2. Drop(Peeked(c), i) \in Seq(Segments) /\ Len(Drop(Peeked(c), i)) <= Len(Peeked(c))
  BY <1>1, DropIsSeq
<1>3. Len(Drop(Peeked(c), i)) \in Nat /\ MaxHeader \in Nat
  BY <1>2, LenProperties, NoneIsApart
<1>4. unread[c] \in Seq(Segments)
  BY DEF Typed, TypeOK
<1>5. Drop(unread[c], Len(Peeked(c)) - Len(leftover[c])) \in Seq(Segments)
  BY <1>1, <1>4, DropIsSeq
<1>6. QED
  BY <1>1, <1>2, <1>3, <1>5

(* What is left over, and unread, when n segments of body are read.        *)
LEMMA RestIsTyped ==
    ASSUME Typed, NEW c \in Conns, NEW n \in Nat
    PROVE  /\ Drop(leftover[c], n) \in Seq(Segments)
           /\ Len(Drop(leftover[c], n)) <= MaxHeader
           /\ Drop(unread[c], IF n > Len(leftover[c]) THEN n - Len(leftover[c]) ELSE 0)
                \in Seq(Segments)
<1>1. /\ leftover[c] \in Seq(Segments) /\ unread[c] \in Seq(Segments)
      /\ Len(leftover[c]) <= MaxHeader
  BY DEF Typed, TypeOK, InStep
<1>2. PICK a \in Nat : a = Len(leftover[c])
  BY <1>1, LenProperties
<1>3. /\ Drop(leftover[c], n) \in Seq(Segments)
      /\ Len(Drop(leftover[c], n)) \in Nat
      /\ Len(Drop(leftover[c], n)) <= a
  BY <1>1, <1>2, DropIsSeq, LenProperties
<1>4. (IF n > a THEN n - a ELSE 0) \in Nat
  OBVIOUS
<1>5. QED
  BY <1>1, <1>2, <1>3, <1>4, DropIsSeq, NoneIsApart

LEMMA BuffersAreTyped ==
    ASSUME Typed, NEW c \in Conns, NEW s \in Seq(Segments), Len(s) <= MaxHeader,
           NEW t \in Seq(Segments),
           leftover' = [leftover EXCEPT ![c] = s], unread' = [unread EXCEPT ![c] = t]
    PROVE  /\ leftover' \in [Conns -> Seq(Segments)]
           /\ unread' \in [Conns -> Seq(Segments)]
           /\ \A d \in Conns : Len(leftover'[d]) <= MaxHeader
BY DEF Typed, TypeOK, InStep

(* The client at the head of a queue, and the queue behind it.             *)
LEMMA HeadIsTyped ==
    ASSUME Typed
    PROVE  /\ clients # <<>> => Head(clients) \in Conns /\ Tail(clients) \in Seq(Conns)
           /\ tasks # <<>> => /\ Head(tasks) \in Conns \cup {None}
                              /\ Tail(tasks) \in Seq(Conns \cup {None})
           /\ \A w \in Workers :
                returned[w] # <<>> => /\ Head(returned[w]) \in Returns
                                      /\ Head(returned[w]).client \in Conns
                                      /\ Tail(returned[w]) \in Seq(Returns)
<1> USE DEF Typed, TypeOK
<1>1. clients # <<>> => Head(clients) \in Conns /\ Tail(clients) \in Seq(Conns)
  BY HeadTailProperties
<1>2. tasks # <<>> => /\ Head(tasks) \in Conns \cup {None}
                      /\ Tail(tasks) \in Seq(Conns \cup {None})
  BY HeadTailProperties
<1>3. ASSUME NEW w \in Workers, returned[w] # <<>>
      PROVE  /\ Head(returned[w]) \in Returns
             /\ Head(returned[w]).client \in Conns
             /\ Tail(returned[w]) \in Seq(Returns)
  <2>1. returned[w] \in Seq(Returns)
    OBVIOUS
  <2>2. Head(returned[w]) \in Returns /\ Tail(returned[w]) \in Seq(Returns)
    BY <1>3, <2>1, HeadTailProperties
  <2>3. QED
    BY <2>2 DEF Returns
<1>4. QED
  BY <1>1, <1>2, <1>3

LEMMA TypeInit == Init => Typed
<1> SUFFICES ASSUME Init PROVE Typed
  OBVIOUS
<1> USE DEF Init
<1>1. sentinels \in 0..ThreadCount /\ newPipe \in 0..PipeCapacity
                                   /\ returnPipe \in 0..PipeCapacity
  BY ThreadCountIsPositive, NoneIsApart
<1>2. /\ unread \in [Conns -> Seq(Segments)] /\ leftover \in [Conns -> Seq(Segments)]
      /\ returned \in [Workers -> Seq(Returns)]
      /\ clients \in Seq(Conns) /\ tasks \in Seq(Conns \cup {None})
  OBVIOUS
<1>3. TypeOK
  BY <1>1, <1>2 DEF TypeOK
<1>4. InStep
  BY ThreadCountIsPositive, NoneIsApart DEF InStep
<1>5. QED
  BY <1>3, <1>4 DEF Typed

LEMMA TypeStep == Typed /\ [Next]_vars => Typed'
<1> SUFFICES ASSUME Typed, [Next]_vars PROVE TypeOK' /\ InStep'
  BY DEF Typed
<1> USE DEF Typed, TypeOK, InStep, kernelVars, acceptVars, newVars, returnVars,
            loopVars, poolVars
<1>1. ASSUME NEW c \in Conns, Connect(c)
      PROVE  TypeOK' /\ InStep'
  BY <1>1 DEF Connect
<1>2. ASSUME NEW c \in Conns, NEW s \in Segments, Send(c, s)
      PROVE  TypeOK' /\ InStep'
  BY <1>2 DEF Send
<1>3. ASSUME NEW c \in Conns, NEW how \in {"fin", "reset"}, Hangup(c, how)
      PROVE  TypeOK' /\ InStep'
  BY <1>3 DEF Hangup
<1>4. ASSUME NEW c \in Conns, NEW fd \in Fds, Accept(c, fd)
      PROVE  TypeOK' /\ InStep'
  BY <1>4, NoneIsApart DEF Accept, FreeFds
<1>5. CASE AcceptFails
  BY <1>5 DEF AcceptFails
<1>6. CASE Enqueue
  BY <1>6, NoneIsApart DEF Enqueue
<1>7. CASE Signal
  BY <1>7, NoneIsApart DEF Signal, Written
<1>8. CASE AcceptMore
  BY <1>8 DEF AcceptMore
<1>9. CASE Shutdown
  BY <1>9 DEF Shutdown
<1>10. CASE JoinEpollThread
  BY <1>10 DEF JoinEpollThread
<1>11. CASE EpollWait
  BY <1>11, BatchIsTyped DEF EpollWait, InterestAfter
<1>12. ASSUME NEW e \in Events, ReadNewPipe(e)
      PROVE  TypeOK' /\ InStep'
  BY <1>12, NoneIsApart DEF ReadNewPipe, Handling, Unread
<1>13. ASSUME NEW e \in Events, LeaveLoop(e)
      PROVE  TypeOK' /\ InStep'
  BY <1>13, ThreadCountIsPositive DEF LeaveLoop, Handling
<1>14. ASSUME NEW e \in Events, ReadReturnPipe(e)
      PROVE  TypeOK' /\ InStep'
  BY <1>14, NoneIsApart DEF ReadReturnPipe, Handling, Unread
<1>15. ASSUME NEW e \in Events, HandleHangup(e)
      PROVE  TypeOK' /\ InStep'
  BY <1>15, CloseIsTyped DEF HandleHangup, Handling, Erase, NextEvent
<1>16. ASSUME NEW e \in Events, HandleIncomplete(e)
       PROVE  TypeOK' /\ InStep'
  <2>1. CASE connections[e.fd] = None
    BY <1>16, <2>1 DEF HandleIncomplete, Handling, NextEvent
  <2>2. ASSUME NEW c \in Conns, connections[e.fd] = c
        PROVE  TypeOK' /\ InStep'
    <3>1. /\ leftover' \in [Conns -> Seq(Segments)]
          /\ unread' \in [Conns -> Seq(Segments)]
          /\ \A d \in Conns : Len(leftover'[d]) <= MaxHeader
      <4>1. /\ leftover' = [leftover EXCEPT ![c] = Peeked(c)]
            /\ unread' = [unread EXCEPT
                           ![c] = Drop(unread[c], Len(Peeked(c)) - Len(leftover[c]))]
        BY <1>16, <2>2, NoneIsApart DEF HandleIncomplete
      <4>2. QED
        BY <4>1, PeekIsTyped, BuffersAreTyped
    <3>2. interest' \in [Fds -> {"none", "armed", "disarmed"}]
      BY <1>16, <2>2, NoneIsApart DEF HandleIncomplete, Rearm
    <3>3. QED
      BY <1>16, <3>1, <3>2 DEF HandleIncomplete, Handling, NextEvent
  <2>3. QED
    BY <1>16, <2>1, <2>2 DEF HandleIncomplete
<1>17. ASSUME NEW e \in Events, HandleRequest(e)
       PROVE  TypeOK' /\ InStep'
  <2>1. PICK c \in Conns : connections[e.fd] = c
    BY <1>17 DEF HandleRequest
  <2>2. /\ leftover' \in [Conns -> Seq(Segments)]
        /\ unread' \in [Conns -> Seq(Segments)]
        /\ \A d \in Conns : Len(leftover'[d]) <= MaxHeader
        /\ tasks' \in Seq(Conns \cup {None})
    <3>1. PICK i \in HeaderEnds(c) :
             /\ leftover' = [leftover EXCEPT ![c] = Drop(Peeked(c), i)]
             /\ unread' = [unread EXCEPT
                             ![c] = Drop(unread[c], Len(Peeked(c)) - Len(leftover[c]))]
             /\ tasks' = Append(tasks, c)
      BY <1>17, <2>1 DEF HandleRequest
    <3>2. i \in Nat
      BY DEF HeaderEnds
    <3>3. /\ Drop(Peeked(c), i) \in Seq(Segments)
          /\ Len(Drop(Peeked(c), i)) <= MaxHeader
          /\ Drop(unread[c], Len(Peeked(c)) - Len(leftover[c])) \in Seq(Segments)
      BY <3>2, PeekIsTyped
    <3>4. tasks' \in Seq(Conns \cup {None})
      BY <3>1, AppendProperties
    <3>5. QED
      BY <3>1, <3>3, <3>4, BuffersAreTyped
  <2>3. QED
    BY <1>17, <2>2 DEF HandleRequest, Handling, Erase, NextEvent
<1>18. CASE DrainNew
  BY <1>18, HeadIsTyped DEF DrainNew
<1>19. CASE DrainNewDone
  BY <1>19 DEF DrainNewDone, NextEvent
<1>20. ASSUME NEW w \in Workers, DrainKept(w)
      PROVE  TypeOK' /\ InStep'
  BY <1>20, HeadIsTyped DEF DrainKept, Rearm
<1>21. ASSUME NEW w \in Workers, DrainClosed(w)
      PROVE  TypeOK' /\ InStep'
  BY <1>21, HeadIsTyped, CloseIsTyped DEF DrainClosed
<1>22. ASSUME NEW w \in Workers, FoundEmpty(w)
      PROVE  TypeOK' /\ InStep'
  BY <1>22 DEF FoundEmpty, NextEvent
<1>23. CASE PushSentinel
  BY <1>23, ThreadCountIsPositive DEF PushSentinel, LastSentinel
<1>24. CASE JoinWorkers
  BY <1>24 DEF JoinWorkers
<1>25. ASSUME NEW w \in Workers, Take(w)
      PROVE  TypeOK' /\ InStep'
  BY <1>25, NoneIsApart DEF Take
<1>26. ASSUME NEW w \in Workers, NEW n \in Nat, NEW keep \in BOOLEAN,
              Respond(w, n, keep)
       PROVE  TypeOK' /\ InStep'
  <2>1. PICK c \in Conns : client[w] = c
    BY <1>26 DEF Respond
  <2>2. /\ leftover' \in [Conns -> Seq(Segments)]
        /\ unread' \in [Conns -> Seq(Segments)]
        /\ \A d \in Conns : Len(leftover'[d]) <= MaxHeader
    BY <1>26, <2>1, RestIsTyped DEF Respond
  <2>3. returned' \in [Workers -> Seq(Returns)]
    BY <1>26, <2>1 DEF Respond, Returns
  <2>4. QED
    BY <1>26, <2>2, <2>3, NoneIsApart DEF Respond
<1>27. ASSUME NEW w \in Workers, SignalReturn(w)
      PROVE  TypeOK' /\ InStep'
  BY <1>27, NoneIsApart DEF SignalReturn, Written
<1>28. ASSUME NEW w \in Workers, HandlerThrows(w)
      PROVE  TypeOK' /\ InStep'
  BY <1>28 DEF HandlerThrows
<1>29. CASE UNCHANGED vars
  BY <1>29 DEF vars
<1>30. ASSUME NEW w \in Workers, WorkerStep(w)
       PROVE  TypeOK' /\ InStep'
  <2>1. 0..(MaxHeader + MaxUnread) \subseteq Nat
    BY NoneIsApart
  <2>2. QED
    BY <1>25, <1>26, <1>27, <1>30, <2>1 DEF WorkerStep
<1>31. QED
  BY <1>1, <1>2, <1>3, <1>4, <1>5, <1>6, <1>7, <1>8, <1>9, <1>10, <1>11, <1>12, <1>13, <1>14, <1>15, <1>16, <1>17, <1>18, <1>19, <1>20, <1>21, <1>22, <1>23, <1>24, <1>28, <1>29, <1>30 DEF Next, Peers, AcceptorStep, EpollStep
LEMMA TypeInvariance == Spec => []Typed
BY TypeInit, TypeStep, PTL DEF Spec, Safety

(* Every variable keeps its type; in particular a pipe never holds more    *)
(* than its capacity, and stop_all pushes no more than ThreadCount         *)
(* sentinels.                                                              *)
THEOREM TypeCorrect == Spec => []TypeOK
<1>1. Typed => TypeOK
  BY DEF Typed
<1>2. QED
  BY <1>1, TypeInvariance, PTL
-----------------------------------------------------------------------------
(* The clients of a queue; the null task, None, is no client.  The entries *)
(* of returnChannel carry theirs in a field.                               *)
In(s, c) == \E i \in 1..Len(s) : s[i] = c
Distinct(s) == \A i, j \in 1..Len(s) : s[i] = s[j] /\ s[i] # None => i = j

Carries(s, c) == \E i \in 1..Len(s) : s[i].client = c
DistinctClients(s) == \A i, j \in 1..Len(s) : s[i].client = s[j].client => i = j

LEMMA InAppend ==
    ASSUME NEW S, NEW s \in Seq(S), NEW x \in S
    PROVE  /\ \A c : In(Append(s, x), c) <=> In(s, c) \/ c = x
           /\ Distinct(s) /\ (x = None \/ ~In(s, x)) => Distinct(Append(s, x))
<1>1. PICK n \in Nat : n = Len(s)
  BY LenProperties
<1>2. PICK t : t = Append(s, x)
  OBVIOUS
<1>3. /\ Len(t) = n + 1
      /\ \A i \in 1..n : t[i] = s[i]
      /\ t[n + 1] = x
  BY <1>1, <1>2, AppendProperties
<1>4. \A i \in 1..(n + 1) : i = n + 1 \/ i \in 1..n
  OBVIOUS
<1>5. n + 1 \in 1..(n + 1) /\ \A i \in 1..n : i \in 1..(n + 1) /\ i # n + 1
  OBVIOUS
<1>6. ASSUME NEW c PROVE In(t, c) <=> In(s, c) \/ c = x
  BY <1>1, <1>3, <1>4, <1>5 DEF In
<1>7. ASSUME Distinct(s), x = None \/ ~In(s, x) PROVE Distinct(t)
  BY <1>1, <1>3, <1>4, <1>5, <1>7 DEF In, Distinct
<1>8. QED
  BY <1>2, <1>6, <1>7

LEMMA InTail ==
    ASSUME NEW S, NEW s \in Seq(S), s # <<>>, Distinct(s)
    PROVE  /\ In(s, Head(s))
           /\ \A c : c # None => (In(Tail(s), c) <=> In(s, c) /\ c # Head(s))
           /\ Distinct(Tail(s))
<1>1. PICK n \in Nat : n = Len(s)
  BY LenProperties
<1>2. PICK t : t = Tail(s)
  OBVIOUS
<1>3. /\ Len(t) = n - 1 /\ n > 0
      /\ \A i \in 1..(n - 1) : t[i] = s[i + 1]
      /\ Head(s) = s[1]
  BY <1>1, <1>2, HeadTailProperties, EmptySeq
<1>4. /\ 1 \in 1..n
      /\ \A i \in 1..(n - 1) : i + 1 \in 1..n /\ i + 1 # 1
      /\ \A i \in 1..n : i = 1 \/ (i - 1 \in 1..(n - 1) /\ (i - 1) + 1 = i)
      /\ \A i, j \in 1..(n - 1) : i + 1 = j + 1 => i = j
  BY <1>3
<1>5. In(s, Head(s))
  BY <1>1, <1>3, <1>4 DEF In
<1>6. ASSUME NEW c, c # None PROVE In(t, c) <=> In(s, c) /\ c # Head(s)
  <2>1. ASSUME In(t, c) PROVE In(s, c) /\ c # Head(s)
    BY <1>1, <1>3, <1>4, <1>6, <2>1 DEF In, Distinct
  <2>2. ASSUME In(s, c), c # Head(s) PROVE In(t, c)
    <3>1. PICK i \in 1..n : s[i] = c
      BY <1>1, <2>2 DEF In
    <3>2. i - 1 \in 1..(n - 1) /\ (i - 1) + 1 = i
      BY <1>3, <1>4, <2>2, <3>1
    <3>3. t[i - 1] = s[i]
      BY <1>3, <3>2
    <3>4. QED
      BY <1>3, <3>1, <3>2, <3>3 DEF In
  <2>3. QED
    BY <2>1, <2>2
<1>7. Distinct(t)
  BY <1>1, <1>3, <1>4 DEF Distinct
<1>8. QED
  BY <1>2, <1>5, <1>6, <1>7

LEMMA CarriesAppend ==
    ASSUME NEW s \in Seq(Returns), NEW x \in Returns
    PROVE  /\ \A c : Carries(Append(s, x), c) <=> Carries(s, c) \/ c = x.client
           /\ DistinctClients(s) /\ ~Carries(s, x.client)
                => DistinctClients(Append(s, x))
<1>1. PICK n \in Nat : n = Len(s)
  BY LenProperties
<1>2. PICK t : t = Append(s, x)
  OBVIOUS
<1>3. /\ Len(t) = n + 1
      /\ \A i \in 1..n : t[i] = s[i]
      /\ t[n + 1] = x
  BY <1>1, <1>2, AppendProperties
<1>4. \A i \in 1..(n + 1) : i = n + 1 \/ i \in 1..n
  OBVIOUS
<1>5. n + 1 \in 1..(n + 1) /\ \A i \in 1..n : i \in 1..(n + 1) /\ i # n + 1
  OBVIOUS
<1>6. ASSUME NEW c PROVE Carries(t, c) <=> Carries(s, c) \/ c = x.client
  BY <1>1, <1>3, <1>4, <1>5 DEF Carries
<1>7. ASSUME DistinctClients(s), ~Carries(s, x.client) PROVE DistinctClients(t)
  BY <1>1, <1>3, <1>4, <1>5, <1>7 DEF Carries, DistinctClients
<1>8. QED
  BY <1>2, <1>6, <1>7

LEMMA CarriesTail ==
    ASSUME NEW s \in Seq(Returns), s # <<>>, DistinctClients(s)
    PROVE  /\ Carries(s, Head(s).client)
           /\ \A c : Carries(Tail(s), c) <=> Carries(s, c) /\ c # Head(s).client
           /\ DistinctClients(Tail(s))
<1>1. PICK n \in Nat : n = Len(s)
  BY LenProperties
<1>2. PICK t : t = Tail(s)
  OBVIOUS
<1>3. /\ Len(t) = n - 1 /\ n > 0
      /\ \A i \in 1..(n - 1) : t[i] = s[i + 1]
      /\ Head(s) = s[1]
  BY <1>1, <1>2, HeadTailProperties, EmptySeq
<1>4. /\ 1 \in 1..n
      /\ \A i \in 1..(n - 1) : i + 1 \in 1..n /\ i + 1 # 1
      /\ \A i \in 1..n : i = 1 \/ (i - 1 \in 1..(n - 1) /\ (i - 1) + 1 = i)
      /\ \A i, j \in 1..(n - 1) : i + 1 = j + 1 => i = j
  BY <1>3
<1>5. Carries(s, Head(s).client)
  BY <1>1, <1>3, <1>4 DEF Carries
<1>6. ASSUME NEW c PROVE Carries(t, c) <=> Carries(s, c) /\ c # Head(s).client
  <2>1. ASSUME Carries(t, c) PROVE Carries(s, c) /\ c # Head(s).client
    BY <1>1, <1>3, <1>4, <2>1 DEF Carries, DistinctClients
  <2>2. ASSUME Carries(s, c), c # Head(s).client PROVE Carries(t, c)
    <3>1. PICK i \in 1..n : s[i].client = c
      BY <1>1, <2>2 DEF Carries
    <3>2. i - 1 \in 1..(n - 1) /\ (i - 1) + 1 = i
      BY <1>3, <1>4, <2>2, <3>1
    <3>3. t[i - 1] = s[i]
      BY <1>3, <3>2
    <3>4. QED
      BY <1>3, <3>1, <3>2, <3>3 DEF Carries
  <2>3. QED
    BY <2>1, <2>2
<1>7. DistinctClients(t)
  BY <1>1, <1>3, <1>4 DEF DistinctClients
<1>8. QED
  BY <1>2, <1>5, <1>6, <1>7
-----------------------------------------------------------------------------
(* The two ends a descriptor ties together: an open one is of one client,  *)
(* the table files a client under its own, and only a client that was      *)
(* accepted has one.                                                       *)
FdsMatch ==
    /\ \A c, d \in Conns : Open(c) /\ fdOf[c] = fdOf[d] => c = d
    /\ \A fd \in Fds : connections[fd] # None => fdOf[connections[fd]] = fd
    /\ \A c \in Conns : Open(c) => peer[c] # "none" /\ c \notin backlog
    /\ \A c \in backlog : peer[c] # "none"

(* No container has a client twice.                                        *)
NoDuplicates ==
    /\ Distinct(clients)
    /\ Distinct(tasks)
    /\ \A v, w \in Workers : client[v] = client[w] /\ client[v] # None => v = w
    /\ \A w \in Workers : DistinctClients(returned[w])
    /\ \A v, w \in Workers, c \in Conns :
          Carries(returned[v], c) /\ Carries(returned[w], c) => v = w

Served(c) == \E w \in Workers : client[w] = c
Given(c)  == \E w \in Workers : Carries(returned[w], c)

(* The stations of a client exclude one another, each those after it, and  *)
(* all of them need an open descriptor.                                    *)
OneStation ==
    \A c \in Conns :
        /\ accepted = c   => ~In(clients, c) /\ ~Waiting(c) /\ ~In(tasks, c)
                             /\ ~Served(c) /\ ~Given(c) /\ Open(c)
        /\ In(clients, c) => ~Waiting(c) /\ ~In(tasks, c) /\ ~Served(c)
                             /\ ~Given(c) /\ Open(c)
        /\ Waiting(c)     => ~In(tasks, c) /\ ~Served(c) /\ ~Given(c) /\ Open(c)
        /\ In(tasks, c)   => ~Served(c) /\ ~Given(c) /\ Open(c)
        /\ Served(c)      => ~Given(c) /\ Open(c)
        /\ Given(c)       => Open(c)

Owned == FdsMatch /\ NoDuplicates /\ OneStation

LEMMA OwnedInit == Init => Owned
BY NoneIsApart DEF Init, Owned, FdsMatch, NoDuplicates, OneStation, Served, Given,
   Waiting, Open, In, Distinct, Carries, DistinctClients

(* A step that moves no client keeps every owner.                          *)
LEMMA NothingMoves ==
    ASSUME Owned, UNCHANGED <<peer, backlog, fdOf>>,
           UNCHANGED <<accepted, clients, connections, tasks, client, returned>>
    PROVE  Owned'
<1>1. FdsMatch'
  BY DEF Owned, FdsMatch, Open
<1>2. NoDuplicates'
  BY DEF Owned, NoDuplicates
<1>3. OneStation'
  BY DEF Owned, OneStation, Served, Given, Waiting, Open
<1>4. QED
  BY <1>1, <1>2, <1>3 DEF Owned

(* emplace(): the entry of an accepted or returned client is free.         *)
LEMMA Filed ==
    ASSUME Typed, Owned, NEW c \in Conns, Open(c), ~Waiting(c), fdOf' = fdOf,
           connections' = [connections EXCEPT ![fdOf[c]] = IF @ = None THEN c ELSE @]
    PROVE  /\ connections[fdOf[c]] = None
           /\ \A d \in Conns : Waiting(d)' <=> Waiting(d) \/ d = c
           /\ \A fd \in Fds : connections'[fd] # None => fdOf'[connections'[fd]] = fd
<1>1. PICK f \in Fds : f = fdOf[c]
  BY DEF Typed, TypeOK, Open
<1>2. connections[f] = None
  <2>1. SUFFICES ASSUME connections[f] # None PROVE FALSE
    OBVIOUS
  <2>2. PICK d \in Conns : d = connections[f]
    BY <2>1 DEF Typed, TypeOK
  <2>3. fdOf[d] = f
    BY <2>1, <2>2 DEF Owned, FdsMatch
  <2>4. c = d
    BY <1>1, <2>3 DEF Owned, FdsMatch
  <2>5. QED
    BY <2>2, <2>4 DEF Waiting
<1>3. connections' = [connections EXCEPT ![f] = c] /\ connections \in [Fds -> Conns \cup {None}]
  BY <1>1, <1>2 DEF Typed, TypeOK
<1>4. \A d \in Conns : Waiting(d)' <=> Waiting(d) \/ d = c
  BY <1>2, <1>3, NoneIsApart DEF Waiting
<1>5. \A fd \in Fds : connections'[fd] # None => fdOf'[connections'[fd]] = fd
  BY <1>1, <1>3 DEF Owned, FdsMatch
<1>6. QED
  BY <1>1, <1>2, <1>4, <1>5

(* erase().                                                                *)
LEMMA Erased ==
    ASSUME Typed, Owned, NEW f \in Fds, NEW c \in Conns, connections[f] = c, Erase(f)
    PROVE  /\ Waiting(c) /\ ~Waiting(c)'
           /\ \A d \in Conns : Waiting(d)' <=> Waiting(d) /\ d # c
           /\ \A fd \in Fds : connections'[fd] # None =>
                connections'[fd] = connections[fd] /\ connections[fd] # c
<1>1. connections' = [connections EXCEPT ![f] = None] /\ connections \in [Fds -> Conns \cup {None}]
  BY DEF Erase, Typed, TypeOK
<1>2. \A fd \in Fds : connections[fd] = c => fd = f
  BY NoneIsApart DEF Owned, FdsMatch
<1>3. QED
  BY <1>1, <1>2, NoneIsApart DEF Waiting

(* A closed client loses its descriptor, if it loses any, to nobody.       *)
LEMMA Closed ==
    ASSUME Typed, Owned, NEW c \in Conns, CloseClient(c)
    PROVE  /\ \A d \in Conns : d # c => fdOf'[d] = fdOf[d]
           /\ fdOf'[c] = fdOf[c] \/ fdOf'[c] = None
           /\ \A d, e \in Conns : Open(d)' /\ fdOf'[d] = fdOf'[e] => d = e
           /\ \A d \in Conns : Open(d)' => Open(d)
<1>1. /\ \A d \in Conns : d # c => fdOf'[d] = fdOf[d]
      /\ fdOf'[c] = fdOf[c] \/ fdOf'[c] = None
  BY DEF CloseClient, Typed, TypeOK
<1>2. QED
  BY <1>1 DEF Owned, FdsMatch, Open

(* What worker w adds to returnChannel, or the loop takes from its part.   *)
LEMMA GivenMore ==
    ASSUME Typed, Owned, NEW w \in Workers, NEW x \in Returns, ~Given(x.client),
           returned' = [returned EXCEPT ![w] = Append(@, x)]
    PROVE  /\ \A d \in Conns : Given(d)' <=> Given(d) \/ d = x.client
           /\ \A v \in Workers : DistinctClients(returned'[v])
           /\ \A u, v \in Workers, d \in Conns :
                 Carries(returned'[u], d) /\ Carries(returned'[v], d) => u = v
<1>1. /\ \A v \in Workers : v # w => returned'[v] = returned[v]
      /\ returned'[w] = Append(returned[w], x)
      /\ returned[w] \in Seq(Returns)
  BY DEF Typed, TypeOK
<1>2. /\ \A d : Carries(returned'[w], d) <=> Carries(returned[w], d) \/ d = x.client
      /\ DistinctClients(returned[w]) /\ ~Carries(returned[w], x.client)
           => DistinctClients(returned'[w])
  BY <1>1, CarriesAppend
<1>3. QED
  BY <1>1, <1>2 DEF Given, Owned, NoDuplicates

LEMMA GivenLess ==
    ASSUME Typed, Owned, NEW w \in Workers, returned[w] # <<>>,
           returned' = [returned EXCEPT ![w] = Tail(@)]
    PROVE  /\ Given(Head(returned[w]).client)
           /\ \A d \in Conns : Given(d)' <=> Given(d) /\ d # Head(returned[w]).client
           /\ \A v \in Workers : DistinctClients(returned'[v])
           /\ \A u, v \in Workers, d \in Conns :
                 Carries(returned'[u], d) /\ Carries(returned'[v], d) => u = v
<1>1. PICK c \in Conns : c = Head(returned[w]).client
  BY HeadIsTyped
<1>2. /\ \A v \in Workers : v # w => returned'[v] = returned[v]
      /\ returned'[w] = Tail(returned[w])
      /\ returned[w] \in Seq(Returns)
  BY DEF Typed, TypeOK
<1>3. /\ Carries(returned[w], c)
      /\ \A d : Carries(returned'[w], d) <=> Carries(returned[w], d) /\ d # c
      /\ DistinctClients(returned'[w])
  BY <1>1, <1>2, CarriesTail DEF Owned, NoDuplicates
<1>4. QED
  BY <1>1, <1>2, <1>3 DEF Given, Owned, NoDuplicates
(* The steps that move a client, one lemma each.                           *)
LEMMA OwnedAccept ==
    ASSUME Typed, Owned, NEW c \in Conns, NEW fd \in Fds, Accept(c, fd)
    PROVE  Owned'
<1>1. /\ c \in backlog /\ fd \in FreeFds /\ accepted = None /\ accepted' = c
      /\ fdOf' = [fdOf EXCEPT ![c] = fd] /\ backlog' = backlog \ {c}
      /\ UNCHANGED <<peer, clients, connections, tasks, client, returned>>
  BY DEF Accept, Typed, InStep, newVars, returnVars, loopVars, poolVars
<1>2. ~Open(c) /\ Open(c)'
  BY <1>1, NoneIsApart DEF Owned, FdsMatch, Open, Typed, TypeOK
<1>3. \A d \in Conns : d # c => fdOf'[d] = fdOf[d] /\ (Open(d)' <=> Open(d))
  BY <1>1 DEF Open, Typed, TypeOK
<1>4. \A d \in Conns : fdOf[d] # fd
  BY <1>1 DEF FreeFds
<1>5. FdsMatch'
  <2>1. \A d, e \in Conns : Open(d)' /\ fdOf'[d] = fdOf'[e] => d = e
    BY <1>1, <1>3, <1>4 DEF Owned, FdsMatch, Open, Typed, TypeOK
  <2>2. \A f \in Fds : connections'[f] # None => fdOf'[connections'[f]] = f
    BY <1>1, <1>2, <1>3, NoneIsApart DEF Owned, FdsMatch, Open, Typed, TypeOK
  <2>3. \A d \in Conns : Open(d)' => peer'[d] # "none" /\ d \notin backlog'
    BY <1>1, <1>3 DEF Owned, FdsMatch
  <2>4. \A d \in backlog' : peer'[d] # "none"
    BY <1>1 DEF Owned, FdsMatch
  <2>5. QED
    BY <2>1, <2>2, <2>3, <2>4 DEF FdsMatch
<1>6. NoDuplicates'
  BY <1>1 DEF Owned, NoDuplicates
<1>7. OneStation'
  BY <1>1, <1>2, <1>3 DEF Owned, OneStation, Waiting, Served, Given
<1>8. QED
  BY <1>5, <1>6, <1>7 DEF Owned

LEMMA OwnedEnqueue == ASSUME Typed, Owned, Enqueue PROVE Owned'
<1>1. /\ accepted \in Conns /\ accepted' = None /\ clients' = Append(clients, accepted)
      /\ UNCHANGED <<peer, backlog, fdOf, connections, tasks, client, returned>>
  BY DEF Enqueue, Typed, TypeOK, InStep, kernelVars, returnVars, loopVars, poolVars
<1>2. /\ \A d : In(clients', d) <=> In(clients, d) \/ d = accepted
      /\ Distinct(clients) /\ ~In(clients, accepted) => Distinct(clients')
  BY <1>1, InAppend DEF Typed, TypeOK
<1>3. FdsMatch'
  BY <1>1 DEF Owned, FdsMatch, Open
<1>4. NoDuplicates'
  BY <1>1, <1>2 DEF Owned, NoDuplicates, OneStation
<1>5. OneStation'
  BY <1>1, <1>2, NoneIsApart DEF Owned, OneStation, Waiting, Served, Given, Open
<1>6. QED
  BY <1>3, <1>4, <1>5 DEF Owned

LEMMA OwnedLeaveLoop == ASSUME Typed, Owned, NEW e \in Events, LeaveLoop(e) PROVE Owned'
<1>1. /\ connections' = [fd \in Fds |-> None]
      /\ UNCHANGED <<peer, backlog, fdOf, accepted, clients, tasks, client, returned>>
  BY DEF LeaveLoop, acceptVars, newVars, returnVars
<1>2. \A c \in Conns : ~Waiting(c)'
  BY <1>1, NoneIsApart DEF Waiting
<1>3. FdsMatch'
  BY <1>1 DEF Owned, FdsMatch, Open
<1>4. NoDuplicates'
  BY <1>1 DEF Owned, NoDuplicates
<1>5. OneStation'
  BY <1>1, <1>2 DEF Owned, OneStation, Served, Given, Open
<1>6. QED
  BY <1>3, <1>4, <1>5 DEF Owned

(* newFdChannel.try_dequeue, epoll_ctl and emplace.                        *)
DrainNewMoves(c) ==
    /\ c = Head(clients)
    /\ clients # <<>> /\ clients' = Tail(clients)
    /\ connections' = [connections EXCEPT ![fdOf[c]] = IF @ = None THEN c ELSE @]
    /\ UNCHANGED <<peer, backlog, fdOf, accepted, tasks, client, returned>>
    /\ In(clients, c)
    /\ \A d \in Conns : In(clients', d) <=> In(clients, d) /\ d # c
    /\ Distinct(clients')
    /\ Open(c) /\ ~Waiting(c)
    /\ \A d \in Conns : Waiting(d)' <=> Waiting(d) \/ d = c
    /\ \A fd \in Fds : connections'[fd] # None => fdOf'[connections'[fd]] = fd

LEMMA MovesOfDrainNew == ASSUME Typed, Owned, DrainNew
    PROVE  \E c \in Conns : DrainNewMoves(c)
<1>1. PICK c \in Conns : c = Head(clients)
  BY HeadIsTyped DEF DrainNew
<1>2. /\ clients # <<>> /\ clients' = Tail(clients)
      /\ connections' = [connections EXCEPT ![fdOf[c]] = IF @ = None THEN c ELSE @]
      /\ UNCHANGED <<peer, backlog, fdOf, accepted, tasks, client, returned>>
  BY <1>1 DEF DrainNew, acceptVars, returnVars, poolVars
<1>3. /\ In(clients, c)
      /\ \A d \in Conns : In(clients', d) <=> In(clients, d) /\ d # c
      /\ Distinct(clients')
  BY <1>1, <1>2, InTail, NoneIsApart DEF Owned, NoDuplicates, Typed, TypeOK
<1>4. Open(c) /\ ~Waiting(c)
  BY <1>3 DEF Owned, OneStation
<1>5. /\ \A d \in Conns : Waiting(d)' <=> Waiting(d) \/ d = c
      /\ \A fd \in Fds : connections'[fd] # None => fdOf'[connections'[fd]] = fd
  BY <1>2, <1>4, Filed
<1>6. QED
  BY <1>1, <1>2, <1>3, <1>4, <1>5 DEF DrainNewMoves

LEMMA OwnedDrainNew == ASSUME Typed, Owned, DrainNew PROVE Owned'
<1>1. PICK c \in Conns : DrainNewMoves(c)
  BY MovesOfDrainNew
<1> USE DEF DrainNewMoves
<1>2. FdsMatch'
  BY <1>1 DEF Owned, FdsMatch, Open
<1>3. NoDuplicates'
  BY <1>1 DEF Owned, NoDuplicates
<1>4. OneStation'
  BY <1>1 DEF Owned, OneStation, Served, Given, Open
<1>5. QED
  BY <1>2, <1>3, <1>4 DEF Owned

(* A client that is kept goes back into the table.                         *)
DrainKeptMoves(c, w) ==
    /\ c = Head(returned[w]).client
    /\ returned[w] # <<>> /\ returned' = [returned EXCEPT ![w] = Tail(@)]
    /\ connections' = [connections EXCEPT ![fdOf[c]] = IF @ = None THEN c ELSE @]
    /\ UNCHANGED <<peer, backlog, fdOf, accepted, clients, tasks, client>>
    /\ Given(c)
    /\ \A d \in Conns : Given(d)' <=> Given(d) /\ d # c
    /\ \A v \in Workers : DistinctClients(returned'[v])
    /\ \A u, v \in Workers, d \in Conns :
          Carries(returned'[u], d) /\ Carries(returned'[v], d) => u = v
    /\ Open(c) /\ ~Waiting(c)
    /\ \A d \in Conns : Waiting(d)' <=> Waiting(d) \/ d = c
    /\ \A fd \in Fds : connections'[fd] # None => fdOf'[connections'[fd]] = fd

LEMMA MovesOfDrainKept == ASSUME Typed, Owned, NEW w \in Workers, DrainKept(w)
    PROVE  \E c \in Conns : DrainKeptMoves(c, w)
<1>1. PICK c \in Conns : c = Head(returned[w]).client
  BY HeadIsTyped DEF DrainKept
<1>2. /\ returned[w] # <<>> /\ returned' = [returned EXCEPT ![w] = Tail(@)]
      /\ connections' = [connections EXCEPT ![fdOf[c]] = IF @ = None THEN c ELSE @]
      /\ UNCHANGED <<peer, backlog, fdOf, accepted, clients, tasks, client>>
  BY <1>1 DEF DrainKept, acceptVars, newVars, poolVars
<1>3. /\ Given(c)
      /\ \A d \in Conns : Given(d)' <=> Given(d) /\ d # c
      /\ \A v \in Workers : DistinctClients(returned'[v])
      /\ \A u, v \in Workers, d \in Conns :
            Carries(returned'[u], d) /\ Carries(returned'[v], d) => u = v
  BY <1>1, <1>2, GivenLess
<1>4. Open(c) /\ ~Waiting(c)
  BY <1>3 DEF Owned, OneStation
<1>5. /\ \A d \in Conns : Waiting(d)' <=> Waiting(d) \/ d = c
      /\ \A fd \in Fds : connections'[fd] # None => fdOf'[connections'[fd]] = fd
  BY <1>2, <1>4, Filed
<1>6. QED
  BY <1>1, <1>2, <1>3, <1>4, <1>5 DEF DrainKeptMoves

LEMMA OwnedDrainKept == ASSUME Typed, Owned, NEW w \in Workers, DrainKept(w) PROVE Owned'
<1>1. PICK c \in Conns : DrainKeptMoves(c, w)
  BY MovesOfDrainKept
<1> USE DEF DrainKeptMoves
<1>2. FdsMatch'
  BY <1>1 DEF Owned, FdsMatch, Open
<1>3. NoDuplicates'
  BY <1>1 DEF Owned, NoDuplicates
<1>4. OneStation'
  BY <1>1 DEF Owned, OneStation, Served, Open
<1>5. QED
  BY <1>2, <1>3, <1>4 DEF Owned

(* One that is not goes away.                                              *)
DrainClosedMoves(c, w) ==
    /\ c = Head(returned[w]).client
    /\ returned[w] # <<>> /\ returned' = [returned EXCEPT ![w] = Tail(@)]
    /\ CloseClient(c)
    /\ UNCHANGED <<peer, backlog, connections, accepted, clients, tasks, client>>
    /\ Given(c)
    /\ \A d \in Conns : Given(d)' <=> Given(d) /\ d # c
    /\ \A v \in Workers : DistinctClients(returned'[v])
    /\ \A u, v \in Workers, d \in Conns :
          Carries(returned'[u], d) /\ Carries(returned'[v], d) => u = v
    /\ ~Waiting(c) /\ ~In(tasks, c) /\ ~Served(c) /\ accepted # c /\ ~In(clients, c)
    /\ \A d \in Conns : d # c => fdOf'[d] = fdOf[d]
    /\ \A d, e \in Conns : Open(d)' /\ fdOf'[d] = fdOf'[e] => d = e
    /\ \A d \in Conns : Open(d)' => Open(d)

LEMMA MovesOfDrainClosed == ASSUME Typed, Owned, NEW w \in Workers, DrainClosed(w)
    PROVE  \E c \in Conns : DrainClosedMoves(c, w)
<1>1. PICK c \in Conns : c = Head(returned[w]).client
  BY HeadIsTyped DEF DrainClosed
<1>2. /\ returned[w] # <<>> /\ returned' = [returned EXCEPT ![w] = Tail(@)]
      /\ CloseClient(c)
      /\ UNCHANGED <<peer, backlog, connections, accepted, clients, tasks, client>>
  BY <1>1 DEF DrainClosed, acceptVars, newVars, poolVars
<1>3. /\ Given(c)
      /\ \A d \in Conns : Given(d)' <=> Given(d) /\ d # c
      /\ \A v \in Workers : DistinctClients(returned'[v])
      /\ \A u, v \in Workers, d \in Conns :
            Carries(returned'[u], d) /\ Carries(returned'[v], d) => u = v
  BY <1>1, <1>2, GivenLess
<1>4. ~Waiting(c) /\ ~In(tasks, c) /\ ~Served(c) /\ accepted # c /\ ~In(clients, c)
  BY <1>3 DEF Owned, OneStation
<1>5. /\ \A d \in Conns : d # c => fdOf'[d] = fdOf[d]
      /\ \A d, e \in Conns : Open(d)' /\ fdOf'[d] = fdOf'[e] => d = e
      /\ \A d \in Conns : Open(d)' => Open(d)
  BY <1>2, Closed
<1>6. QED
  BY <1>1, <1>2, <1>3, <1>4, <1>5 DEF DrainClosedMoves

LEMMA OwnedDrainClosed == ASSUME Typed, Owned, NEW w \in Workers, DrainClosed(w) PROVE Owned'
<1>1. PICK c \in Conns : DrainClosedMoves(c, w)
  BY MovesOfDrainClosed
<1> USE DEF DrainClosedMoves
<1>2. FdsMatch'
  <2>1. \A fd \in Fds : connections'[fd] # None => fdOf'[connections'[fd]] = fd
    BY <1>1 DEF Owned, FdsMatch, Waiting, Typed, TypeOK
  <2>2. QED
    BY <1>1, <2>1 DEF Owned, FdsMatch
<1>3. NoDuplicates'
  BY <1>1 DEF Owned, NoDuplicates
<1>4. OneStation'
  BY <1>1 DEF Owned, OneStation, Waiting, Served, Open
<1>5. QED
  BY <1>2, <1>3, <1>4 DEF Owned

HandleHangupMoves(c, e) ==
    /\ c = connections[e.fd]
    /\ e.fd \in Fds /\ CloseClient(c) /\ Erase(e.fd)
    /\ UNCHANGED <<peer, backlog, accepted, clients, tasks, client, returned>>
    /\ Waiting(c) /\ ~Waiting(c)'
    /\ \A d \in Conns : Waiting(d)' <=> Waiting(d) /\ d # c
    /\ \A fd \in Fds : connections'[fd] # None =>
          connections'[fd] = connections[fd] /\ connections[fd] # c
    /\ ~In(tasks, c) /\ ~Served(c) /\ ~Given(c) /\ accepted # c /\ ~In(clients, c)
    /\ \A d \in Conns : d # c => fdOf'[d] = fdOf[d]
    /\ \A d, k \in Conns : Open(d)' /\ fdOf'[d] = fdOf'[k] => d = k
    /\ \A d \in Conns : Open(d)' => Open(d)

LEMMA MovesOfHandleHangup ==
    ASSUME Typed, Owned, NEW e \in Events, HandleHangup(e)
    PROVE  \E c \in Conns : HandleHangupMoves(c, e)
<1>1. PICK c \in Conns : c = connections[e.fd]
  BY DEF HandleHangup, Typed, TypeOK
<1>2. /\ e.fd \in Fds /\ CloseClient(c) /\ Erase(e.fd)
      /\ UNCHANGED <<peer, backlog, accepted, clients, tasks, client, returned>>
  BY <1>1 DEF HandleHangup, acceptVars, newVars, returnVars, poolVars
<1>3. /\ Waiting(c) /\ ~Waiting(c)'
      /\ \A d \in Conns : Waiting(d)' <=> Waiting(d) /\ d # c
      /\ \A fd \in Fds : connections'[fd] # None =>
            connections'[fd] = connections[fd] /\ connections[fd] # c
  BY <1>1, <1>2, Erased
<1>4. ~In(tasks, c) /\ ~Served(c) /\ ~Given(c) /\ accepted # c /\ ~In(clients, c)
  BY <1>3 DEF Owned, OneStation
<1>5. /\ \A d \in Conns : d # c => fdOf'[d] = fdOf[d]
      /\ \A d, k \in Conns : Open(d)' /\ fdOf'[d] = fdOf'[k] => d = k
      /\ \A d \in Conns : Open(d)' => Open(d)
  BY <1>2, Closed
<1>6. QED
  BY <1>1, <1>2, <1>3, <1>4, <1>5 DEF HandleHangupMoves

LEMMA OwnedHandleHangup ==
    ASSUME Typed, Owned, NEW e \in Events, HandleHangup(e)
    PROVE  Owned'
<1>1. PICK c \in Conns : HandleHangupMoves(c, e)
  BY MovesOfHandleHangup
<1> USE DEF HandleHangupMoves
<1>2. FdsMatch'
  <2>1. \A fd \in Fds : connections'[fd] # None => fdOf'[connections'[fd]] = fd
    BY <1>1 DEF Owned, FdsMatch, Typed, TypeOK
  <2>2. QED
    BY <1>1, <2>1 DEF Owned, FdsMatch
<1>3. NoDuplicates'
  BY <1>1 DEF Owned, NoDuplicates
<1>4. OneStation'
  BY <1>1 DEF Owned, OneStation, Served, Given, Open
<1>5. QED
  BY <1>2, <1>3, <1>4 DEF Owned

(* A client whose header is whole goes to the pool.                        *)
HandleRequestMoves(c, e) ==
    /\ c = connections[e.fd]
    /\ e.fd \in Fds /\ Erase(e.fd) /\ tasks' = Append(tasks, c)
    /\ UNCHANGED <<peer, backlog, fdOf, accepted, clients, client, returned>>
    /\ Waiting(c) /\ ~Waiting(c)'
    /\ \A d \in Conns : Waiting(d)' <=> Waiting(d) /\ d # c
    /\ \A fd \in Fds : connections'[fd] # None =>
          connections'[fd] = connections[fd] /\ connections[fd] # c
    /\ \A d : In(tasks', d) <=> In(tasks, d) \/ d = c
    /\ Distinct(tasks) /\ ~In(tasks, c) => Distinct(tasks')

LEMMA MovesOfHandleRequest ==
    ASSUME Typed, Owned, NEW e \in Events, HandleRequest(e)
    PROVE  \E c \in Conns : HandleRequestMoves(c, e)
<1>1. PICK c \in Conns : c = connections[e.fd]
  BY DEF HandleRequest, Typed, TypeOK
<1>2. /\ e.fd \in Fds /\ Erase(e.fd) /\ tasks' = Append(tasks, c)
      /\ UNCHANGED <<peer, backlog, fdOf, accepted, clients, client, returned>>
  BY <1>1 DEF HandleRequest, acceptVars, newVars, returnVars
<1>3. /\ Waiting(c) /\ ~Waiting(c)'
      /\ \A d \in Conns : Waiting(d)' <=> Waiting(d) /\ d # c
      /\ \A fd \in Fds : connections'[fd] # None =>
            connections'[fd] = connections[fd] /\ connections[fd] # c
  BY <1>1, <1>2, Erased
<1>4. /\ \A d : In(tasks', d) <=> In(tasks, d) \/ d = c
      /\ Distinct(tasks) /\ ~In(tasks, c) => Distinct(tasks')
  BY <1>2, InAppend DEF Typed, TypeOK
<1>5. QED
  BY <1>1, <1>2, <1>3, <1>4 DEF HandleRequestMoves

LEMMA OwnedHandleRequest ==
    ASSUME Typed, Owned, NEW e \in Events, HandleRequest(e)
    PROVE  Owned'
<1>1. PICK c \in Conns : HandleRequestMoves(c, e)
  BY MovesOfHandleRequest
<1> USE DEF HandleRequestMoves
<1>2. FdsMatch'
  BY <1>1 DEF Owned, FdsMatch, Open
<1>3. NoDuplicates'
  BY <1>1 DEF Owned, NoDuplicates, OneStation
<1>4. OneStation'
  BY <1>1 DEF Owned, OneStation, Served, Given, Open
<1>5. QED
  BY <1>2, <1>3, <1>4 DEF Owned

LEMMA OwnedPushSentinel == ASSUME Typed, Owned, PushSentinel PROVE Owned'
<1>1. /\ tasks' = Append(tasks, None)
      /\ UNCHANGED <<peer, backlog, fdOf, accepted, clients, connections, client, returned>>
  BY DEF PushSentinel, kernelVars, acceptVars, newVars, returnVars, loopVars
<1>2. /\ \A d : In(tasks', d) <=> In(tasks, d) \/ d = None
      /\ Distinct(tasks) => Distinct(tasks')
  BY <1>1, InAppend DEF Typed, TypeOK
<1>3. FdsMatch'
  BY <1>1 DEF Owned, FdsMatch, Open
<1>4. NoDuplicates'
  BY <1>1, <1>2 DEF Owned, NoDuplicates
<1>5. OneStation'
  BY <1>1, <1>2, NoneIsApart DEF Owned, OneStation, Waiting, Served, Given, Open
<1>6. QED
  BY <1>3, <1>4, <1>5 DEF Owned

TakeMoves(c, w) ==
    /\ c = Head(tasks)
    /\ tasks # <<>> /\ tasks' = Tail(tasks)
    /\ client' = [client EXCEPT ![w] = c] /\ client[w] = None
    /\ UNCHANGED <<peer, backlog, fdOf, accepted, clients, connections, returned>>
    /\ In(tasks, c)
    /\ \A d \in Conns : In(tasks', d) <=> In(tasks, d) /\ d # c
    /\ Distinct(tasks')
    /\ \A d \in Conns : Served(d)' <=> Served(d) \/ d = c

LEMMA MovesOfTake == ASSUME Typed, Owned, NEW w \in Workers, Take(w)
    PROVE  \E c \in Conns \cup {None} : TakeMoves(c, w)
<1>1. PICK c \in Conns \cup {None} : c = Head(tasks)
  BY HeadIsTyped DEF Take
<1>2. /\ tasks # <<>> /\ tasks' = Tail(tasks)
      /\ client' = [client EXCEPT ![w] = c] /\ client[w] = None
      /\ UNCHANGED <<peer, backlog, fdOf, accepted, clients, connections, returned>>
  BY <1>1 DEF Take, Typed, TypeOK, InStep, kernelVars, acceptVars, newVars, returnVars, loopVars
<1>3. /\ In(tasks, c)
      /\ \A d \in Conns : In(tasks', d) <=> In(tasks, d) /\ d # c
      /\ Distinct(tasks')
  BY <1>1, <1>2, InTail, NoneIsApart DEF Owned, NoDuplicates, Typed, TypeOK
<1>4. \A d \in Conns : Served(d)' <=> Served(d) \/ d = c
  BY <1>2, NoneIsApart DEF Served, Typed, TypeOK
<1>5. QED
  BY <1>1, <1>2, <1>3, <1>4 DEF TakeMoves

LEMMA OwnedTake == ASSUME Typed, Owned, NEW w \in Workers, Take(w) PROVE Owned'
<1>1. PICK c \in Conns \cup {None} : TakeMoves(c, w)
  BY MovesOfTake
<1> USE DEF TakeMoves
<1>2. FdsMatch'
  BY <1>1 DEF Owned, FdsMatch, Open
<1>3. NoDuplicates'
  <2>1. c \in Conns => ~Served(c)
    BY <1>1 DEF Owned, OneStation
  <2>2. \A u, v \in Workers : client'[u] = client'[v] /\ client'[u] # None => u = v
    BY <1>1, <2>1 DEF Owned, NoDuplicates, Served, Typed, TypeOK
  <2>3. QED
    BY <1>1, <2>2 DEF Owned, NoDuplicates
<1>4. OneStation'
  BY <1>1, NoneIsApart DEF Owned, OneStation, Waiting, Given, Open
<1>5. QED
  BY <1>2, <1>3, <1>4 DEF Owned

(* A worker gives back the client whose request it had.                    *)
RespondMoves(c, w) ==
    /\ c = client[w]
    /\ client' = [client EXCEPT ![w] = None]
    /\ UNCHANGED <<peer, backlog, fdOf, accepted, clients, connections, tasks>>
    /\ Served(c) /\ \A d \in Conns : Served(d)' <=> Served(d) /\ d # c
    /\ ~Given(c) /\ ~In(tasks, c) /\ ~Waiting(c) /\ ~In(clients, c) /\ accepted # c
    /\ \A d \in Conns : Given(d)' <=> Given(d) \/ d = c
    /\ \A v \in Workers : DistinctClients(returned'[v])
    /\ \A u, v \in Workers, d \in Conns :
          Carries(returned'[u], d) /\ Carries(returned'[v], d) => u = v

LEMMA MovesOfRespond ==
    ASSUME Typed, Owned, NEW w \in Workers, NEW n \in Nat, NEW keep \in BOOLEAN,
           Respond(w, n, keep)
    PROVE  \E c \in Conns : RespondMoves(c, w)
<1>1. PICK c \in Conns : c = client[w]
  BY DEF Respond, Typed, TypeOK, InStep
<1>2. PICK x \in Returns :
        /\ x.client = c
        /\ returned' = [returned EXCEPT ![w] = Append(@, x)]
  BY <1>1 DEF Respond, Returns
<1>3. /\ client' = [client EXCEPT ![w] = None]
      /\ UNCHANGED <<peer, backlog, fdOf, accepted, clients, connections, tasks>>
  BY DEF Respond, acceptVars, newVars, loopVars
<1>4. Served(c) /\ \A d \in Conns : Served(d)' <=> Served(d) /\ d # c
  BY <1>1, <1>3, NoneIsApart DEF Served, Owned, NoDuplicates, Typed, TypeOK
<1>5. ~Given(c) /\ ~In(tasks, c) /\ ~Waiting(c) /\ ~In(clients, c) /\ accepted # c
  BY <1>4 DEF Owned, OneStation
<1>6. /\ \A d \in Conns : Given(d)' <=> Given(d) \/ d = c
      /\ \A v \in Workers : DistinctClients(returned'[v])
      /\ \A u, v \in Workers, d \in Conns :
            Carries(returned'[u], d) /\ Carries(returned'[v], d) => u = v
  BY <1>2, <1>5, GivenMore
<1>7. QED
  BY <1>1, <1>2, <1>3, <1>4, <1>5, <1>6 DEF RespondMoves

LEMMA OwnedRespond ==
    ASSUME Typed, Owned, NEW w \in Workers, NEW n \in Nat, NEW keep \in BOOLEAN,
           Respond(w, n, keep)
    PROVE  Owned'
<1>1. PICK c \in Conns : RespondMoves(c, w)
  BY MovesOfRespond
<1> USE DEF RespondMoves
<1>2. FdsMatch'
  BY <1>1 DEF Owned, FdsMatch, Open
<1>3. NoDuplicates'
  BY <1>1 DEF Owned, NoDuplicates, Typed, TypeOK
<1>4. OneStation'
  BY <1>1 DEF Owned, OneStation, Waiting, Open
<1>5. QED
  BY <1>2, <1>3, <1>4 DEF Owned

LEMMA OwnedPeers == ASSUME Typed, Owned, Peers PROVE Owned'
<1>1. UNCHANGED <<fdOf, accepted, clients, connections, tasks, client, returned>>
  BY DEF Peers, Connect, Send, Hangup, acceptVars, newVars, returnVars, loopVars, poolVars
<1>2. \A c \in Conns : peer[c] # "none" => peer'[c] # "none"
  BY DEF Peers, Connect, Send, Hangup, Typed, TypeOK
<1>3. \A c \in backlog' : peer'[c] # "none" /\ (c \in backlog \/ peer[c] = "none")
  BY <1>2 DEF Peers, Connect, Send, Hangup, Typed, TypeOK, Owned, FdsMatch
<1>4. FdsMatch'
  BY <1>1, <1>2, <1>3 DEF Owned, FdsMatch, Open
<1>5. NoDuplicates'
  BY <1>1 DEF Owned, NoDuplicates
<1>6. OneStation'
  BY <1>1 DEF Owned, OneStation, Waiting, Served, Given, Open
<1>7. QED
  BY <1>4, <1>5, <1>6 DEF Owned

LEMMA OwnedStep == Typed /\ Owned /\ [Next]_vars => Owned'
<1> SUFFICES ASSUME Typed, Owned, [Next]_vars PROVE Owned'
  OBVIOUS
<1> USE DEF kernelVars, acceptVars, newVars, returnVars, loopVars, poolVars
<1>1. CASE Peers
  BY <1>1, OwnedPeers
<1>2. CASE \E c \in Conns, fd \in Fds : Accept(c, fd)
  BY <1>2, OwnedAccept
<1>3. CASE AcceptFails
  BY <1>3, NothingMoves DEF AcceptFails
<1>4. CASE AcceptorStep
  <2>1. Signal \/ AcceptMore \/ Shutdown \/ JoinEpollThread => Owned'
    BY NothingMoves DEF Signal, AcceptMore, Shutdown, JoinEpollThread
  <2>2. QED
    BY <1>4, <2>1, OwnedEnqueue DEF AcceptorStep
<1>5. CASE EpollStep
  <2>1. EpollWait \/ DrainNewDone \/ JoinWorkers => Owned'
    BY NothingMoves DEF EpollWait, DrainNewDone, JoinWorkers
  <2>2. ASSUME NEW e \in Events, ReadNewPipe(e) \/ ReadReturnPipe(e) \/ HandleIncomplete(e)
        PROVE  Owned'
    BY <2>2, NothingMoves DEF ReadNewPipe, ReadReturnPipe, HandleIncomplete
  <2>3. ASSUME NEW w \in Workers, FoundEmpty(w) PROVE Owned'
    BY <2>3, NothingMoves DEF FoundEmpty
  <2>4. QED
    BY <1>5, <2>1, <2>2, <2>3, OwnedLeaveLoop, OwnedDrainNew, OwnedDrainKept,
       OwnedDrainClosed, OwnedHandleHangup, OwnedHandleRequest, OwnedPushSentinel
       DEF EpollStep
<1>6. ASSUME NEW w \in Workers, WorkerStep(w) PROVE Owned'
  <2>1. CASE Take(w)
    BY <2>1, OwnedTake
  <2>2. CASE SignalReturn(w)
    BY <2>2, NothingMoves DEF SignalReturn
  <2>3. CASE \E n \in 0..(MaxHeader + MaxUnread), keep \in BOOLEAN : Respond(w, n, keep)
    <3>1. 0..(MaxHeader + MaxUnread) \subseteq Nat
      BY NoneIsApart
    <3>2. QED
      BY <2>3, <3>1, OwnedRespond
  <2>4. QED
    BY <1>6, <2>1, <2>2, <2>3 DEF WorkerStep
<1>7. ASSUME NEW w \in Workers, HandlerThrows(w) PROVE Owned'
  BY <1>7, NothingMoves DEF HandlerThrows
<1>8. CASE UNCHANGED vars
  BY <1>8, NothingMoves DEF vars
<1>9. QED
  BY <1>1, <1>2, <1>3, <1>4, <1>5, <1>6, <1>7, <1>8 DEF Next

LEMMA OwnedInvariance == Spec => [](Typed /\ Owned)
<1>1. Typed /\ Owned /\ [Next]_vars => (Typed /\ Owned)'
  BY TypeStep, OwnedStep
<1>2. Init => Typed /\ Owned
  BY TypeInit, OwnedInit
<1>3. QED
  BY <1>1, <1>2, PTL DEF Spec, Safety
(* Each station of a client is one place.                                  *)
AtAccepted(p, c) == p = <<"accepted">> /\ accepted = c
AtClients(p, c) == \E i \in 1..Len(clients) : p = <<"clients", i>> /\ clients[i] = c
AtTable(p, c) == \E fd \in Fds : p = <<"connections", fd>> /\ connections[fd] = c
AtTasks(p, c) == \E i \in 1..Len(tasks) : p = <<"tasks", i>> /\ tasks[i] = c
AtWorker(p, c) == \E w \in Workers : p = <<"client", w>> /\ client[w] = c
AtReturned(p, c) == \E w \in Workers : \E i \in 1..Len(returned[w]) :
                       p = <<"returned", w, i>> /\ returned[w][i].client = c

LEMMA PlaceCases ==
    ASSUME NEW c \in Conns
    PROVE  \A p : p \in Places(c) <=> \/ AtAccepted(p, c) \/ AtClients(p, c)
                                      \/ AtTable(p, c) \/ AtTasks(p, c)
                                      \/ AtWorker(p, c) \/ AtReturned(p, c)
<1>1. \A p : p \in {<<"accepted">> : a \in {accepted} \cap {c}} <=> AtAccepted(p, c)
  BY DEF AtAccepted
<1>2. \A p : p \in {<<"clients", i>> : i \in {j \in 1..Len(clients) : clients[j] = c}}
             <=> AtClients(p, c)
  BY DEF AtClients
<1>3. \A p : p \in {<<"connections", fd>> : fd \in {f \in Fds : connections[f] = c}}
             <=> AtTable(p, c)
  BY DEF AtTable
<1>4. \A p : p \in PoolPlaces(c) <=> AtTasks(p, c) \/ AtWorker(p, c)
  BY DEF PoolPlaces, AtTasks, AtWorker
<1>5. \A p : p \in ReturnPlaces(c) <=> AtReturned(p, c)
  BY DEF ReturnPlaces, AtReturned
<1>6. QED
  BY <1>1, <1>2, <1>3, <1>4, <1>5 DEF Places

(* A client that is at a place of a station is at that station.            *)
LEMMA PlaceStation ==
    ASSUME NEW c \in Conns, NEW p
    PROVE  /\ AtAccepted(p, c) => accepted = c
           /\ AtClients(p, c) => In(clients, c)
           /\ AtTable(p, c) => Waiting(c)
           /\ AtTasks(p, c) => In(tasks, c)
           /\ AtWorker(p, c) => Served(c)
           /\ AtReturned(p, c) => Given(c)
<1>1. AtAccepted(p, c) => accepted = c
  BY DEF AtAccepted
<1>2. AtClients(p, c) => In(clients, c)
  BY DEF AtClients, In
<1>3. AtTable(p, c) => Waiting(c)
  BY DEF AtTable, Waiting
<1>4. AtTasks(p, c) => In(tasks, c)
  BY DEF AtTasks, In
<1>5. AtWorker(p, c) => Served(c)
  BY DEF AtWorker, Served
<1>6. AtReturned(p, c) => Given(c)
  BY DEF AtReturned, Given, Carries
<1>7. QED
  BY <1>1, <1>2, <1>3, <1>4, <1>5, <1>6

LEMMA SameStation ==
    ASSUME Owned, NEW c \in Conns, NEW p, NEW q
    PROVE  /\ AtAccepted(p, c) /\ AtAccepted(q, c) => p = q
           /\ AtClients(p, c) /\ AtClients(q, c) => p = q
           /\ AtTable(p, c) /\ AtTable(q, c) => p = q
           /\ AtTasks(p, c) /\ AtTasks(q, c) => p = q
           /\ AtWorker(p, c) /\ AtWorker(q, c) => p = q
           /\ AtReturned(p, c) /\ AtReturned(q, c) => p = q
<1>1. AtAccepted(p, c) /\ AtAccepted(q, c) => p = q
  BY DEF AtAccepted
<1>2. AtClients(p, c) /\ AtClients(q, c) => p = q
  BY NoneIsApart DEF AtClients, Owned, NoDuplicates, Distinct
<1>3. AtTable(p, c) /\ AtTable(q, c) => p = q
  BY NoneIsApart DEF AtTable, Owned, FdsMatch
<1>4. AtTasks(p, c) /\ AtTasks(q, c) => p = q
  BY NoneIsApart DEF AtTasks, Owned, NoDuplicates, Distinct
<1>5. AtWorker(p, c) /\ AtWorker(q, c) => p = q
  BY NoneIsApart DEF AtWorker, Owned, NoDuplicates
<1>6. AtReturned(p, c) /\ AtReturned(q, c) => p = q
  <2>1. SUFFICES ASSUME AtReturned(p, c), AtReturned(q, c) PROVE p = q
    OBVIOUS
  <2>2. PICK v \in Workers : \E i \in 1..Len(returned[v]) :
           p = <<"returned", v, i>> /\ returned[v][i].client = c
    BY <2>1 DEF AtReturned
  <2>3. PICK w \in Workers : \E j \in 1..Len(returned[w]) :
           q = <<"returned", w, j>> /\ returned[w][j].client = c
    BY <2>1 DEF AtReturned
  <2>4. PICK i \in 1..Len(returned[v]) :
           p = <<"returned", v, i>> /\ returned[v][i].client = c
    BY <2>2
  <2>5. PICK j \in 1..Len(returned[w]) :
           q = <<"returned", w, j>> /\ returned[w][j].client = c
    BY <2>3
  <2>6. Carries(returned[v], c) /\ Carries(returned[w], c)
    BY <2>4, <2>5 DEF Carries
  <2>7. v = w
    BY <2>6 DEF Owned, NoDuplicates
  <2>8. i = j
    BY <2>4, <2>5, <2>7 DEF Owned, NoDuplicates, DistinctClients
  <2>9. QED
    BY <2>4, <2>5, <2>7, <2>8
<1>7. QED
  BY <1>1, <1>2, <1>3, <1>4, <1>5, <1>6

LEMMA OwnedOneOwner == Owned => OneOwner
<1> SUFFICES ASSUME Owned, NEW c \in Conns
             PROVE  /\ \A p, q \in Places(c) : p = q
                    /\ Places(c) # {} => Open(c)
  BY DEF OneOwner
<1>1. ASSUME NEW p \in Places(c), NEW q \in Places(c) PROVE p = q
  BY <1>1, PlaceCases, PlaceStation, SameStation DEF Owned, OneStation
<1>2. ASSUME NEW p \in Places(c) PROVE Open(c)
  BY <1>2, PlaceCases, PlaceStation DEF Owned, OneStation
<1>3. QED
  BY <1>1, <1>2

(* No interleaving of the three kinds of threads, and no reuse of a        *)
(* descriptor, ever gives a client two owners or leaves a closed client    *)
(* with one.                                                               *)
THEOREM OneOwnerAlways == Spec => []OneOwner
BY OwnedOneOwner, OwnedInvariance, PTL
-----------------------------------------------------------------------------
(* A client on its way to the loop, and one whose stream a worker has or   *)
(* will have.                                                              *)
New(c)  == accepted = c \/ In(clients, c)
Busy(c) == In(tasks, c) \/ Served(c) \/ Given(c)

(* What epoll watches, and why: nothing of a client on its way in or of no *)
(* client, nothing more of a busy one, and of one in the table the next    *)
(* event, unless that is in the batch.                                     *)
Interests ==
    /\ \A fd \in Fds : (\A c \in Conns : fdOf[c] # fd) => interest[fd] = "none"
    /\ \A c \in Conns : New(c) => interest[fdOf[c]] = "none"
    /\ epc # "left" => \A c \in Conns : Busy(c) => interest[fdOf[c]] = "disarmed"
    /\ \A fd \in Fds : interest[fd] = "armed" => connections[fd] # None
    /\ NoneForgotten

(* An event in the batch is of a client in the table that no later event   *)
(* can be of.                                                              *)
BatchMatches ==
    /\ epc \in {"wait", "left"} => batch = {}
    /\ \A e \in batch : e.fd \in Fds =>
         /\ connections[e.fd] # None /\ interest[e.fd] = "disarmed"
         /\ e.hup => peer[connections[e.fd]] = "reset"
         /\ \A d \in batch : d.fd = e.fd => d = e

Watched == Interests /\ BatchMatches

LEMMA WatchedInit == Init => Watched
BY NoneIsApart DEF Init, Watched, Interests, BatchMatches, NoneForgotten, New, Busy,
   In, Carries, Served, Given

(* A step after which nobody is newly on the way in or busy, and which     *)
(* handles no client's event, disturbs nothing.                            *)
LEMMA NothingWatched ==
    ASSUME Typed, Watched, UNCHANGED <<fdOf, interest, connections>>,
           \A c \in Conns : New(c)' => New(c),
           \A c \in Conns : Busy(c)' => Busy(c),
           \A c \in Conns : peer[c] = "reset" => peer'[c] = "reset",
           batch' \subseteq batch,
           \A e \in batch : e.fd \in Fds => e \in batch',
           epc = "left" => epc' = "left",
           epc' \in {"wait", "left"} => batch' = {}
    PROVE  Watched'
<1>1. Interests'
  BY DEF Watched, Interests, NoneForgotten
<1>2. BatchMatches'
  BY DEF Watched, BatchMatches, Typed, TypeOK
<1>3. QED
  BY <1>1, <1>2 DEF Watched

LEMMA WatchedAccept ==
    ASSUME Typed, Owned, Watched, NEW c \in Conns, NEW fd \in Fds, Accept(c, fd)
    PROVE  Watched'
<1>1. /\ fd \in FreeFds /\ accepted = None /\ accepted' = c /\ c \in backlog
      /\ fdOf' = [fdOf EXCEPT ![c] = fd]
      /\ UNCHANGED <<peer, interest, clients, connections, tasks, client, returned,
                     epc, batch>>
  BY DEF Accept, Typed, InStep, newVars, returnVars, loopVars, poolVars
<1>2. \A d \in Conns : d # c => fdOf'[d] = fdOf[d] /\ (New(d)' => New(d))
  BY <1>1 DEF New, Typed, TypeOK
<1>3. ~Open(c)
  BY <1>1 DEF Owned, FdsMatch
<1>4. \A d \in Conns : (Busy(d)' => Busy(d)) /\ (Busy(d) => d # c)
  BY <1>1, <1>3 DEF Busy, Served, Given, Owned, OneStation
<1>5. fdOf'[c] = fd /\ interest[fd] = "none" /\ fdOf[c] = None
  BY <1>1, <1>3 DEF FreeFds, Watched, Interests, Open, Typed, TypeOK
<1>6. Interests'
  <2>1. \A f \in Fds : (\A d \in Conns : fdOf'[d] # f) => interest'[f] = "none"
    BY <1>1, <1>2, <1>5, NoneIsApart DEF Watched, Interests
  <2>2. \A d \in Conns : New(d)' => interest'[fdOf'[d]] = "none"
    BY <1>1, <1>2, <1>5 DEF Watched, Interests
  <2>3. epc' # "left" => \A d \in Conns : Busy(d)' => interest'[fdOf'[d]] = "disarmed"
    BY <1>1, <1>2, <1>4 DEF Watched, Interests
  <2>4. NoneForgotten'
    BY <1>1 DEF Watched, Interests, NoneForgotten
  <2>5. QED
    BY <1>1, <2>1, <2>2, <2>3, <2>4 DEF Watched, Interests
<1>7. BatchMatches'
  BY <1>1 DEF Watched, BatchMatches
<1>8. QED
  BY <1>6, <1>7 DEF Watched
LEMMA ClientEvents ==
    ASSUME NEW e \in ReadyEvents, e.fd \in Fds
    PROVE  \E c \in Conns : /\ Open(c) /\ interest[fdOf[c]] = "armed"
                            /\ e = [fd |-> fdOf[c], hup |-> peer[c] = "reset"]
<1>1. CASE \E fd \in {"new", "return"} : e = [fd |-> fd, hup |-> FALSE]
  BY <1>1, NoneIsApart
<1>2. CASE \E c \in {k \in Conns : /\ Open(k)
                                   /\ interest[fdOf[k]] = "armed"
                                   /\ unread[k] # <<>> \/ peer[k] # "open"} :
             e = [fd |-> fdOf[c], hup |-> peer[c] = "reset"]
  BY <1>2
<1>3. QED
  BY <1>1, <1>2 DEF ReadyEvents

(* A filed client is open, under its descriptor.                           *)
LEMMA InTable ==
    ASSUME Typed, Owned, NEW fd \in Fds, connections[fd] # None
    PROVE  /\ connections[fd] \in Conns /\ fdOf[connections[fd]] = fd
           /\ Open(connections[fd]) /\ Waiting(connections[fd])
           /\ \A c \in Conns : fdOf[c] = fd => c = connections[fd]
<1>1. connections[fd] \in Conns /\ fdOf[connections[fd]] = fd
  BY DEF Typed, TypeOK, Owned, FdsMatch
<1>2. Open(connections[fd]) /\ Waiting(connections[fd])
  BY <1>1, NoneIsApart DEF Open, Waiting
<1>3. QED
  BY <1>1, <1>2 DEF Owned, FdsMatch

LEMMA WatchedEpollWait == ASSUME Typed, Owned, Watched, EpollWait PROVE Watched'
<1>1. PICK reported \in SUBSET ReadyEvents :
        batch' = reported /\ interest' = InterestAfter(reported)
  BY DEF EpollWait
<1>2. /\ epc = "wait" /\ epc' = "events" /\ batch = {}
      /\ UNCHANGED <<peer, fdOf, accepted, clients, connections, tasks, client, returned>>
  BY DEF EpollWait, acceptVars, newVars, returnVars, poolVars, Watched, BatchMatches
<1>3. \A fd \in Fds : \/ (\E e \in batch' : e.fd = fd) /\ interest'[fd] = "disarmed"
                      \/ ~(\E e \in batch' : e.fd = fd) /\ interest'[fd] = interest[fd]
  BY <1>1 DEF InterestAfter
<1>4. ASSUME NEW e \in batch', e.fd \in Fds
      PROVE  /\ interest[e.fd] = "armed" /\ connections[e.fd] # None
             /\ e = [fd |-> e.fd, hup |-> peer[connections[e.fd]] = "reset"]
  <2>1. PICK c \in Conns : /\ Open(c) /\ interest[fdOf[c]] = "armed"
                           /\ e = [fd |-> fdOf[c], hup |-> peer[c] = "reset"]
    BY <1>1, <1>4, ClientEvents
  <2>2. e.fd = fdOf[c] /\ interest[e.fd] = "armed"
    BY <2>1
  <2>3. connections[e.fd] # None
    BY <1>4, <2>2 DEF Watched, Interests
  <2>4. c = connections[e.fd]
    BY <1>4, <2>2, <2>3, InTable
  <2>5. QED
    BY <2>1, <2>2, <2>3, <2>4
<1>5. Interests'
  <2>1. ASSUME NEW fd \in Fds, \A c \in Conns : fdOf'[c] # fd PROVE interest'[fd] = "none"
    BY <1>2, <1>3, <1>4, <2>1 DEF Watched, Interests
  <2>2. ASSUME NEW c \in Conns, New(c)' PROVE interest'[fdOf'[c]] = "none"
    <3>1. New(c) /\ fdOf[c] \in Fds
      BY <1>2, <2>2 DEF New, Owned, OneStation, Open, Typed, TypeOK
    <3>2. interest[fdOf[c]] = "none"
      BY <3>1 DEF Watched, Interests
    <3>3. QED
      BY <1>2, <1>3, <1>4, <3>1, <3>2
  <2>3. ASSUME NEW c \in Conns, Busy(c)' PROVE interest'[fdOf'[c]] = "disarmed"
    <3>1. Busy(c) /\ fdOf[c] \in Fds
      BY <1>2, <2>3 DEF Busy, Served, Given, Owned, OneStation, Open, Typed, TypeOK
    <3>2. interest[fdOf[c]] = "disarmed"
      BY <1>2, <3>1 DEF Watched, Interests
    <3>3. QED
      BY <1>2, <1>3, <3>1, <3>2
  <2>4. \A fd \in Fds : interest'[fd] = "armed" => connections'[fd] # None
    BY <1>2, <1>3 DEF Watched, Interests
  <2>5. NoneForgotten'
    BY <1>2, <1>3 DEF Watched, Interests, NoneForgotten
  <2>6. QED
    BY <2>1, <2>2, <2>3, <2>4, <2>5 DEF Interests
<1>6. BatchMatches'
  <2>1. ASSUME NEW e \in batch', e.fd \in Fds
        PROVE  /\ connections'[e.fd] # None /\ interest'[e.fd] = "disarmed"
               /\ e.hup => peer'[connections'[e.fd]] = "reset"
               /\ \A d \in batch' : d.fd = e.fd => d = e
    <3>1. connections'[e.fd] # None /\ interest'[e.fd] = "disarmed"
      BY <1>2, <1>3, <1>4, <2>1
    <3>2. e.hup => peer'[connections'[e.fd]] = "reset"
      <4>1. PICK b \in BOOLEAN : b = (peer[connections[e.fd]] = "reset")
        OBVIOUS
      <4>2. e = [fd |-> e.fd, hup |-> b]
        BY <1>4, <2>1, <4>1
      <4>3. e.hup = b
        BY <4>2
      <4>4. QED
        BY <1>2, <4>1, <4>3
    <3>3. \A d \in batch' : d.fd = e.fd => d = e
      BY <1>4, <2>1
    <3>4. QED
      BY <3>1, <3>2, <3>3
  <2>2. QED
    BY <1>2, <2>1 DEF BatchMatches
<1>7. QED
  BY <1>5, <1>6 DEF Watched

LEMMA WatchedLeaveLoop ==
    ASSUME Typed, Owned, Watched, NEW e \in Events, LeaveLoop(e)
    PROVE  Watched'
<1>1. /\ interest' = [fd \in Fds |-> "none"] /\ connections' = [fd \in Fds |-> None]
      /\ batch' = {} /\ epc' = "left"
      /\ UNCHANGED <<peer, fdOf, accepted, clients, tasks, client, returned>>
  BY DEF LeaveLoop, acceptVars, newVars, returnVars
<1>2. \A c \in Conns : New(c)' => fdOf'[c] \in Fds
  BY <1>1 DEF New, Owned, OneStation, Open, Typed, TypeOK
<1>3. Interests'
  BY <1>1, <1>2 DEF Interests, NoneForgotten
<1>4. BatchMatches'
  BY <1>1 DEF BatchMatches
<1>5. QED
  BY <1>3, <1>4 DEF Watched
(* A client is put in the table and its descriptor armed.                  *)
LEMMA WatchedFiled ==
    ASSUME Typed, Owned, Watched, NEW c \in Conns, Open(c), connections[fdOf[c]] = None,
           connections' = [connections EXCEPT ![fdOf[c]] = c],
           interest' = [interest EXCEPT ![fdOf[c]] = "armed"],
           UNCHANGED <<peer, fdOf, epc, batch>>,
           \A d \in Conns : New(d)' => New(d) /\ d # c,
           \A d \in Conns : Busy(d)' => Busy(d) /\ d # c
    PROVE  Watched'
<1>1. PICK f \in Fds : f = fdOf[c]
  BY DEF Typed, TypeOK, Open
<1>2. /\ \A d \in Conns : d # c => fdOf[d] # f
      /\ \A e \in batch : e.fd \in Fds => e.fd # f
  BY <1>1 DEF Owned, FdsMatch, Watched, BatchMatches
<1>3. /\ connections'[f] = c /\ interest'[f] = "armed" /\ c # None
      /\ \A fd \in Fds : fd # f => /\ connections'[fd] = connections[fd]
                                   /\ interest'[fd] = interest[fd]
  BY <1>1, NoneIsApart DEF Typed, TypeOK
<1>4. \A d \in Conns : New(d) \/ Busy(d) => fdOf[d] \in Fds
  BY DEF New, Busy, Owned, OneStation, Open, Typed, TypeOK
<1>5. Interests'
  <2>1. \A fd \in Fds : (\A d \in Conns : fdOf'[d] # fd) => interest'[fd] = "none"
    BY <1>1, <1>3 DEF Watched, Interests
  <2>2. \A d \in Conns : New(d)' => interest'[fdOf'[d]] = "none"
    BY <1>2, <1>3, <1>4 DEF Watched, Interests
  <2>3. epc' # "left" => \A d \in Conns : Busy(d)' => interest'[fdOf'[d]] = "disarmed"
    BY <1>2, <1>3, <1>4 DEF Watched, Interests
  <2>4. \A fd \in Fds : interest'[fd] = "armed" => connections'[fd] # None
    BY <1>3 DEF Watched, Interests
  <2>5. NoneForgotten'
    BY <1>3 DEF Watched, Interests, NoneForgotten
  <2>6. QED
    BY <2>1, <2>2, <2>3, <2>4, <2>5 DEF Interests
<1>6. BatchMatches'
  BY <1>2, <1>3 DEF Watched, BatchMatches
<1>7. QED
  BY <1>5, <1>6 DEF Watched

LEMMA WatchedDrainNew == ASSUME Typed, Owned, Watched, DrainNew PROVE Watched'
<1>1. PICK c \in Conns : DrainNewMoves(c)
  BY MovesOfDrainNew
<1> USE DEF DrainNewMoves
<1>2. interest' = [interest EXCEPT ![fdOf[c]] = IF @ = "none" THEN "armed" ELSE @]
      /\ UNCHANGED <<epc, batch>>
  BY <1>1 DEF DrainNew
<1>3. connections[fdOf[c]] = None /\ interest[fdOf[c]] = "none"
  BY <1>1, Filed DEF Watched, Interests, New
<1>4. /\ connections' = [connections EXCEPT ![fdOf[c]] = c]
      /\ interest' = [interest EXCEPT ![fdOf[c]] = "armed"]
  BY <1>1, <1>2, <1>3
<1>5. \A d \in Conns : New(d)' => New(d) /\ d # c
  BY <1>1 DEF New, Owned, OneStation
<1>6. \A d \in Conns : Busy(d)' => Busy(d) /\ d # c
  BY <1>1 DEF Busy, Served, Given, Owned, OneStation
<1>7. QED
  BY <1>1, <1>2, <1>3, <1>4, <1>5, <1>6, WatchedFiled

LEMMA WatchedDrainKept ==
    ASSUME Typed, Owned, Watched, NEW w \in Workers, DrainKept(w)
    PROVE  Watched'
<1>1. PICK c \in Conns : DrainKeptMoves(c, w)
  BY MovesOfDrainKept
<1> USE DEF DrainKeptMoves
<1>2. /\ interest' = [interest EXCEPT ![fdOf[c]] = IF @ = "none" THEN @ ELSE "armed"]
      /\ epc # "left" /\ UNCHANGED <<epc, batch>>
  BY <1>1 DEF DrainKept, Rearm
<1>3. connections[fdOf[c]] = None /\ interest[fdOf[c]] = "disarmed"
  BY <1>1, <1>2, Filed DEF Watched, Interests, Busy
<1>4. /\ connections' = [connections EXCEPT ![fdOf[c]] = c]
      /\ interest' = [interest EXCEPT ![fdOf[c]] = "armed"]
  BY <1>1, <1>2, <1>3
<1>5. \A d \in Conns : New(d)' => New(d) /\ d # c
  BY <1>1 DEF New, Owned, OneStation
<1>6. \A d \in Conns : Busy(d)' => Busy(d) /\ d # c
  BY <1>1 DEF Busy, Served, Owned, OneStation
<1>7. QED
  BY <1>1, <1>2, <1>3, <1>4, <1>5, <1>6, WatchedFiled

(* A client is closed; its event, if it had one, is handled.               *)
LEMMA WatchedClosed ==
    ASSUME Typed, Owned, Watched, NEW c \in Conns, Open(c), CloseClient(c),
           interest[fdOf[c]] # "armed",
           connections' = [connections EXCEPT ![fdOf[c]] = None],
           peer' = peer, batch' \subseteq batch,
           \A e \in batch : e.fd \in Fds => (e \in batch' <=> e.fd # fdOf[c]),
           epc # "left", epc' # "left", epc' = "wait" => batch' = {},
           \A d \in Conns : New(d)' => New(d) /\ d # c,
           \A d \in Conns : Busy(d)' => Busy(d) /\ d # c
    PROVE  Watched'
<1>1. PICK f \in Fds : f = fdOf[c]
  BY DEF Typed, TypeOK, Open
<1>2. /\ \A d \in Conns : d # c => fdOf[d] # f /\ fdOf'[d] = fdOf[d]
      /\ fdOf'[c] = f \/ fdOf'[c] = None
      /\ \/ interest'[f] = interest[f] /\ fdOf'[c] = f
         \/ interest'[f] = "none"
  BY <1>1 DEF CloseClient, Owned, FdsMatch, Typed, TypeOK
<1>3. /\ connections'[f] = None
      /\ \A fd \in Fds : fd # f => /\ connections'[fd] = connections[fd]
                                   /\ interest'[fd] = interest[fd]
  BY <1>1 DEF CloseClient, Typed, TypeOK
<1>4. \A d \in Conns : New(d) \/ Busy(d) => fdOf[d] \in Fds
  BY DEF New, Busy, Owned, OneStation, Open, Typed, TypeOK
<1>5. Interests'
  <2>1. ASSUME NEW fd \in Fds, \A d \in Conns : fdOf'[d] # fd PROVE interest'[fd] = "none"
    <3>1. CASE fd = f
      BY <1>2, <2>1, <3>1
    <3>2. CASE fd # f
      BY <1>1, <1>2, <1>3, <2>1, <3>2 DEF Watched, Interests
    <3>3. QED
      BY <3>1, <3>2
  <2>2. \A d \in Conns : New(d)' => interest'[fdOf'[d]] = "none"
    BY <1>2, <1>3, <1>4 DEF Watched, Interests
  <2>3. \A d \in Conns : Busy(d)' => interest'[fdOf'[d]] = "disarmed"
    BY <1>2, <1>3, <1>4 DEF Watched, Interests
  <2>4. \A fd \in Fds : interest'[fd] = "armed" => connections'[fd] # None
    BY <1>1, <1>2, <1>3 DEF Watched, Interests
  <2>5. NoneForgotten'
    BY <1>1, <1>3 DEF Watched, Interests, NoneForgotten
  <2>6. QED
    BY <2>1, <2>2, <2>3, <2>4, <2>5 DEF Interests
<1>6. BatchMatches'
  BY <1>1, <1>3 DEF Watched, BatchMatches, Typed, TypeOK
<1>7. QED
  BY <1>5, <1>6 DEF Watched

LEMMA WatchedDrainClosed ==
    ASSUME Typed, Owned, Watched, NEW w \in Workers, DrainClosed(w)
    PROVE  Watched'
<1>1. PICK c \in Conns : DrainClosedMoves(c, w)
  BY MovesOfDrainClosed
<1> USE DEF DrainClosedMoves
<1>2. epc = "drainReturn" /\ UNCHANGED <<epc, batch>>
  BY DEF DrainClosed
<1>3. Open(c) /\ interest[fdOf[c]] = "disarmed"
  BY <1>1, <1>2 DEF Owned, OneStation, Watched, Interests, Busy
<1>4. connections[fdOf[c]] = None
  BY <1>1, <1>3, InTable DEF Open, Typed, TypeOK
<1>5. connections' = [connections EXCEPT ![fdOf[c]] = None]
  BY <1>1, <1>3, <1>4 DEF Open, Typed, TypeOK
<1>6. \A e \in batch : e.fd \in Fds => e.fd # fdOf[c]
  BY <1>4 DEF Watched, BatchMatches
<1>7. \A d \in Conns : New(d)' => New(d) /\ d # c
  BY <1>1 DEF New
<1>8. \A d \in Conns : Busy(d)' => Busy(d) /\ d # c
  BY <1>1 DEF Busy, Served
<1>9. QED
  BY <1>1, <1>2, <1>3, <1>5, <1>6, <1>7, <1>8, WatchedClosed

LEMMA WatchedHandleHangup ==
    ASSUME Typed, Owned, Watched, NEW e \in Events, HandleHangup(e)
    PROVE  Watched'
<1>1. PICK c \in Conns : HandleHangupMoves(c, e)
  BY MovesOfHandleHangup
<1> USE DEF HandleHangupMoves
<1>2. /\ epc = "events" /\ e \in batch /\ batch' = batch \ {e}
      /\ epc' = IF batch' = {} THEN "wait" ELSE "events"
  BY DEF HandleHangup, Handling, NextEvent
<1>3. fdOf[c] = e.fd /\ Open(c)
  BY <1>1, InTable, NoneIsApart
<1>4. /\ interest[e.fd] = "disarmed"
      /\ \A d \in batch : d.fd = e.fd => d = e
  BY <1>1, <1>2 DEF Watched, BatchMatches
<1>5. connections' = [connections EXCEPT ![fdOf[c]] = None]
  BY <1>1, <1>3 DEF Erase
<1>6. \A d \in Conns : New(d)' => New(d) /\ d # c
  BY <1>1 DEF New
<1>7. \A d \in Conns : Busy(d)' => Busy(d) /\ d # c
  BY <1>1 DEF Busy, Served, Given
<1>8. \A d \in batch : d \in batch' <=> d.fd # fdOf[c]
  BY <1>2, <1>3, <1>4
<1>9. interest[fdOf[c]] # "armed" /\ peer' = peer /\ CloseClient(c)
  BY <1>1, <1>3, <1>4
<1>10. batch' \subseteq batch /\ epc # "left" /\ epc' # "left" /\ (epc' = "wait" => batch' = {})
  BY <1>2
<1>11. QED
  BY <1>3, <1>5, <1>6, <1>7, <1>8, <1>9, <1>10, WatchedClosed

(* What is in the table under an event's descriptor is its client, so the  *)
(* branch that finds nothing there is never taken.                         *)
LEMMA WatchedHandleIncomplete ==
    ASSUME Typed, Owned, Watched, NEW e \in Events, HandleIncomplete(e)
    PROVE  Watched'
<1>1. /\ e.fd \in Fds /\ e \in batch /\ epc = "events" /\ batch' = batch \ {e}
      /\ epc' = IF batch' = {} THEN "wait" ELSE "events"
      /\ UNCHANGED <<peer, fdOf, accepted, clients, connections, tasks, client, returned>>
  BY DEF HandleIncomplete, Handling, NextEvent, acceptVars, newVars, returnVars, poolVars
<1>2. /\ connections[e.fd] # None /\ interest[e.fd] = "disarmed"
      /\ \A d \in batch : d.fd = e.fd => d = e
  BY <1>1 DEF Watched, BatchMatches
<1>3. interest' = [interest EXCEPT ![e.fd] = "armed"]
  BY <1>2 DEF HandleIncomplete, Rearm
<1>4. /\ interest'[e.fd] = "armed"
      /\ \A fd \in Fds : fd # e.fd => interest'[fd] = interest[fd]
  BY <1>1, <1>3 DEF Typed, TypeOK
<1>5. \A c \in Conns : fdOf[c] = e.fd => ~New(c) /\ ~Busy(c)
  BY <1>1, <1>2, InTable DEF New, Busy, Owned, OneStation
<1>6. \A c \in Conns : (New(c)' <=> New(c)) /\ (Busy(c)' <=> Busy(c))
  BY <1>1 DEF New, Busy, Served, Given
<1>7. \A c \in Conns : New(c) \/ Busy(c) => fdOf[c] \in Fds
  BY DEF New, Busy, Owned, OneStation, Open, Typed, TypeOK
<1>8. Interests'
  <2>1. \A fd \in Fds : (\A c \in Conns : fdOf'[c] # fd) => interest'[fd] = "none"
    BY <1>1, <1>2, <1>4, InTable DEF Watched, Interests
  <2>2. \A c \in Conns : New(c)' => interest'[fdOf'[c]] = "none"
    BY <1>1, <1>4, <1>5, <1>6, <1>7 DEF Watched, Interests
  <2>3. \A c \in Conns : Busy(c)' => interest'[fdOf'[c]] = "disarmed"
    BY <1>1, <1>4, <1>5, <1>6, <1>7 DEF Watched, Interests
  <2>4. \A fd \in Fds : interest'[fd] = "armed" => connections'[fd] # None
    BY <1>1, <1>2, <1>4 DEF Watched, Interests
  <2>5. NoneForgotten'
    BY <1>1, <1>4 DEF Watched, Interests, NoneForgotten
  <2>6. QED
    BY <2>1, <2>2, <2>3, <2>4, <2>5 DEF Interests
<1>9. BatchMatches'
  BY <1>1, <1>2, <1>4 DEF Watched, BatchMatches
<1>10. QED
  BY <1>8, <1>9 DEF Watched

LEMMA WatchedHandleRequest ==
    ASSUME Typed, Owned, Watched, NEW e \in Events, HandleRequest(e)
    PROVE  Watched'
<1>1. PICK c \in Conns : HandleRequestMoves(c, e)
  BY MovesOfHandleRequest
<1> USE DEF HandleRequestMoves
<1>2. /\ epc = "events" /\ e \in batch /\ batch' = batch \ {e} /\ interest' = interest
      /\ epc' = IF batch' = {} THEN "wait" ELSE "events"
  BY DEF HandleRequest, Handling, NextEvent
<1>3. /\ fdOf[c] = e.fd /\ interest[e.fd] = "disarmed"
      /\ \A d \in batch : d.fd = e.fd => d = e
  BY <1>1, <1>2, InTable, NoneIsApart DEF Watched, BatchMatches
<1>4. /\ connections'[e.fd] = None
      /\ \A fd \in Fds : fd # e.fd => connections'[fd] = connections[fd]
  BY <1>1 DEF Erase, Typed, TypeOK
<1>5. \A d \in Conns : New(d)' => New(d)
  BY <1>1 DEF New
<1>6. \A d \in Conns : Busy(d)' => Busy(d) \/ d = c
  BY <1>1 DEF Busy, Served, Given
<1>7. Interests'
  <2>1. \A fd \in Fds : interest'[fd] = "armed" => connections'[fd] # None
    BY <1>2, <1>3, <1>4 DEF Watched, Interests
  <2>2. NoneForgotten'
    BY <1>2, <1>4 DEF Watched, Interests, NoneForgotten
  <2>3. \A d \in Conns : Busy(d)' => interest'[fdOf'[d]] = "disarmed"
    BY <1>1, <1>2, <1>3, <1>6 DEF Watched, Interests
  <2>4. QED
    BY <1>1, <1>2, <1>5, <2>1, <2>2, <2>3 DEF Watched, Interests
<1>8. BatchMatches'
  BY <1>1, <1>2, <1>3, <1>4 DEF Watched, BatchMatches
<1>9. QED
  BY <1>7, <1>8 DEF Watched
(* The steps that leave descriptors, table and epoll alone.                *)
LEMMA WatchedQuiet ==
    ASSUME Typed, Owned, Watched,
           UNCHANGED <<fdOf, interest, connections, accepted, clients, tasks, client, returned>>,
           \A c \in Conns : peer[c] = "reset" => peer'[c] = "reset",
           batch' \subseteq batch,
           \A e \in batch : e.fd \in Fds => e \in batch',
           epc = "left" => epc' = "left",
           epc' \in {"wait", "left"} => batch' = {}
    PROVE  Watched'
<1>1. \A c \in Conns : (New(c)' => New(c)) /\ (Busy(c)' => Busy(c))
  BY DEF New, Busy, Served, Given
<1>2. QED
  BY <1>1, NothingWatched

LEMMA WatchedMoves ==
    ASSUME Typed, Owned, Watched,
           Enqueue \/ PushSentinel \/ (\E w \in Workers : Take(w))
           \/ (\E w \in Workers, n \in Nat, keep \in BOOLEAN : Respond(w, n, keep))
    PROVE  Watched'
<1>1. UNCHANGED <<peer, fdOf, interest, connections, epc, batch>>
  BY DEF Enqueue, PushSentinel, Take, Respond, kernelVars, loopVars
<1>2. \A c \in Conns : (New(c)' => New(c)) /\ (Busy(c)' => Busy(c))
  <2>1. ASSUME Enqueue, NEW c \in Conns PROVE (New(c)' => New(c)) /\ (Busy(c)' => Busy(c))
    <3>1. /\ accepted' = None /\ UNCHANGED <<tasks, client, returned>>
          /\ In(clients', c) <=> In(clients, c) \/ c = accepted
      <4>1. accepted \in Conns /\ clients' = Append(clients, accepted)
        BY <2>1 DEF Enqueue, Typed, TypeOK, InStep
      <4>2. QED
        BY <2>1, <4>1, InAppend DEF Enqueue, returnVars, poolVars, Typed, TypeOK
    <3>2. QED
      BY <3>1, NoneIsApart DEF New, Busy, Served, Given
  <2>2. ASSUME PushSentinel, NEW c \in Conns
        PROVE  (New(c)' => New(c)) /\ (Busy(c)' => Busy(c))
    <3>1. In(tasks', c) <=> In(tasks, c) \/ c = None
      <4>1. tasks' = Append(tasks, None) /\ tasks \in Seq(Conns \cup {None})
        BY <2>2 DEF PushSentinel, Typed, TypeOK
      <4>2. \A d : In(tasks', d) <=> In(tasks, d) \/ d = None
        BY <4>1, InAppend
      <4>3. QED
        BY <4>2
    <3>2. UNCHANGED <<accepted, clients, client, returned>>
      BY <2>2 DEF PushSentinel, acceptVars, newVars, returnVars
    <3>3. QED
      BY <3>1, <3>2, NoneIsApart DEF New, Busy, Served, Given
  <2>3. ASSUME NEW w \in Workers, Take(w), NEW c \in Conns
        PROVE  (New(c)' => New(c)) /\ (Busy(c)' => Busy(c))
    <3>1. PICK h \in Conns \cup {None} : TakeMoves(h, w)
      BY <2>3, MovesOfTake
    <3>2. QED
      BY <3>1 DEF TakeMoves, New, Busy, Given
  <2>4. ASSUME NEW w \in Workers, NEW n \in Nat, NEW keep \in BOOLEAN,
               Respond(w, n, keep), NEW c \in Conns
        PROVE  (New(c)' => New(c)) /\ (Busy(c)' => Busy(c))
    <3>1. PICK k \in Conns : RespondMoves(k, w)
      BY <2>4, MovesOfRespond
    <3>2. QED
      BY <3>1 DEF RespondMoves, New, Busy
  <2>5. QED
    BY <2>1, <2>2, <2>3, <2>4
<1>3. QED
  BY <1>1, <1>2, NothingWatched DEF Watched, BatchMatches

LEMMA WatchedStep == Typed /\ Owned /\ Watched /\ [Next]_vars => Watched'
<1> SUFFICES ASSUME Typed, Owned, Watched, [Next]_vars PROVE Watched'
  OBVIOUS
<1> USE DEF kernelVars, acceptVars, newVars, returnVars, loopVars, poolVars
<1>0. epc \in {"wait", "left"} => batch = {}
  BY DEF Watched, BatchMatches
<1>1. CASE Peers
  <2>1. \A c \in Conns : peer[c] = "reset" => peer'[c] = "reset"
    BY <1>1 DEF Peers, Connect, Send, Hangup, Typed, TypeOK
  <2>2. QED
    BY <1>1, <1>0, <2>1, WatchedQuiet DEF Peers, Connect, Send, Hangup
<1>2. CASE \E c \in Conns, fd \in Fds : Accept(c, fd)
  BY <1>2, WatchedAccept
<1>3. CASE AcceptFails
  BY <1>3, <1>0, WatchedQuiet DEF AcceptFails
<1>4. CASE AcceptorStep
  <2>1. Signal \/ AcceptMore \/ Shutdown \/ JoinEpollThread => Watched'
    BY <1>0, WatchedQuiet DEF Signal, AcceptMore, Shutdown, JoinEpollThread
  <2>2. QED
    BY <1>4, <2>1, WatchedMoves DEF AcceptorStep
<1>5. CASE EpollStep
  <2>1. JoinWorkers => Watched'
    BY <1>0, WatchedQuiet DEF JoinWorkers
  <2>2. DrainNewDone => Watched'
    BY <1>0, WatchedQuiet DEF DrainNewDone, NextEvent
  <2>3. ASSUME NEW e \in Events, ReadNewPipe(e) \/ ReadReturnPipe(e)
        PROVE  Watched'
    BY <2>3, <1>0, NoneIsApart, WatchedQuiet DEF ReadNewPipe, ReadReturnPipe, Handling
  <2>4. ASSUME NEW w \in Workers, FoundEmpty(w) PROVE Watched'
    BY <2>4, <1>0, WatchedQuiet DEF FoundEmpty, NextEvent
  <2>5. QED
    BY <1>5, <2>1, <2>2, <2>3, <2>4, WatchedEpollWait, WatchedLeaveLoop, WatchedDrainNew,
       WatchedDrainKept, WatchedDrainClosed, WatchedHandleHangup, WatchedHandleIncomplete,
       WatchedHandleRequest, WatchedMoves DEF EpollStep
<1>6. ASSUME NEW w \in Workers, WorkerStep(w) PROVE Watched'
  <2>1. CASE Take(w)
    BY <2>1, WatchedMoves
  <2>2. CASE SignalReturn(w)
    BY <2>2, <1>0, WatchedQuiet DEF SignalReturn
  <2>3. CASE \E n \in 0..(MaxHeader + MaxUnread), keep \in BOOLEAN : Respond(w, n, keep)
    <3>1. 0..(MaxHeader + MaxUnread) \subseteq Nat
      BY NoneIsApart
    <3>2. QED
      BY <2>3, <3>1, WatchedMoves
  <2>4. QED
    BY <1>6, <2>1, <2>2, <2>3 DEF WorkerStep
<1>7. ASSUME NEW w \in Workers, HandlerThrows(w) PROVE Watched'
  BY <1>7, <1>0, WatchedQuiet DEF HandlerThrows
<1>8. CASE UNCHANGED vars
  BY <1>8, <1>0, WatchedQuiet DEF vars
<1>9. QED
  BY <1>1, <1>2, <1>3, <1>4, <1>5, <1>6, <1>7, <1>8 DEF Next

LEMMA WatchedInvariance == Spec => [](Typed /\ Owned /\ Watched)
<1>1. Typed /\ Owned /\ Watched /\ [Next]_vars => (Typed /\ Owned /\ Watched)'
  BY TypeStep, OwnedStep, WatchedStep
<1>2. Init => Typed /\ Owned /\ Watched
  BY TypeInit, OwnedInit, WatchedInit
<1>3. QED
  BY <1>1, <1>2, PTL DEF Spec, Safety

(* A client waiting in the table is never out of epoll's sight: whatever   *)
(* arrives for it is, or will be, reported.                                *)
THEOREM NoneForgottenAlways == Spec => []NoneForgotten
<1>1. Watched => NoneForgotten
  BY DEF Watched, Interests
<1>2. QED
  BY <1>1, WatchedInvariance, PTL

LEMMA WatchedExclusive == Typed /\ Owned /\ Watched => StreamIsExclusive
<1> SUFFICES ASSUME Typed, Owned, Watched, NEW c \in Conns,
                    PoolPlaces(c) \cup ReturnPlaces(c) # {}
             PROVE  /\ epc # "left" => interest[fdOf[c]] = "disarmed"
                    /\ \A e \in batch : e.fd # fdOf[c]
  BY DEF StreamIsExclusive
<1>1. Busy(c)
  <2>1. PICK p : p \in PoolPlaces(c) \/ p \in ReturnPlaces(c)
    OBVIOUS
  <2>2. AtTasks(p, c) \/ AtWorker(p, c) \/ AtReturned(p, c)
    BY <2>1 DEF PoolPlaces, ReturnPlaces, AtTasks, AtWorker, AtReturned
  <2>3. QED
    BY <2>2, PlaceStation DEF Busy
<1>2. Open(c) /\ ~Waiting(c) /\ fdOf[c] \in Fds
  BY <1>1 DEF Busy, Owned, OneStation, Open, Typed, TypeOK
<1>3. ASSUME NEW e \in batch, e.fd = fdOf[c] PROVE FALSE
  <2>1. connections[fdOf[c]] # None
    BY <1>2, <1>3 DEF Watched, BatchMatches
  <2>2. QED
    BY <1>2, <2>1, InTable
<1>4. QED
  BY <1>1, <1>3 DEF Watched, Interests

(* No event of a client can start a second reader of its stream while a    *)
(* worker has it, or is to have it, or has not been answered for.          *)
THEOREM StreamIsExclusiveAlways == Spec => []StreamIsExclusive
BY WatchedExclusive, WatchedInvariance, PTL

LEMMA WatchedEvents == Typed /\ Owned /\ Watched => EventIsOfItsClient
BY InTable DEF EventIsOfItsClient, Watched, BatchMatches

(* A batch never outlives the client it was reported for, though its       *)
(* descriptor may be closed and given to another one at any time.          *)
THEOREM EventIsOfItsClientAlways == Spec => []EventIsOfItsClient
BY WatchedEvents, WatchedInvariance, PTL
-----------------------------------------------------------------------------
(* Somebody holds the client.                                              *)
Held(c) == New(c) \/ Waiting(c) \/ Busy(c)

OpenIsHeld == epc # "left" => \A c \in Conns : Open(c) => Held(c)

LEMMA OpenIsHeldInit == Init => OpenIsHeld
BY DEF Init, OpenIsHeld, Open

LEMMA OpenIsHeldStep ==
    ASSUME CloseFreesFd, Typed, Owned, OpenIsHeld, [Next]_vars
    PROVE  OpenIsHeld'
<1> SUFFICES ASSUME epc' # "left" PROVE \A c \in Conns : Open(c)' => Held(c)'
  BY DEF OpenIsHeld
<1> USE DEF kernelVars, acceptVars, newVars, returnVars, loopVars, poolVars,
            Held, New, Busy
<1>0. /\ epc # "left" => \A c \in Conns : Open(c) => Held(c)
      /\ UNCHANGED <<fdOf, accepted, clients, connections, tasks, client, returned>>
         => \A c \in Conns : (Open(c)' <=> Open(c)) /\ (Held(c)' <=> Held(c))
  BY DEF OpenIsHeld, Open, Waiting, Served, Given
<1>1. CASE Peers
  BY <1>0, <1>1 DEF Peers, Connect, Send, Hangup
<1>2. ASSUME NEW c \in Conns, NEW fd \in Fds, Accept(c, fd)
      PROVE  \A d \in Conns : Open(d)' => Held(d)'
  <2>1. /\ accepted = None /\ accepted' = c /\ fdOf' = [fdOf EXCEPT ![c] = fd]
        /\ UNCHANGED <<clients, connections, tasks, client, returned, epc>>
    BY <1>2 DEF Accept, Typed, InStep
  <2>2. \A d \in Conns : d # c => (Open(d)' => Open(d)) /\ (Held(d) => Held(d)')
    BY <2>1, NoneIsApart DEF Open, Waiting, Served, Given, Typed, TypeOK
  <2>3. QED
    BY <1>0, <2>1, <2>2
<1>3. CASE AcceptFails
  BY <1>0, <1>3 DEF AcceptFails
<1>4. CASE AcceptorStep
  <2>1. CASE Enqueue
    <3>1. /\ accepted \in Conns /\ clients' = Append(clients, accepted)
          /\ UNCHANGED <<fdOf, connections, tasks, client, returned, epc>>
      BY <2>1 DEF Enqueue, Typed, TypeOK, InStep
    <3>2. \A d : In(clients', d) <=> In(clients, d) \/ d = accepted
      BY <3>1, InAppend DEF Typed, TypeOK
    <3>3. QED
      BY <1>0, <3>1, <3>2 DEF Open, Waiting, Served, Given
  <2>2. CASE Signal \/ AcceptMore \/ Shutdown \/ JoinEpollThread
    BY <1>0, <2>2 DEF Signal, AcceptMore, Shutdown, JoinEpollThread
  <2>3. QED
    BY <1>4, <2>1, <2>2 DEF AcceptorStep
<1>5. CASE EpollStep
  <2>1. CASE EpollWait \/ DrainNewDone \/ JoinWorkers
    BY <1>0, <2>1 DEF EpollWait, DrainNewDone, JoinWorkers
  <2>2. ASSUME NEW e \in Events, ReadNewPipe(e) \/ ReadReturnPipe(e) \/ HandleIncomplete(e)
        PROVE  \A d \in Conns : Open(d)' => Held(d)'
    BY <1>0, <2>2 DEF ReadNewPipe, ReadReturnPipe, HandleIncomplete, Handling
  <2>3. ASSUME NEW e \in Events, LeaveLoop(e) PROVE FALSE
    BY <2>3 DEF LeaveLoop
  <2>4. ASSUME NEW w \in Workers, FoundEmpty(w) PROVE \A d \in Conns : Open(d)' => Held(d)'
    BY <1>0, <2>4 DEF FoundEmpty
  <2>5. CASE DrainNew
    <3>1. PICK c \in Conns : DrainNewMoves(c)
      BY <2>5, MovesOfDrainNew
    <3>2. QED
      BY <1>0, <2>5, <3>1 DEF DrainNew, DrainNewMoves, Open, Served, Given
  <2>6. ASSUME NEW w \in Workers, DrainKept(w) PROVE \A d \in Conns : Open(d)' => Held(d)'
    <3>1. PICK c \in Conns : DrainKeptMoves(c, w)
      BY <2>6, MovesOfDrainKept
    <3>2. QED
      BY <1>0, <2>6, <3>1 DEF DrainKept, DrainKeptMoves, Open, Served
  <2>7. ASSUME NEW w \in Workers, DrainClosed(w) PROVE \A d \in Conns : Open(d)' => Held(d)'
    <3>1. PICK c \in Conns : DrainClosedMoves(c, w)
      BY <2>7, MovesOfDrainClosed
    <3>2. ~Open(c)'
      BY <3>1 DEF DrainClosedMoves, CloseClient, Open, Typed, TypeOK
    <3>3. QED
      BY <1>0, <2>7, <3>1, <3>2 DEF DrainClosed, DrainClosedMoves, Waiting, Served
  <2>8. ASSUME NEW e \in Events, HandleHangup(e) PROVE \A d \in Conns : Open(d)' => Held(d)'
    <3>1. PICK c \in Conns : HandleHangupMoves(c, e)
      BY <2>8, MovesOfHandleHangup
    <3>2. ~Open(c)'
      BY <3>1 DEF HandleHangupMoves, CloseClient, Open, Typed, TypeOK
    <3>3. QED
      BY <1>0, <2>8, <3>1, <3>2 DEF HandleHangup, Handling, HandleHangupMoves, Served, Given
  <2>9. ASSUME NEW e \in Events, HandleRequest(e) PROVE \A d \in Conns : Open(d)' => Held(d)'
    <3>1. PICK c \in Conns : HandleRequestMoves(c, e)
      BY <2>9, MovesOfHandleRequest
    <3>2. QED
      BY <1>0, <2>9, <3>1 DEF HandleRequest, Handling, HandleRequestMoves, Open, Served, Given
  <2>10. CASE PushSentinel
    <3>1. tasks' = Append(tasks, None) /\ tasks \in Seq(Conns \cup {None})
      BY <2>10 DEF PushSentinel, Typed, TypeOK
    <3>2. \A d : In(tasks', d) <=> In(tasks, d) \/ d = None
      BY <3>1, InAppend
    <3>3. QED
      BY <1>0, <2>10, <3>2 DEF PushSentinel, Open, Waiting, Served, Given
  <2>11. QED
    BY <1>5, <2>1, <2>2, <2>3, <2>4, <2>5, <2>6, <2>7, <2>8, <2>9, <2>10 DEF EpollStep
<1>6. ASSUME NEW w \in Workers, WorkerStep(w)
      PROVE  \A d \in Conns : Open(d)' => Held(d)'
  <2>1. CASE Take(w)
    <3>1. PICK c \in Conns \cup {None} : TakeMoves(c, w)
      BY <2>1, MovesOfTake
    <3>2. QED
      BY <1>0, <2>1, <3>1 DEF Take, TakeMoves, Open, Waiting, Given
  <2>2. CASE SignalReturn(w)
    BY <1>0, <2>2 DEF SignalReturn
  <2>3. ASSUME NEW n \in Nat, NEW keep \in BOOLEAN, Respond(w, n, keep)
        PROVE  \A d \in Conns : Open(d)' => Held(d)'
    <3>1. PICK c \in Conns : RespondMoves(c, w)
      BY <2>3, MovesOfRespond
    <3>2. QED
      BY <1>0, <2>3, <3>1 DEF Respond, RespondMoves, Open, Waiting
  <2>4. 0..(MaxHeader + MaxUnread) \subseteq Nat
    BY NoneIsApart
  <2>5. QED
    BY <1>6, <2>1, <2>2, <2>3, <2>4 DEF WorkerStep
<1>7. ASSUME NEW w \in Workers, HandlerThrows(w)
      PROVE  \A d \in Conns : Open(d)' => Held(d)'
  BY <1>0, <1>7 DEF HandlerThrows
<1>8. CASE UNCHANGED vars
  BY <1>0, <1>8 DEF vars
<1>9. QED
  BY <1>1, <1>2, <1>3, <1>4, <1>5, <1>6, <1>7, <1>8 DEF Next

LEMMA OpenIsHeldNoLeak == OpenIsHeld => NoLeak
<1> SUFFICES ASSUME NEW c \in Conns, Held(c) PROVE Places(c) # {}
  BY DEF OpenIsHeld, NoLeak
<1>1. \E p : \/ AtAccepted(p, c) \/ AtClients(p, c) \/ AtTable(p, c)
             \/ AtTasks(p, c) \/ AtWorker(p, c) \/ AtReturned(p, c)
  BY DEF Held, New, Busy, Waiting, Served, Given, In, Carries,
     AtAccepted, AtClients, AtTable, AtTasks, AtWorker, AtReturned
<1>2. QED
  BY <1>1, PlaceCases

(* A server whose streams close their descriptors leaks none while the     *)
(* loop runs.  For the other streams the run loop_tls shows the leak.      *)
THEOREM NoLeakOfPlainSockets ==
    ASSUME CloseFreesFd
    PROVE  Spec => []NoLeak
<1>1. OpenIsHeld /\ Typed /\ Owned /\ [Next]_vars => OpenIsHeld'
  BY OpenIsHeldStep
<1>2. Spec => []OpenIsHeld
  BY <1>1, OpenIsHeldInit, OwnedInvariance, PTL DEF Spec, Safety
<1>3. QED
  BY <1>2, OpenIsHeldNoLeak, PTL
-----------------------------------------------------------------------------
(* Inside the server each part is what it is on its own: the two channels  *)
(* implement WakeupChannel and the pool implements TaskExecutor, for any   *)
(* connections, descriptors, workers, pipes and read sizes.  So what is    *)
(* proved of the parts alone holds of the server, and nothing is left      *)
(* behind when start() returns.                                            *)

(* What the protocols of the parts need besides Owned: the write end of    *)
(* the pipe is closed once the accepting thread has left its loop, an      *)
(* event of the return channel is in the batch only while there is a byte  *)
(* to read, and no sentinel is queued before stop_all.                     *)
ReturnEvent == [fd |-> "return", hup |-> FALSE]

InProtocol ==
    /\ newClosed <=> apc \in {"join", "done"}
    /\ \A e \in batch : e.fd = "return" => e = ReturnEvent /\ returnPipe > 0
    /\ opc = "open" => ~In(tasks, None)

LEMMA InProtocolInit == Init => InProtocol
BY DEF Init, InProtocol, In

LEMMA ProtocolQuiet ==
    ASSUME InProtocol, UNCHANGED <<newClosed, returnPipe, tasks>>,
           apc' = apc \/ (apc \notin {"join", "done"} /\ apc' \notin {"join", "done"}),
           opc' = opc \/ opc' # "open",
           batch' \subseteq batch
    PROVE  InProtocol'
BY DEF InProtocol, In

LEMMA ReadyReturn ==
    ASSUME Typed, NEW e \in ReadyEvents, e.fd = "return"
    PROVE  e = ReturnEvent /\ returnPipe > 0
<1>1. CASE \E fd \in {f \in {"new"} : newPipe > 0 \/ newClosed}
                     \cup {f \in {"return"} : returnPipe > 0} : e = [fd |-> fd, hup |-> FALSE]
  <2>1. PICK fd \in {f \in {"new"} : newPipe > 0 \/ newClosed}
                     \cup {f \in {"return"} : returnPipe > 0} : e = [fd |-> fd, hup |-> FALSE]
    BY <1>1
  <2>2. fd = "return"
    BY <2>1
  <2>3. QED
    BY <2>1, <2>2 DEF ReturnEvent
<1>2. CASE \E c \in Conns : Open(c) /\ e = [fd |-> fdOf[c], hup |-> peer[c] = "reset"]
  <2>1. PICK c \in Conns : Open(c) /\ e = [fd |-> fdOf[c], hup |-> peer[c] = "reset"]
    BY <1>2
  <2>2. fdOf[c] \in Fds /\ e.fd = fdOf[c]
    BY <2>1 DEF Open, Typed, TypeOK
  <2>3. QED
    BY <2>2, NoneIsApart
<1>3. QED
  BY <1>1, <1>2 DEF ReadyEvents

LEMMA NoSentinelBefore ==
    ASSUME Typed, ~In(tasks, None)
    PROVE  /\ \A c \in Conns : ~In(Append(tasks, c), None)
           /\ tasks # <<>> => ~In(Tail(tasks), None) /\ Head(tasks) # None
<1>1. tasks \in Seq(Conns \cup {None})
  BY DEF Typed, TypeOK
<1>2. \A c \in Conns : ~In(Append(tasks, c), None)
  BY <1>1, InAppend, NoneIsApart
<1>3. ASSUME tasks # <<>> PROVE ~In(Tail(tasks), None) /\ Head(tasks) # None
  <2>1. PICK n \in Nat : n = Len(tasks)
    BY <1>1, LenProperties
  <2>2. PICK t : t = Tail(tasks)
    OBVIOUS
  <2>3. /\ Len(t) = n - 1 /\ n > 0
        /\ \A i \in 1..(n - 1) : t[i] = tasks[i + 1]
        /\ Head(tasks) = tasks[1]
    BY <1>1, <1>3, <2>1, <2>2, HeadTailProperties, EmptySeq
  <2>4. 1 \in 1..n /\ \A i \in 1..(n - 1) : i + 1 \in 1..n
    BY <2>3
  <2>5. QED
    BY <2>1, <2>2, <2>3, <2>4 DEF In
<1>4. QED
  BY <1>2, <1>3

LEMMA InProtocolStep == Typed /\ InProtocol /\ [Next]_vars => InProtocol'
<1> SUFFICES ASSUME Typed, InProtocol, [Next]_vars PROVE InProtocol'
  OBVIOUS
<1> USE DEF kernelVars, acceptVars, newVars, returnVars, loopVars, poolVars
<1>1. CASE Peers
  BY <1>1, ProtocolQuiet DEF Peers, Connect, Send, Hangup
<1>2. CASE \E c \in Conns, fd \in Fds : Accept(c, fd)
  BY <1>2, ProtocolQuiet DEF Accept
<1>3. CASE AcceptFails
  BY <1>3, ProtocolQuiet DEF AcceptFails
<1>4. CASE AcceptorStep
  <2>1. Enqueue \/ Signal \/ AcceptMore => InProtocol'
    BY ProtocolQuiet DEF Enqueue, Signal, AcceptMore
  <2>2. Shutdown \/ JoinEpollThread => InProtocol'
    BY DEF Shutdown, JoinEpollThread, InProtocol
  <2>3. QED
    BY <1>4, <2>1, <2>2 DEF AcceptorStep
<1>5. CASE EpollStep
  <2>1. CASE EpollWait
    <3>1. batch' \subseteq ReadyEvents /\ UNCHANGED <<newClosed, returnPipe, tasks, apc, opc>>
      BY <2>1 DEF EpollWait
    <3>2. QED
      BY <3>1, ReadyReturn DEF InProtocol
  <2>2. ASSUME NEW e \in Events,
               ReadNewPipe(e) \/ LeaveLoop(e) \/ HandleHangup(e) \/ HandleIncomplete(e)
        PROVE  InProtocol'
    BY <2>2, ProtocolQuiet DEF ReadNewPipe, LeaveLoop, HandleHangup, HandleIncomplete, NextEvent
  <2>3. ASSUME NEW e \in Events, ReadReturnPipe(e) PROVE InProtocol'
    BY <2>3 DEF ReadReturnPipe, InProtocol, Handling
  <2>4. ASSUME NEW e \in Events, HandleRequest(e) PROVE InProtocol'
    <3>1. PICK c \in Conns : tasks' = Append(tasks, c)
      BY <2>4 DEF HandleRequest, Typed, TypeOK
    <3>2. ~In(tasks, None) => ~In(tasks', None)
      BY <3>1, NoSentinelBefore
    <3>3. batch' \subseteq batch /\ UNCHANGED <<newClosed, returnPipe, apc, opc>>
      BY <2>4 DEF HandleRequest, NextEvent
    <3>4. QED
      BY <3>2, <3>3 DEF InProtocol
  <2>5. DrainNew \/ DrainNewDone \/ JoinWorkers => InProtocol'
    BY ProtocolQuiet DEF DrainNew, DrainNewDone, JoinWorkers, NextEvent
  <2>6. ASSUME NEW w \in Workers, DrainKept(w) \/ DrainClosed(w) \/ FoundEmpty(w)
        PROVE  InProtocol'
    BY <2>6, ProtocolQuiet DEF DrainKept, DrainClosed, FoundEmpty, NextEvent
  <2>7. CASE PushSentinel
    BY <2>7 DEF PushSentinel, InProtocol
  <2>8. QED
    BY <1>5, <2>1, <2>2, <2>3, <2>4, <2>5, <2>6, <2>7 DEF EpollStep
<1>6. ASSUME NEW w \in Workers, WorkerStep(w) PROVE InProtocol'
  <2>1. CASE Take(w)
    <3>1. opc = "open" => ~In(tasks', None)
      BY <2>1, NoSentinelBefore DEF Take, InProtocol
    <3>2. QED
      BY <2>1, <3>1 DEF Take, InProtocol
  <2>2. CASE SignalReturn(w)
    <3>1. returnPipe' > 0
      BY <2>2, NoneIsApart DEF SignalReturn, Written, Typed, TypeOK
    <3>2. QED
      BY <2>2, <3>1 DEF SignalReturn, InProtocol
  <2>3. CASE \E n \in 0..(MaxHeader + MaxUnread), keep \in BOOLEAN : Respond(w, n, keep)
    BY <2>3, ProtocolQuiet DEF Respond
  <2>4. QED
    BY <1>6, <2>1, <2>2, <2>3 DEF WorkerStep
<1>7. ASSUME NEW w \in Workers, HandlerThrows(w) PROVE InProtocol'
  BY <1>7, ProtocolQuiet DEF HandlerThrows
<1>8. CASE UNCHANGED vars
  BY <1>8, ProtocolQuiet DEF vars
<1>9. QED
  BY <1>1, <1>2, <1>3, <1>4, <1>5, <1>6, <1>7, <1>8 DEF Next

LEMMA PartsInvariance == Spec => [](Typed /\ Owned /\ InProtocol)
<1>1. InProtocol /\ Typed /\ Owned /\ [Next]_vars => InProtocol'
  BY InProtocolStep
<1>2. QED
  BY <1>1, InProtocolInit, OwnedInvariance, PTL DEF Spec, Safety
-----------------------------------------------------------------------------
(* A queue in which no client is twice, and one client is not, is shorter  *)
(* than there are clients: the bounds of the parts are no restriction.     *)
LEMMA MissesOne ==
    ASSUME NEW n \in Nat, NEW f, NEW c \in Conns,
           \A i \in 1..n : f[i] \in Conns /\ f[i] # c,
           \A i, j \in 1..n : f[i] = f[j] => i = j
    PROVE  n < Cardinality(Conns)
<1> DEFINE g == [i \in 1..n |-> f[i]]
           S == Conns \ {c}
<1>1. IsFiniteSet(S) /\ Cardinality(S) = Cardinality(Conns) - 1
      /\ Cardinality(Conns) \in Nat
  BY LoopAssumption, FS_RemoveElement, FS_CardinalityType
<1>2. g \in Injection(1..n, S)
  <2>1. g \in [1..n -> S]
    OBVIOUS
  <2>2. \A i, j \in 1..n : g[i] = g[j] => i = j
    OBVIOUS
  <2>3. QED
    BY <2>1, <2>2, Fun_IsInj
<1>3. Cardinality(1..n) <= Cardinality(S)
  BY <1>1, <1>2, FS_Injection
<1>4. Cardinality(1..n) = n
  BY FS_Interval
<1>5. QED
  BY <1>1, <1>3, <1>4

LEMMA RoomInQueue ==
    ASSUME NEW s \in Seq(Conns), NEW c \in Conns, Distinct(s), ~In(s, c)
    PROVE  Len(s) < Cardinality(Conns)
<1>1. Len(s) \in Nat /\ \A i \in 1..Len(s) : s[i] \in Conns
  BY LenProperties, ElementOfSeq
<1>2. \A i \in 1..Len(s) : s[i] # None /\ s[i] # c
  BY <1>1, NoneIsApart DEF In
<1>3. QED
  BY <1>1, <1>2, MissesOne DEF Distinct

LEMMA RoomInTasks ==
    ASSUME Typed, NEW c \in Conns, Distinct(tasks), ~In(tasks, c), ~In(tasks, None)
    PROVE  Len(tasks) < Cardinality(Conns)
<1>1. tasks \in Seq(Conns \cup {None})
  BY DEF Typed, TypeOK
<1>2. Len(tasks) \in Nat /\ \A i \in 1..Len(tasks) : tasks[i] \in Conns \cup {None}
  BY <1>1, LenProperties, ElementOfSeq
<1>3. \A i \in 1..Len(tasks) : tasks[i] # None /\ tasks[i] # c
  BY DEF In
<1>4. QED
  BY <1>2, <1>3, MissesOne DEF Distinct

LEMMA RoomInReturned ==
    ASSUME NEW s \in Seq(Returns), NEW c \in Conns, DistinctClients(s), ~Carries(s, c)
    PROVE  Len(s) < Cardinality(Conns)
<1> DEFINE f == [i \in 1..Len(s) |-> s[i].client]
<1>1. Len(s) \in Nat /\ \A i \in 1..Len(s) : s[i] \in Returns
  BY LenProperties, ElementOfSeq
<1>2. \A i \in 1..Len(s) : s[i].client \in Conns /\ s[i].client # c
  BY <1>1 DEF Carries, Returns
<1>3. \A i \in 1..Len(s) : f[i] \in Conns /\ f[i] # c
  BY <1>2
<1>4. \A i, j \in 1..Len(s) : f[i] = f[j] => i = j
  BY DEF DistinctClients
<1> HIDE DEF f
<1>5. QED
  BY <1>1, <1>3, <1>4, MissesOne
-----------------------------------------------------------------------------
(* newFdChannel.                                                           *)
LEMMA NewFdInit == Init => NewFdChannel!Init
BY DEF Init, NewFdChannel!Init

LEMMA NewFdQuiet ==
    ASSUME UNCHANGED newVars, apc' = "signal" <=> apc = "signal",
           epc' = "drainNew" <=> epc = "drainNew", epc' = "left" <=> epc = "left"
    PROVE  UNCHANGED NewFdChannel!vars
BY DEF newVars, NewFdChannel!vars

LEMMA NewFdEnqueue ==
    ASSUME Typed, Owned, InProtocol, Enqueue
    PROVE  NewFdChannel!Enqueue(Acceptor, accepted)
<1>1. accepted \in Conns /\ clients \in Seq(Conns)
  BY DEF Enqueue, Typed, TypeOK, InStep
<1>2. Distinct(clients) /\ ~In(clients, accepted)
  BY <1>1 DEF Owned, NoDuplicates, OneStation
<1>3. Len(clients) < Cardinality(Conns)
  BY <1>1, <1>2, RoomInQueue
<1>4. ~newClosed
  BY DEF InProtocol, Enqueue
<1>5. QED
  BY <1>3, <1>4 DEF Enqueue, NewFdChannel!Enqueue, loopVars

LEMMA NewFdStep ==
    ASSUME Typed, Owned, InProtocol, [Next]_vars
    PROVE  [NewFdChannel!Next]_(NewFdChannel!vars)
<1> USE DEF kernelVars, acceptVars, newVars, returnVars, loopVars, poolVars
<1> DEFINE Quiet == UNCHANGED NewFdChannel!vars
<1>1. CASE Peers
  BY <1>1, NewFdQuiet DEF Peers, Connect, Send, Hangup
<1>2. CASE \E c \in Conns, fd \in Fds : Accept(c, fd)
  BY <1>2, NewFdQuiet DEF Accept
<1>3. CASE AcceptFails
  BY <1>3, NewFdQuiet DEF AcceptFails
<1>4. CASE AcceptorStep
  <2>1. CASE Enqueue
    <3>1. accepted \in Conns
      BY <2>1 DEF Enqueue, Typed, TypeOK, InStep
    <3>2. QED
      BY <2>1, <3>1, NewFdEnqueue DEF NewFdChannel!Next
  <2>2. CASE Signal
    <3>1. NewFdChannel!Signal(Acceptor)
      BY <2>2 DEF Signal, NewFdChannel!Signal, Written, NewFdChannel!Written
    <3>2. QED
      BY <3>1 DEF NewFdChannel!Next
  <2>3. CASE AcceptMore \/ JoinEpollThread
    BY <2>3, NewFdQuiet DEF AcceptMore, JoinEpollThread
  <2>4. CASE Shutdown
    <3>1. ~newClosed
      BY <2>4 DEF InProtocol, Shutdown
    <3>2. NewFdChannel!Close
      BY <2>4, <3>1 DEF Shutdown, NewFdChannel!Close
    <3>3. QED
      BY <3>2 DEF NewFdChannel!Next
  <2>5. QED
    BY <1>4, <2>1, <2>2, <2>3, <2>4 DEF AcceptorStep
<1>5. CASE EpollStep
  <2>1. CASE EpollWait
    BY <2>1, NewFdQuiet DEF EpollWait
  <2>2. ASSUME NEW e \in Events, ReadNewPipe(e) PROVE NewFdChannel!Read
    BY <2>2 DEF ReadNewPipe, Handling, NewFdChannel!Read, Unread
  <2>3. ASSUME NEW e \in Events, LeaveLoop(e) PROVE NewFdChannel!ReadEof
    BY <2>3 DEF LeaveLoop, Handling, EndOfFile, NewFdChannel!ReadEof, NewFdChannel!EndOfFile
  <2>4. ASSUME NEW e \in Events,
               \/ ReadReturnPipe(e) \/ HandleHangup(e)
               \/ HandleIncomplete(e) \/ HandleRequest(e)
        PROVE  Quiet
    BY <2>4, NewFdQuiet DEF ReadReturnPipe, HandleHangup, HandleIncomplete, HandleRequest,
       Handling, NextEvent
  <2>5. CASE DrainNew
    <3>1. NewFdChannel!Dequeue(Acceptor)
      BY <2>5 DEF DrainNew, NewFdChannel!Dequeue
    <3>2. QED
      BY <3>1 DEF NewFdChannel!Next, NewFdChannel!Consume
  <2>6. CASE DrainNewDone
    <3>1. NewFdChannel!FoundEmpty(Acceptor)
      BY <2>6 DEF DrainNewDone, NextEvent, NewFdChannel!FoundEmpty, NewFdChannel!ScanEnds
    <3>2. QED
      BY <3>1 DEF NewFdChannel!Next, NewFdChannel!Consume
  <2>7. ASSUME NEW w \in Workers, DrainKept(w) \/ DrainClosed(w) \/ FoundEmpty(w)
        PROVE  Quiet
    BY <2>7, NewFdQuiet DEF DrainKept, DrainClosed, FoundEmpty, NextEvent
  <2>8. CASE PushSentinel \/ JoinWorkers
    BY <2>8, NewFdQuiet DEF PushSentinel, JoinWorkers
  <2>9. QED
    BY <1>5, <2>1, <2>2, <2>3, <2>4, <2>5, <2>6, <2>7, <2>8
       DEF EpollStep, NewFdChannel!Next, NewFdChannel!Consume
<1>6. ASSUME NEW w \in Workers, WorkerStep(w) \/ HandlerThrows(w) PROVE Quiet
  BY <1>6, NewFdQuiet DEF WorkerStep, Take, SignalReturn, Respond, HandlerThrows
<1>7. CASE UNCHANGED vars
  BY <1>7, NewFdQuiet DEF vars
<1>8. QED
  BY <1>1, <1>2, <1>3, <1>4, <1>5, <1>6, <1>7 DEF Next
-----------------------------------------------------------------------------
(* returnChannel.                                                          *)
LEMMA ReturnInit == Init => ReturnChannel!Init
BY DEF Init, ReturnChannel!Init

LEMMA ReturnQuiet ==
    ASSUME UNCHANGED <<returned, returnPipe, seen>>,
           \A w \in Workers : wpc'[w] = "signal" <=> wpc[w] = "signal",
           epc' = "drainReturn" <=> epc = "drainReturn"
    PROVE  UNCHANGED ReturnChannel!vars
BY DEF ReturnChannel!vars

LEMMA ReturnEnqueue ==
    ASSUME Typed, Owned, NEW w \in Workers, NEW n \in Nat, NEW keep \in BOOLEAN,
           Respond(w, n, keep)
    PROVE  \E x \in Returns : ReturnChannel!Enqueue(w, x)
<1>1. PICK c \in Conns : c = client[w]
  BY DEF Respond, Typed, TypeOK, InStep
<1>2. PICK x \in Returns : x = [client |-> c, keepAlive |-> keep]
  BY DEF Returns
<1>3. Served(c)
  BY <1>1 DEF Served
<1>4. DistinctClients(returned[w]) /\ ~Carries(returned[w], c) /\ returned[w] \in Seq(Returns)
  BY <1>1, <1>3 DEF Owned, NoDuplicates, OneStation, Given, Typed, TypeOK
<1>5. Len(returned[w]) < Cardinality(Conns)
  BY <1>4, RoomInReturned
<1>6. returned' = [returned EXCEPT ![w] = Append(@, x)] /\ wpc[w] = "running"
      /\ wpc' = [wpc EXCEPT ![w] = "signal"] /\ UNCHANGED <<returnPipe, epc, seen>>
  BY <1>1, <1>2 DEF Respond, loopVars
<1>7. [v \in Workers |-> IF wpc'[v] = "signal" THEN "signal" ELSE "idle"]
        = [[v \in Workers |-> IF wpc[v] = "signal" THEN "signal" ELSE "idle"]
             EXCEPT ![w] = "signal"]
  BY <1>6 DEF Typed, TypeOK
<1>8. ReturnChannel!Enqueue(w, x)
  BY <1>5, <1>6, <1>7 DEF ReturnChannel!Enqueue
<1>9. QED
  BY <1>8

LEMMA ReturnStep ==
    ASSUME Typed, Owned, InProtocol, [Next]_vars
    PROVE  [ReturnChannel!Next]_(ReturnChannel!vars)
<1> USE DEF kernelVars, acceptVars, newVars, returnVars, loopVars, poolVars
<1> DEFINE Quiet == UNCHANGED ReturnChannel!vars
<1>1. CASE Peers
  BY <1>1, ReturnQuiet DEF Peers, Connect, Send, Hangup
<1>2. CASE \E c \in Conns, fd \in Fds : Accept(c, fd)
  BY <1>2, ReturnQuiet DEF Accept
<1>3. CASE AcceptFails
  BY <1>3, ReturnQuiet DEF AcceptFails
<1>4. CASE AcceptorStep
  BY <1>4, ReturnQuiet DEF AcceptorStep, Enqueue, Signal, AcceptMore, Shutdown, JoinEpollThread
<1>5. CASE EpollStep
  <2>1. CASE EpollWait
    BY <2>1, ReturnQuiet DEF EpollWait
  <2>2. ASSUME NEW e \in Events,
               \/ ReadNewPipe(e) \/ LeaveLoop(e) \/ HandleHangup(e)
               \/ HandleIncomplete(e) \/ HandleRequest(e)
        PROVE  Quiet
    BY <2>2, ReturnQuiet DEF ReadNewPipe, LeaveLoop, HandleHangup, HandleIncomplete,
       HandleRequest, Handling, NextEvent
  <2>3. ASSUME NEW e \in Events, ReadReturnPipe(e) PROVE ReturnChannel!Read
    <3>1. returnPipe > 0
      BY <2>3 DEF ReadReturnPipe, Handling, InProtocol
    <3>2. QED
      BY <2>3, <3>1 DEF ReadReturnPipe, Handling, ReturnChannel!Read, Unread
  <2>4. CASE DrainNew \/ DrainNewDone
    BY <2>4, ReturnQuiet DEF DrainNew, DrainNewDone, NextEvent
  <2>5. ASSUME NEW w \in Workers, DrainKept(w) \/ DrainClosed(w)
        PROVE  ReturnChannel!Dequeue(w)
    BY <2>5 DEF DrainKept, DrainClosed, ReturnChannel!Dequeue
  <2>6. ASSUME NEW w \in Workers, FoundEmpty(w) PROVE ReturnChannel!FoundEmpty(w)
    BY <2>6 DEF FoundEmpty, ScanEnds, NextEvent, ReturnChannel!FoundEmpty,
       ReturnChannel!ScanEnds
  <2>7. CASE PushSentinel \/ JoinWorkers
    BY <2>7, ReturnQuiet DEF PushSentinel, JoinWorkers
  <2>8. QED
    BY <1>5, <2>1, <2>2, <2>3, <2>4, <2>5, <2>6, <2>7
       DEF EpollStep, ReturnChannel!Next, ReturnChannel!Consume
<1>6. ASSUME NEW w \in Workers, WorkerStep(w) PROVE [ReturnChannel!Next]_(ReturnChannel!vars)
  <2>1. CASE Take(w)
    <3>1. \A v \in Workers : wpc'[v] = "signal" <=> wpc[v] = "signal"
      BY <2>1 DEF Take, Typed, TypeOK
    <3>2. QED
      BY <2>1, <3>1, ReturnQuiet DEF Take
  <2>2. CASE SignalReturn(w)
    <3>1. [v \in Workers |-> IF wpc'[v] = "signal" THEN "signal" ELSE "idle"]
            = [[v \in Workers |-> IF wpc[v] = "signal" THEN "signal" ELSE "idle"]
                 EXCEPT ![w] = "idle"]
      BY <2>2 DEF SignalReturn, Typed, TypeOK
    <3>2. ReturnChannel!Signal(w)
      BY <2>2, <3>1 DEF SignalReturn, ReturnChannel!Signal, Written, ReturnChannel!Written
    <3>3. QED
      BY <3>2 DEF ReturnChannel!Next
  <2>3. CASE \E n \in 0..(MaxHeader + MaxUnread), keep \in BOOLEAN : Respond(w, n, keep)
    <3>1. 0..(MaxHeader + MaxUnread) \subseteq Nat
      BY NoneIsApart
    <3>2. QED
      BY <2>3, <3>1, ReturnEnqueue DEF ReturnChannel!Next
  <2>4. QED
    BY <1>6, <2>1, <2>2, <2>3 DEF WorkerStep
<1>7. ASSUME NEW w \in Workers, HandlerThrows(w) PROVE Quiet
  BY <1>7, ReturnQuiet DEF HandlerThrows
<1>8. CASE UNCHANGED vars
  BY <1>8, ReturnQuiet DEF vars
<1>9. QED
  BY <1>1, <1>2, <1>3, <1>4, <1>5, <1>6, <1>7, <1>8 DEF Next
-----------------------------------------------------------------------------
(* The pool.  Its module has its own Cardinality, which is the same.       *)
LEMMA SameCardinality == \A S : WorkerPool!Cardinality(S) = Cardinality(S)
BY DEF WorkerPool!Cardinality, Cardinality

LEMMA PoolInit == Init => WorkerPool!Init
BY NoneIsApart DEF Init, WorkerPool!Init

LEMMA PoolQuiet ==
    ASSUME UNCHANGED <<tasks, opc, sentinels, wpc, client>>,
           died' \in Workers <=> died \in Workers
    PROVE  UNCHANGED WorkerPool!vars
BY DEF WorkerPool!vars

LEMMA PoolAddTask ==
    ASSUME Typed, Owned, InProtocol, NEW e \in Events, HandleRequest(e)
    PROVE  \E c \in Conns : WorkerPool!AddTask(c)
<1>1. PICK c \in Conns : c = connections[e.fd]
  BY DEF HandleRequest, Typed, TypeOK
<1>2. tasks' = Append(tasks, c) /\ epc = "events" /\ died = None
      /\ UNCHANGED <<opc, sentinels, wpc, client, died>>
  BY <1>1 DEF HandleRequest, Handling, Alive
<1>3. opc = "open"
  BY <1>2 DEF Typed, InStep
<1>4. Waiting(c)
  BY <1>1 DEF HandleRequest, Waiting
<1>5. Distinct(tasks) /\ ~In(tasks, c) /\ ~In(tasks, None)
  BY <1>3, <1>4 DEF Owned, NoDuplicates, OneStation, InProtocol
<1>6. Len(tasks) < Cardinality(Conns)
  BY <1>5, RoomInTasks
<1>7. WorkerPool!AddTask(c)
  BY <1>2, <1>3, <1>6, NoneIsApart DEF WorkerPool!AddTask
<1>8. QED
  BY <1>7

LEMMA PoolWorker ==
    ASSUME Typed, NEW w \in Workers, WorkerStep(w)
    PROVE  \/ WorkerPool!Take(w) \/ WorkerPool!TaskReturns(w) \/ UNCHANGED WorkerPool!vars
<1> USE DEF poolVars, Typed, TypeOK, Alive
<1>1. CASE Take(w)
  <2>1. wpc' = [wpc EXCEPT ![w] = IF Head(tasks) = None THEN "exited" ELSE "running"]
    BY <1>1 DEF Take
  <2>2. [v \in Workers |-> IF wpc'[v] = "signal" THEN "waiting" ELSE wpc'[v]]
          = [[v \in Workers |-> IF wpc[v] = "signal" THEN "waiting" ELSE wpc[v]]
               EXCEPT ![w] = WorkerPool!AfterDequeue(Head(tasks))]
    BY <2>1 DEF WorkerPool!AfterDequeue
  <2>3. WorkerPool!Take(w)
    BY <1>1, <2>2, NoneIsApart DEF Take, WorkerPool!Take
  <2>4. QED
    BY <2>3
<1>2. CASE SignalReturn(w)
  <2>1. wpc[w] = "signal" /\ wpc' = [wpc EXCEPT ![w] = "waiting"]
    BY <1>2 DEF SignalReturn
  <2>2. [v \in Workers |-> IF wpc'[v] = "signal" THEN "waiting" ELSE wpc'[v]]
          = [v \in Workers |-> IF wpc[v] = "signal" THEN "waiting" ELSE wpc[v]]
    BY <2>1
  <2>3. QED
    BY <1>2, <2>2 DEF SignalReturn, WorkerPool!vars
<1>3. ASSUME NEW n, NEW keep, Respond(w, n, keep) PROVE WorkerPool!TaskReturns(w)
  <2>1. wpc[w] = "running" /\ wpc' = [wpc EXCEPT ![w] = "signal"]
    BY <1>3 DEF Respond
  <2>2. [v \in Workers |-> IF wpc'[v] = "signal" THEN "waiting" ELSE wpc'[v]]
          = [[v \in Workers |-> IF wpc[v] = "signal" THEN "waiting" ELSE wpc[v]]
               EXCEPT ![w] = "waiting"]
    BY <2>1
  <2>3. QED
    BY <1>3, <2>1, <2>2, NoneIsApart DEF Respond, WorkerPool!TaskReturns
<1>4. QED
  BY <1>1, <1>2, <1>3 DEF WorkerStep

LEMMA PoolStep ==
    ASSUME Typed, Owned, InProtocol, [Next]_vars
    PROVE  [WorkerPool!Next]_(WorkerPool!vars)
<1> USE DEF kernelVars, acceptVars, newVars, returnVars, loopVars, poolVars
<1> DEFINE Quiet == UNCHANGED WorkerPool!vars
<1>1. CASE Peers
  BY <1>1, PoolQuiet DEF Peers, Connect, Send, Hangup
<1>2. CASE \E c \in Conns, fd \in Fds : Accept(c, fd)
  BY <1>2, PoolQuiet DEF Accept
<1>3. CASE AcceptFails
  <2>1. died \notin Workers /\ died' \notin Workers
    BY <1>3, LoopAssumption DEF AcceptFails, Alive
  <2>2. QED
    BY <1>3, <2>1, PoolQuiet DEF AcceptFails
<1>4. CASE AcceptorStep
  BY <1>4, PoolQuiet DEF AcceptorStep, Enqueue, Signal, AcceptMore, Shutdown, JoinEpollThread
<1>5. CASE EpollStep
  <2>1. CASE EpollWait \/ DrainNew \/ DrainNewDone
    BY <2>1, PoolQuiet DEF EpollWait, DrainNew, DrainNewDone
  <2>2. ASSUME NEW e \in Events,
               ReadNewPipe(e) \/ ReadReturnPipe(e) \/ HandleHangup(e) \/ HandleIncomplete(e)
        PROVE  Quiet
    BY <2>2, PoolQuiet DEF ReadNewPipe, ReadReturnPipe, HandleHangup, HandleIncomplete
  <2>3. ASSUME NEW e \in Events, LeaveLoop(e) PROVE WorkerPool!StopAll
    <3>1. opc = "open" /\ died = None
      BY <2>3 DEF LeaveLoop, Handling, Alive, Typed, InStep
    <3>2. QED
      BY <2>3, <3>1, NoneIsApart DEF LeaveLoop, WorkerPool!StopAll
  <2>4. ASSUME NEW w \in Workers, DrainKept(w) \/ DrainClosed(w) \/ FoundEmpty(w)
        PROVE  Quiet
    BY <2>4, PoolQuiet DEF DrainKept, DrainClosed, FoundEmpty
  <2>5. CASE PushSentinel
    <3>1. WorkerPool!PushSentinel
      BY <2>5, SameCardinality, NoneIsApart
         DEF PushSentinel, LastSentinel, ThreadCount, Alive, WorkerPool!PushSentinel,
             WorkerPool!LastSentinel, WorkerPool!ThreadCount
    <3>2. QED
      BY <3>1 DEF WorkerPool!Next
  <2>6. CASE JoinWorkers
    <3>1. WorkerPool!Join
      BY <2>6, NoneIsApart DEF JoinWorkers, Alive, WorkerPool!Join, WorkerPool!AllJoined
    <3>2. QED
      BY <3>1 DEF WorkerPool!Next
  <2>7. QED
    BY <1>5, <2>1, <2>2, <2>3, <2>4, <2>5, <2>6, PoolAddTask DEF EpollStep, WorkerPool!Next
<1>6. ASSUME NEW w \in Workers, WorkerStep(w) PROVE [WorkerPool!Next]_(WorkerPool!vars)
  BY <1>6, PoolWorker DEF WorkerPool!Next
<1>7. ASSUME NEW w \in Workers, HandlerThrows(w) PROVE WorkerPool!TaskThrows(w)
  BY <1>7, NoneIsApart DEF HandlerThrows, Alive, WorkerPool!TaskThrows
<1>8. CASE UNCHANGED vars
  BY <1>8, PoolQuiet DEF vars
<1>9. QED
  BY <1>1, <1>2, <1>3, <1>4, <1>5, <1>6, <1>7, <1>8 DEF Next, WorkerPool!Next

(* Whatever the peers and the kernel do, each part of the server keeps to  *)
(* the protocol of its own module.                                         *)
THEOREM PartsAreImplemented == Spec => ImplementsParts
<1>1. Init => NewFdChannel!Init /\ ReturnChannel!Init /\ WorkerPool!Init
  BY NewFdInit, ReturnInit, PoolInit
<1>2. Typed /\ Owned /\ InProtocol /\ [Next]_vars
        => /\ [NewFdChannel!Next]_(NewFdChannel!vars)
           /\ [ReturnChannel!Next]_(ReturnChannel!vars)
           /\ [WorkerPool!Next]_(WorkerPool!vars)
  BY NewFdStep, ReturnStep, PoolStep
<1>3. QED
  BY <1>1, <1>2, PartsInvariance, PTL
     DEF Spec, Safety, ImplementsParts, NewFdChannel!Safety, ReturnChannel!Safety,
         WorkerPool!Safety
-----------------------------------------------------------------------------
(* What is proved of a part holds of it in the server.                     *)
NewFdProofs ==
    INSTANCE WakeupChannelProofs
        WITH Producers <- {Acceptor}, Items <- Conns,
             MaxQueued <- Cardinality(Conns),
             queue <- [p \in {Acceptor} |-> clients],
             pipe <- newPipe, closed <- newClosed,
             ppc <- [p \in {Acceptor} |-> IF apc = "signal" THEN "signal" ELSE "idle"],
             cpc <- CASE epc = "drainNew" -> "drain"
                      [] epc = "left" -> "stopped"
                      [] OTHER -> "wait",
             seen <- {}

PoolProofs ==
    INSTANCE TaskExecutorProofs
        WITH Tasks <- Conns, Null <- None, MaxQueued <- Cardinality(Conns),
             queue <- tasks, task <- client, aborted <- died \in Workers,
             wpc <- [w \in Workers |-> IF wpc[w] = "signal" THEN "waiting"
                                       ELSE wpc[w]]

LEMMA PartsAssumptions == NewFdProofs!ChannelAssumption /\ PoolProofs!PoolAssumption
<1>1. Cardinality(Conns) \in Nat
  BY LoopAssumption, FS_CardinalityType
<1>2. NewFdProofs!ChannelAssumption
  BY <1>1, NoneIsApart DEF NewFdProofs!ChannelAssumption
<1>3. PoolProofs!IsFiniteSet(Workers)
  BY LoopAssumption DEF PoolProofs!IsFiniteSet, IsFiniteSet
<1>4. PoolProofs!PoolAssumption
  BY <1>1, <1>3, LoopAssumption DEF PoolProofs!PoolAssumption
<1>5. QED
  BY <1>2, <1>4

LEMMA SameNewFd == NewFdChannel!Safety => NewFdProofs!Safety
<1>1. NewFdChannel!Init => NewFdProofs!Init
  BY DEF NewFdChannel!Init, NewFdProofs!Init
<1>2. [NewFdChannel!Next]_(NewFdChannel!vars) => [NewFdProofs!Next]_(NewFdProofs!vars)
  BY DEF NewFdChannel!Next, NewFdProofs!Next, NewFdChannel!vars, NewFdProofs!vars,
     NewFdChannel!Enqueue, NewFdProofs!Enqueue, NewFdChannel!Signal, NewFdProofs!Signal,
     NewFdChannel!Written, NewFdProofs!Written, NewFdChannel!Close, NewFdProofs!Close,
     NewFdChannel!Consume, NewFdProofs!Consume, NewFdChannel!Read, NewFdProofs!Read,
     NewFdChannel!ReadEof, NewFdProofs!ReadEof, NewFdChannel!EndOfFile, NewFdProofs!EndOfFile,
     NewFdChannel!Dequeue, NewFdProofs!Dequeue, NewFdChannel!FoundEmpty,
     NewFdProofs!FoundEmpty, NewFdChannel!ScanEnds, NewFdProofs!ScanEnds
<1>3. QED
  BY <1>1, <1>2, PTL DEF NewFdChannel!Safety, NewFdProofs!Safety

LEMMA SamePool == WorkerPool!Safety => PoolProofs!Safety
<1>1. WorkerPool!Init => PoolProofs!Init
  BY DEF WorkerPool!Init, PoolProofs!Init
<1>2. WorkerPool!LastSentinel <=> PoolProofs!LastSentinel
  BY DEF WorkerPool!LastSentinel, PoolProofs!LastSentinel, WorkerPool!ThreadCount,
     PoolProofs!ThreadCount, WorkerPool!Cardinality, PoolProofs!Cardinality
<1>3. [WorkerPool!Next]_(WorkerPool!vars) => [PoolProofs!Next]_(PoolProofs!vars)
  BY <1>2
     DEF WorkerPool!Next, PoolProofs!Next, WorkerPool!vars, PoolProofs!vars,
     WorkerPool!AddTask, PoolProofs!AddTask, WorkerPool!StopAll, PoolProofs!StopAll,
     WorkerPool!PushSentinel, PoolProofs!PushSentinel, WorkerPool!Join, PoolProofs!Join,
     WorkerPool!AllJoined, PoolProofs!AllJoined, WorkerPool!Take, PoolProofs!Take,
     WorkerPool!AfterDequeue, PoolProofs!AfterDequeue, WorkerPool!TaskReturns,
     PoolProofs!TaskReturns, WorkerPool!TaskThrows, PoolProofs!TaskThrows
<1>4. QED
  BY <1>1, <1>3, PTL DEF WorkerPool!Safety, PoolProofs!Safety

(* stop_all returns only after the loop was left.                          *)
LEMMA ServesAll ==
    Typed /\ NewFdProofs!DrainedAtStop /\ PoolProofs!NothingLeftBehind => ShutdownServesAll
<1> SUFFICES ASSUME Typed, NewFdProofs!DrainedAtStop, PoolProofs!NothingLeftBehind,
                    opc = "stopped"
             PROVE  /\ clients = <<>> /\ tasks = <<>>
                    /\ \A w \in Workers : wpc[w] = "exited" /\ client[w] = None
  BY DEF ShutdownServesAll
<1>1. epc = "left"
  BY DEF Typed, InStep
<1>2. clients = <<>>
  BY <1>1 DEF NewFdProofs!DrainedAtStop
<1>3. tasks = <<>> /\ \A w \in Workers : wpc[w] = "exited"
  BY DEF PoolProofs!NothingLeftBehind
<1>4. \A w \in Workers : client[w] = None
  BY <1>3 DEF Typed, InStep
<1>5. QED
  BY <1>2, <1>3, <1>4

(* When start() can return, no client is on its way to the loop and no     *)
(* request on its way to an answer, and every worker is gone.              *)
THEOREM ShutdownServesAllAlways == Spec => []ShutdownServesAll
<1>1. NewFdProofs!Safety => []NewFdProofs!DrainedAtStop
  BY PartsAssumptions, NewFdProofs!StopFindsQueueDrained, PTL
<1>2. PoolProofs!Safety => []PoolProofs!NothingLeftBehind
  BY PartsAssumptions, PoolProofs!StopLeavesNothing, PTL
<1>3. QED
  BY <1>1, <1>2, ServesAll, PartsAreImplemented, PartsInvariance, SameNewFd, SamePool, PTL
     DEF ImplementsParts
=============================================================================
