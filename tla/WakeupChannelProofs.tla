------------------------- MODULE WakeupChannelProofs -------------------------
(***************************************************************************)
(* The safety of WakeupChannel, for any producers, items, pipe capacity,   *)
(* read size and queue bound: it is well typed, it loses no wakeup, it is  *)
(* empty when the consumer stops, and it implements HandoffChannel.        *)
(***************************************************************************)
EXTENDS WakeupChannel, TLAPS

(* NoLostWakeup and the two facts DrainedAtStop needs besides it: the pipe *)
(* is closed only when no producer owes a byte, and the consumer stops     *)
(* only with an empty closed pipe.                                         *)
ClosedIsQuiet ==
    /\ closed => \A p \in Producers : ppc[p] = "idle"
    /\ cpc = "stopped" => closed /\ pipe = 0

IInv == TypeOK /\ NoLostWakeup /\ ClosedIsQuiet

LEMMA TypeInit == Init => TypeOK
<1> SUFFICES ASSUME Init PROVE TypeOK
  OBVIOUS
<1>1. queue \in [Producers -> Seq(Items)]
  BY DEF Init
<1>2. pipe \in 0..PipeCapacity
  BY ChannelAssumption DEF Init
<1>3. QED
  BY <1>1, <1>2 DEF Init, TypeOK

LEMMA TypeStep == TypeOK /\ [Next]_vars => TypeOK'
<1> SUFFICES ASSUME TypeOK, [Next]_vars PROVE TypeOK'
  OBVIOUS
<1> USE DEF TypeOK
<1>1. ASSUME NEW p \in Producers, NEW x \in Items, Enqueue(p, x) PROVE TypeOK'
  BY <1>1 DEF Enqueue
<1>2. ASSUME NEW p \in Producers, Signal(p) PROVE TypeOK'
  BY <1>2, ChannelAssumption DEF Signal, Written
<1>3. CASE Close
  BY <1>3 DEF Close
<1>4. CASE Read
  BY <1>4, ChannelAssumption DEF Read
<1>5. CASE ReadEof
  BY <1>5 DEF ReadEof, EndOfFile
<1>6. ASSUME NEW p \in Producers, Dequeue(p) PROVE TypeOK'
  BY <1>6 DEF Dequeue
<1>7. ASSUME NEW p \in Producers, FoundEmpty(p) PROVE TypeOK'
  BY <1>7 DEF FoundEmpty
<1>8. CASE UNCHANGED vars
  BY <1>8 DEF vars
<1>9. QED
  BY <1>1, <1>2, <1>3, <1>4, <1>5, <1>6, <1>7, <1>8 DEF Next, Consume

(* The channel stays well typed; in particular the pipe never holds more   *)
(* than its capacity, because a write to a full pipe is dropped.           *)
THEOREM TypeCorrect == Safety => []TypeOK
BY TypeInit, TypeStep, PTL DEF Safety

LEMMA IInvInit == Init => IInv
BY TypeInit DEF Init, IInv, NoLostWakeup, ClosedIsQuiet

LEMMA IInvStep == IInv /\ [Next]_vars => IInv'
<1> SUFFICES ASSUME IInv, [Next]_vars PROVE NoLostWakeup' /\ ClosedIsQuiet'
  BY TypeStep DEF IInv
<1> USE DEF IInv, TypeOK, NoLostWakeup, ClosedIsQuiet
<1>1. ASSUME NEW p \in Producers, NEW x \in Items, Enqueue(p, x)
      PROVE NoLostWakeup' /\ ClosedIsQuiet'
  BY <1>1 DEF Enqueue
<1>2. ASSUME NEW p \in Producers, Signal(p)
      PROVE NoLostWakeup' /\ ClosedIsQuiet'
  <2>1. pipe' > 0
    BY <1>2, ChannelAssumption DEF Signal, Written
  <2>2. QED
    BY <1>2, <2>1 DEF Signal, Written
<1>3. CASE Close
  BY <1>3 DEF Close
<1>4. CASE Read
  BY <1>4 DEF Read
<1>5. CASE ReadEof
  BY <1>5 DEF ReadEof, EndOfFile
<1>6. ASSUME NEW p \in Producers, Dequeue(p)
      PROVE NoLostWakeup' /\ ClosedIsQuiet'
  BY <1>6 DEF Dequeue
<1>7. ASSUME NEW p \in Producers, FoundEmpty(p)
      PROVE NoLostWakeup' /\ ClosedIsQuiet'
  BY <1>7 DEF FoundEmpty, ScanEnds
<1>8. CASE UNCHANGED vars
  BY <1>8 DEF vars
<1>9. QED
  BY <1>1, <1>2, <1>3, <1>4, <1>5, <1>6, <1>7, <1>8 DEF Next, Consume

LEMMA Invariance == Safety => []IInv
BY IInvInit, IInvStep, PTL DEF Safety

(* No interleaving of enqueue, write, read and drain leaves an item queued *)
(* with nothing on its way to make the epoll thread look for it.           *)
THEOREM WakeupNeverLost == Safety => []NoLostWakeup
<1>1. IInv => NoLostWakeup
  BY DEF IInv
<1>2. QED
  BY <1>1, Invariance, PTL

LEMMA IInvDrained == IInv => DrainedAtStop
<1> SUFFICES ASSUME IInv, cpc = "stopped", NEW p \in Producers
             PROVE queue[p] = <<>>
  BY DEF DrainedAtStop
<1>1. pipe = 0 /\ ppc[p] = "idle"
  BY DEF IInv, ClosedIsQuiet
<1>2. QED
  BY <1>1 DEF IInv, NoLostWakeup

(* When the epoll thread sees the end of the pipe, nothing is left in the  *)
(* queue.                                                                  *)
THEOREM StopFindsQueueDrained == Safety => []DrainedAtStop
BY IInvDrained, Invariance, PTL

LEMMA HandoffInit == Init => Handoff!Init
BY DEF Init, Handoff!Init

LEMMA HandoffStep == IInv /\ [Next]_vars => [Handoff!Next]_(Handoff!vars)
<1> SUFFICES ASSUME IInv, [Next]_vars PROVE [Handoff!Next]_(Handoff!vars)
  OBVIOUS
<1> USE DEF Handoff!Next, Handoff!vars, IInv, TypeOK
<1>1. ASSUME NEW p \in Producers, NEW x \in Items, Enqueue(p, x)
      PROVE Handoff!Send(p, x)
  BY <1>1 DEF Enqueue, Handoff!Send
<1>2. ASSUME NEW p \in Producers, Signal(p)
      PROVE UNCHANGED Handoff!vars
  BY <1>2 DEF Signal, Written
<1>3. ASSUME Close PROVE Handoff!Close
  BY <1>3 DEF Close, Handoff!Close
<1>4. ASSUME Read PROVE UNCHANGED Handoff!vars
  BY <1>4 DEF Read
<1>5. ASSUME ReadEof PROVE Handoff!Stop
  BY <1>5 DEF ReadEof, EndOfFile, Handoff!Stop, NoLostWakeup, ClosedIsQuiet
<1>6. ASSUME NEW p \in Producers, Dequeue(p) PROVE Handoff!Receive(p)
  BY <1>6 DEF Dequeue, Handoff!Receive
<1>7. ASSUME NEW p \in Producers, FoundEmpty(p)
      PROVE UNCHANGED Handoff!vars
  BY <1>7 DEF FoundEmpty
<1>8. ASSUME UNCHANGED vars PROVE UNCHANGED Handoff!vars
  BY <1>8 DEF vars
<1>9. QED
  BY <1>1, <1>2, <1>3, <1>4, <1>5, <1>6, <1>7, <1>8 DEF Next, Consume

(* Every step of the self-pipe channel is a step of the abstract channel   *)
(* or changes nothing of it (the safety half of ImplementsHandoff).        *)
THEOREM RefinesHandoff == Safety => Handoff!Safety
BY HandoffInit, HandoffStep, Invariance, PTL DEF Safety, Handoff!Safety
=============================================================================
