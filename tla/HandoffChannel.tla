--------------------------- MODULE HandoffChannel ---------------------------
(***************************************************************************)
(* What NewFdChannel and ReturnChannel (FdChannels.hpp) promise to the     *)
(* threads at their two ends, with no pipe and no wakeup in sight: items   *)
(* of one producer are received in the order they were sent, none is lost, *)
(* none is received twice, whatever has been sent is eventually received,  *)
(* and the receiver stops only after the channel was closed and everything *)
(* in it has been received.                                                *)
(*                                                                         *)
(* WakeupChannel, which models the code, is shown to implement this.       *)
(***************************************************************************)
EXTENDS Sequences

CONSTANTS Producers,   \* the threads that send
          Items        \* what they send

VARIABLES queue,       \* queue[p]: sent by p, not received yet, oldest first
          closed,      \* no producer will send again
          stopped      \* the receiver has left

vars == <<queue, closed, stopped>>

Init == /\ queue = [p \in Producers |-> <<>>]
        /\ closed = FALSE
        /\ stopped = FALSE

Send(p, x) == /\ ~closed
              /\ queue' = [queue EXCEPT ![p] = Append(@, x)]
              /\ UNCHANGED <<closed, stopped>>

Receive(p) == /\ ~stopped
              /\ queue[p] # <<>>
              /\ queue' = [queue EXCEPT ![p] = Tail(@)]
              /\ UNCHANGED <<closed, stopped>>

Close == /\ ~closed
         /\ closed' = TRUE
         /\ UNCHANGED <<queue, stopped>>

Stop == /\ closed
        /\ ~stopped
        /\ \A p \in Producers : queue[p] = <<>>
        /\ stopped' = TRUE
        /\ UNCHANGED <<queue, closed>>

Next == \/ \E p \in Producers : Receive(p) \/ \E x \in Items : Send(p, x)
        \/ Close
        \/ Stop

Safety == Init /\ [][Next]_vars

Spec == /\ Safety
        /\ WF_vars(\E p \in Producers : Receive(p))
        /\ WF_vars(Stop)
=============================================================================
