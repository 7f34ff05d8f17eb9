------------------------------ MODULE TaskPool ------------------------------
(***************************************************************************)
(* What TaskExecutor (MPMCTaskExecutor.hpp) promises to the thread that    *)
(* owns it: every task added is started exactly once, in the order of the  *)
(* add_task calls, each by one worker; stop_all returns only when nothing  *)
(* waits and nothing runs.  A task that throws ends the process.           *)
(*                                                                         *)
(* TaskExecutor, which models the code, is shown to implement this.        *)
(***************************************************************************)
EXTENDS Sequences

CONSTANTS Workers, Tasks,
          Idle              \* what a worker that runs nothing runs

VARIABLES waiting,          \* tasks added and not started, oldest first
          current,          \* current[w]: the task w runs, or Idle
          stopped,          \* stop_all has returned
          aborted           \* std::terminate has been called

vars == <<waiting, current, stopped, aborted>>

Init == /\ waiting = <<>>
        /\ current = [w \in Workers |-> Idle]
        /\ stopped = FALSE
        /\ aborted = FALSE

Submit(t) == /\ ~stopped /\ ~aborted
             /\ waiting' = Append(waiting, t)
             /\ UNCHANGED <<current, stopped, aborted>>

Start(w) == /\ ~aborted
            /\ current[w] = Idle
            /\ waiting # <<>>
            /\ current' = [current EXCEPT ![w] = Head(waiting)]
            /\ waiting' = Tail(waiting)
            /\ UNCHANGED <<stopped, aborted>>

Finish(w) == /\ ~aborted
             /\ current[w] # Idle
             /\ current' = [current EXCEPT ![w] = Idle]
             /\ UNCHANGED <<waiting, stopped, aborted>>

Stop == /\ ~stopped /\ ~aborted
        /\ waiting = <<>>
        /\ \A w \in Workers : current[w] = Idle
        /\ stopped' = TRUE
        /\ UNCHANGED <<waiting, current, aborted>>

Abort == /\ ~aborted
         /\ \E w \in Workers : current[w] # Idle
         /\ aborted' = TRUE
         /\ UNCHANGED <<waiting, current, stopped>>

Next == \/ \E t \in Tasks : Submit(t)
        \/ \E w \in Workers : Start(w) \/ Finish(w)
        \/ Stop
        \/ Abort

Safety == Init /\ [][Next]_vars

Spec == /\ Safety
        /\ WF_vars(\E w \in Workers : Start(w))
        /\ \A w \in Workers : WF_vars(Finish(w))
=============================================================================
