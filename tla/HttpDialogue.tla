---------------------------- MODULE HttpDialogue ----------------------------
(***************************************************************************)
(* What the server promises to one client: requests are answered one by    *)
(* one, in the order in which they were made and each at most once; an     *)
(* answer to a request the server could not handle is the last one.        *)
(***************************************************************************)
EXTENDS Naturals, Sequences

CONSTANTS MaxRequests    \* model bound: requests of the client

VARIABLES asked,     \* requests whose header the client has sent
          answers,   \* answers[n]: the status of the n-th response, and the
                     \* request it is about
          state      \* "open", "closing" after the last answer, "closed"

Statuses == {200, 400, 404, 500}

(* After these the server closes the connection.                           *)
Fatal == {400, 500}

Init == asked = 0 /\ answers = <<>> /\ state = "open"

Ask ==
    /\ state # "closed"
    /\ asked < MaxRequests
    /\ asked' = asked + 1
    /\ UNCHANGED <<answers, state>>

(* The next request is answered; what comes next depends on the request    *)
(* (Connection: keep-alive) and on how it went.                            *)
Answer(status) ==
    /\ state = "open"
    /\ Len(answers) < asked
    /\ answers' = Append(answers, [re |-> Len(answers) + 1, status |-> status])
    /\ state' \in (IF status \in Fatal THEN {"closing"} ELSE {"open", "closing"})
    /\ UNCHANGED asked

Close ==
    /\ state # "closed"
    /\ state' = "closed"
    /\ UNCHANGED <<asked, answers>>

Next == Ask \/ Close \/ \E status \in Statuses : Answer(status)

Spec == Init /\ [][Next]_<<asked, answers, state>>
=============================================================================
