------------------------- MODULE MCHttpConversation -------------------------
(***************************************************************************)
(* The requests with which TLC checks HttpConversation.                    *)
(***************************************************************************)
EXTENDS HttpConversation

Get  == [bare |-> FALSE, keepAlive |-> TRUE, length |-> 0, reads |-> 0, throws |-> FALSE]
Post == [Get EXCEPT !.length = 2, !.reads = 1]
Last == [Get EXCEPT !.keepAlive = FALSE]

(* Requests a resolver may mistreat: it ignores the body, behind which a   *)
(* header still fits in or not, or throws.                                 *)
Ignored == [Get EXCEPT !.length = 1]
Long    == [Get EXCEPT !.length = 3]
Throws  == [Post EXCEPT !.length = 1, !.throws = TRUE]
Bare    == [Get EXCEPT !.bare = TRUE]

AllKinds == {Get, Post, Last, Ignored, Long, Throws, Bare}
=============================================================================
