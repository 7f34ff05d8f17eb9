-------------------------- MODULE MCConnectionLoop --------------------------
(***************************************************************************)
(* ConnectionLoop for TLC: connections, descriptors and workers are        *)
(* interchangeable in runs that check only safety.                         *)
(***************************************************************************)
EXTENDS ConnectionLoop, TLC

Interchangeable ==
    Permutations(Conns) \cup Permutations(Fds) \cup Permutations(Workers)

(* Peers that stay connected and a process that survives: what is left to  *)
(* go wrong is that a thread never comes to a client.                      *)
PatientSpec ==
    /\ Init
    /\ [][/\ Next
          /\ died' = None
          /\ \A c \in Conns : peer'[c] \in {"none", "open"}]_vars
    /\ Fairness
=============================================================================
