------------------------------ MODULE MCForward ------------------------------
(* Instances of Forward for TLC.                                             *)
EXTENDS Forward, TLC

\* Clients, connections, services and tasks are interchangeable.
ForwardSymmetry ==
  Permutations(Clients) \cup Permutations(Conns) \cup Permutations(Remotes)
    \cup Permutations(Tasks)

=============================================================================
