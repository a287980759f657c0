-------------------------- MODULE MCSessionLeases --------------------------
(* Instances of SessionLeases for TLC. *)
EXTENDS SessionLeases, TLC

\* Owners, processes and sessions are interchangeable.
Symmetry ==
    Permutations(Proc) \cup Permutations(Owner) \cup Permutations(Session)
=============================================================================
