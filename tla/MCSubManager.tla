---------------------------- MODULE MCSubManager ----------------------------
(* Small instance of SubManager for TLC. *)
EXTENDS SubManager, TLC

\* Timer ids and request ids are interchangeable.
Symmetry == Permutations(TimerIds) \cup Permutations(RequestIds)

=============================================================================
