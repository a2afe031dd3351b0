------------------------------ MODULE MCRelay ------------------------------
(* Symmetry for the safety runs of Relay. *)
EXTENDS Relay, TLC

Symmetry == Permutations(Conn) \cup Permutations(Code)
=============================================================================
