----------------------------- MODULE MCTwoFactor -----------------------------
(* Instances of TwoFactor for TLC. *)
EXTENDS TwoFactor, TLC

Symmetry == Permutations(Requests) \cup Permutations(Numbers)
==============================================================================
