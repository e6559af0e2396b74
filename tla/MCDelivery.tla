----------------------------- MODULE MCDelivery -----------------------------
(* Instances of Delivery for TLC.                                          *)
EXTENDS Delivery, TLC

Symmetry == Permutations(Approvers) \cup Permutations(Publishers) \cup Permutations(Bases)
=============================================================================
