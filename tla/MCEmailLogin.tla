---------------------------- MODULE MCEmailLogin ----------------------------
(* Instances of EmailLogin for TLC.                                        *)
EXTENDS EmailLogin, TLC

Symmetry == Permutations(Requests) \cup Permutations(Verifiers)
=============================================================================
