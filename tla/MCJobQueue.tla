----------------------------- MODULE MCJobQueue -----------------------------
(* Instances of JobQueue for TLC.                                          *)
EXTENDS JobQueue, TLC

\* Threads and tasks are interchangeable; sound for the safety runs only.
Symmetry == Permutations(Workers) \cup Permutations(Tasks) \cup
            Permutations(Requests)

=============================================================================
