----------------------------- MODULE MCTaskView -----------------------------
(* The task page on a small instance; the tasks are alike.                 *)
EXTENDS TaskView, TLC

CONSTANTS a, b

Symmetry == Permutations({a, b})

\* Both properties hold of every state in which an answer was late or lost, and
\* of all that follow it: these are not explored.
StillInOrder == ~late /\ ~lost

=============================================================================
