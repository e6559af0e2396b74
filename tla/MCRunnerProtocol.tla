-------------------------- MODULE MCRunnerProtocol --------------------------
(* Instances of RunnerProtocol for TLC.                                    *)
EXTENDS RunnerProtocol

\* One task: what the two sides do for different tasks meets only in the order of
\* the messages, which retries and second assignments of one task exercise.
OneTask == {1}

=============================================================================
