----------------------------- MODULE MCWorkflow -----------------------------
(* Instances of Workflow for TLC.                                          *)
EXTENDS Workflow

\* Every combination of the options of a task that makes a difference: a task
\* that is synchronised is never committed, one that writes no code is not asked
\* where its worktree begins, and there is no command or all of them.
AllOptions == {o \in Option : /\ o.cmds \in {{}, Commands}
                              /\ ~(o.sync /\ o.commit)
                              /\ o.apply \/ ~(o.local \/ o.branch)}

=============================================================================
