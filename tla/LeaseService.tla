---------------------------- MODULE LeaseService ----------------------------
(***************************************************************************)
(* What the job queue promises to those who use it, without clocks,        *)
(* retries, threads or crashes: work is handed out to one owner at a time, *)
(* an owner has at most one piece of work, every time it is handed out     *)
(* counts, and work that is done is only done again when it is offered     *)
(* again.  Module JobQueue implements it.                                  *)
(***************************************************************************)
EXTENDS Naturals

CONSTANTS
    Tasks,
    Owners,
    Nobody      \* not an owner

VARIABLE lease  \* of each task: its phase, who holds it, how often it was granted

\* A phase is "none", "waiting", "held" or "done".
Row(phase, holder, grants) == [phase |-> phase, holder |-> holder, grants |-> grants]

Init == lease = [t \in Tasks |-> Row("none", Nobody, 0)]

\* Work is offered, for the first time or anew; who held it has lost it.
Offer(t) == lease' = [lease EXCEPT ![t] = Row("waiting", Nobody, 0)]

\* The holders of S lose what they hold.
Revoked(S) ==
    [t \in Tasks |-> IF t \in S THEN Row("waiting", Nobody, lease[t].grants) ELSE lease[t]]

Held == {t \in Tasks : lease[t].phase = "held"}

\* Work is taken back, and one piece of what waits may be granted to an owner
\* who has none.
Hand(S) ==
    LET rows == Revoked(S)
    IN \/ lease' = rows
       \/ \E t \in Tasks :
             LET o == lease'[t].holder
             IN /\ rows[t].phase = "waiting"
                /\ o \in Owners
                /\ \A u \in Tasks : rows[u].holder # o
                /\ lease' = [rows EXCEPT ![t] = Row("held", o, rows[t].grants + 1)]

\* The work is done, or withdrawn before anybody held it.
Finish(t) ==
    /\ lease[t].phase \in {"waiting", "held"}
    /\ lease' = [lease EXCEPT ![t] = Row("done", Nobody, lease[t].grants)]

\* The record of finished work is deleted.
Forget(t) ==
    /\ lease[t].phase = "done"
    /\ lease' = [lease EXCEPT ![t] = Row("none", Nobody, 0)]

Next ==
    \/ \E t \in Tasks : Offer(t) \/ Finish(t) \/ Forget(t)
    \/ \E S \in SUBSET Held : Hand(S)

Spec == Init /\ [][Next]_lease

=============================================================================
