----------------------------- MODULE ContainerLife -----------------------------
(***************************************************************************)
(* What the executor promises of the containers it starts and of the rows  *)
(* of their projects, with nothing of how: no slots, no events, no passes  *)
(* and no crashes.  The module Executor implements it.                     *)
(***************************************************************************)
CONSTANTS Projects, Cids, None

VARIABLES
    life,   \* how far each container has come
    owner,  \* the project it was made for
    bad,    \* the containers that exited with a non-zero code
    row     \* the status shown for each project

vars == <<life, owner, bad, row>>

\* Exited, and then reported to the circuit breaker, and only then removed.
Ended == {"exited", "reported", "removed"}
Reported == {"reported", "removed"}

Become(c, from, to) == life[c] = from /\ life' = [life EXCEPT ![c] = to]
Show(p, s) == row' = [row EXCEPT ![p] = s] /\ UNCHANGED <<life, owner, bad>>

Create(c, p) ==
    /\ Become(c, "absent", "created")
    /\ owner' = [owner EXCEPT ![c] = p]
    /\ UNCHANGED <<bad, row>>

Start(c)   == Become(c, "created", "running") /\ UNCHANGED <<owner, bad, row>>
Abandon(c) == Become(c, "created", "abandoned") /\ UNCHANGED <<owner, bad, row>>

Exit(c) ==
    /\ Become(c, "running", "exited")
    /\ bad' \in {bad, bad \cup {c}}
    /\ UNCHANGED <<owner, row>>

Report(c) == Become(c, "exited", "reported") /\ UNCHANGED <<owner, bad, row>>
Clean(c)  == Become(c, "reported", "removed") /\ UNCHANGED <<owner, bad, row>>

\* Requests ask for a run of any project and cancel one that is shown running.
Ask(p)    == Show(p, "scheduled")
Cancel(p) == row[p] = "running" /\ Show(p, "cancelled")

\* A project is shown running for a container of its own that was started, and
\* done or failed for one that has ended so and was reported.
Track(p) ==
    /\ \E c \in Cids : owner[c] = p /\ life[c] \in Ended \cup {"running"}
    /\ Show(p, "running")

Conclude(p) ==
    \E c \in Cids :
        /\ owner[c] = p /\ life[c] \in Reported
        /\ Show(p, IF c \in bad THEN "failed" ELSE "completed")

Init ==
    /\ life = [c \in Cids |-> "absent"]
    /\ owner = [c \in Cids |-> None]
    /\ bad = {}
    /\ row = [p \in Projects |-> "scheduled"]

Next ==
    \/ \E c \in Cids : \/ \E p \in Projects : Create(c, p)
                       \/ Start(c) \/ Abandon(c) \/ Exit(c) \/ Report(c) \/ Clean(c)
    \/ \E p \in Projects : Ask(p) \/ Cancel(p) \/ Track(p) \/ Conclude(p)

Spec == Init /\ [][Next]_vars
=============================================================================
