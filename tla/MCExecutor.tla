------------------------------ MODULE MCExecutor ------------------------------
(* Instances of Executor for TLC, and the claims its documents make of it.    *)
EXTENDS Executor, TLC

CONSTANTS p1, p2

\* Container IDs and pool goroutines are interchangeable.
Symmetry == Permutations(Cids) \cup Permutations(Handlers)

SamePriority == [p \in Projects |-> 0]

\* Bounds a run to the behaviours before the first reconcile pass or crash.
Undisturbed == ~disturbed

\* Bounds a run to failing calls and losses, or to a crash.
CrashOrFaults == faults = 0 \/ restarts = 0

\* The containers differ in nothing but their IDs: one of them is the first used.
FirstId == CHOOSE c \in Cids : TRUE
InOrder == cstate[FirstId] = "absent" => \A c \in Cids : cstate[c] = "absent"

TwoPriorities == [p \in Projects |-> IF p = p1 THEN 1 ELSE 0]

-----------------------------------------------------------------------------
(* What the documents and comments say of the executor and the code does not  *)
(* do.                                                                        *)

Running(p) == \E c \in Cids : Live(c) /\ cproj[c] = p

\* README.md:91: ROP_PARALLELISM is the maximum of concurrent containers.
MaxConcurrentContainers == Cardinality({c \in Cids : Live(c)}) <= Parallelism

\* README.md:345: renovate containers are "one per project".
OnePerProject ==
    \A c, d \in Cids : (Live(c) /\ Live(d) /\ cproj[c] = cproj[d]) => c = d

\* README.md:100: ROP_JOB_TIMEOUT is the maximum runtime of a container.
TimeoutEnforced == \A c \in Cids : (Live(c) /\ c \in aged) ~> ~Live(c)

\* interface.go:54: CancelProjectJob frees the slot for the next dispatch.
CancelFreesSlot ==
    \A p \in Projects :
        status[p] = "cancelled" ~> (status[p] # "cancelled" \/ running[p] = Free)

\* docker.go:959: a missed exit is processed "instead of leaving the project
\* stuck in Running".
NotStuckInRunning ==
    \A p \in Projects :
        (status[p] = "running" /\ ~Running(p)) ~>
            (status[p] # "running" \/ Running(p))
===============================================================================
