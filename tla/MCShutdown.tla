------------------------------ MODULE MCShutdown ------------------------------
(* An instance of Shutdown for TLC: one project with one container, so that   *)
(* the dispatch, the handlers, the reconciler and Stop all meet over its slot. *)
EXTENDS Shutdown

SamePriority == [p \in Projects |-> 0]

\* Two of a reconcile pass, a fault, a request and a timeout, or a discovery
\* run, which shares nothing with the executor but the steps of run.
Weight(b, n) == IF b THEN n ELSE 0
TwoMore ==
    faults + requests + Cardinality(aged) + Weight(disturbed, 1)
        + Weight(xpc # "none", 2) <= 2
===============================================================================
