-------------------------------- MODULE MCGate --------------------------------
(* Instances of Gate for TLC, and what documentation and comments say of the *)
(* gate that the code does not do.                                           *)
EXTENDS Gate, TLC

MCSymmetry == Permutations(Rows) \cup Permutations(Hooks)

\* Bounds a run to one request or failing call once the clock has advanced.
\* Nothing obliges any of the three to happen, so liveness loses nothing by it.
ClockOrMore == now = 1 \/ faults + requests <= 1

\* "Forgejo webhooks trigger immediate Renovate runs" (README.md:27): an event
\* that comes while its project is being run is overwritten by the verdict.
WebhookTriggersRun ==
    \A p \in Rows :
        (asked[p] # "no" /\ container[p] = "none") => status[p] = "scheduled"

\* "StateOpen means the global breaker has tripped: cron and webhook dispatches
\* are blocked" (resilience.go:32-33): rows scheduled before are still run.
OpenBlocksDispatch ==
    [][\A p \in Rows : (container[p] = "none" /\ container'[p] = "started") =>
                          state = "closed"]_vars

\* "pendingReplay is the set of projects whose webhook was accepted with 202
\* while the breaker was open or their per-project backoff was active"
\* (resilience.go:158-159): a Reset can come before the entry is made.
QueuedWhileDenied ==
    [][\A p \in Rows : (p \notin pendingReplay /\ p \in pendingReplay') =>
                          Gated(p, "webhook")]_vars

\* "Skip discovery on cron (only run known projects)" (README.md:215): with the
\* option set, cron runs nothing.
CronRunsKnown ==
    \A p \in Rows : status[p] = "completed" ~> status[p] # "completed"
=============================================================================
