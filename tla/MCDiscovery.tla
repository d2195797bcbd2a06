------------------------------ MODULE MCDiscovery ------------------------------
(* Instances of Discovery for TLC, and what comments say of discovery that   *)
(* the code does not do.                                                     *)
EXTENDS Discovery, TLC

MCSymmetry == Permutations(Projects) \cup Permutations(Requests)

\* "sets the status to running in the state store, launches the discovery
\* container in the background, and updates the status on completion/failure"
\* (agent.go:64-65): a refused request writes "idle" over it in between.
StatusTracksRun ==
    \A r \in Requests :
        bg[r] \in {"run", "reconcile", "commit"} => dstatus = "running"

\* "Returns ErrDiscoveryAlreadyRunning if a discovery is already in progress"
\* (agent.go:66): one started by the cron cycle is not noticed.
RefusedWhileRunning ==
    [][\A r \in Requests : (bg[r] = "idle" /\ bg'[r] = "run") =>
          \A s \in Runs : bg[s] = "idle"]_vars

\* "ReconcileProjects adds new projects and removes stale ones"
\* (sqlite.go:409), whatever another discovery does at the time.
ReconcileExact ==
    [][\A r \in Runs : ReconcileCommit(r) => rows' = listing[r]]_vars
=============================================================================
