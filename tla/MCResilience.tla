----------------------------- MODULE MCResilience -----------------------------
(* Instances of Resilience for TLC, and what the documentation says of the   *)
(* manager that the code does not do.                                        *)
EXTENDS Resilience, TLC

MCSymmetry == Permutations(Projects)

\* "BackoffMax caps the per-project backoff" (resilience.go:84): the jitter is
\* applied to the capped value.
BackoffCapped ==
    \A p \in Projects :
        nextAllowed[p] # 0 => nextAllowed[p] - lastReport[p] <= BackoffMax

\* "The next call to AllowDispatch for this project (regardless of source)
\* will return allowed=true, consuming the flag" (resilience.go:368-370): the
\* flag is also lost to a Reset.
FlagConsumedByCall ==
    [][\A p \in manual \ manual' : \E s \in Sources : Allow(p, s)]_manager
=============================================================================
