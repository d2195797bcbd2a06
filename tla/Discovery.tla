------------------------------- MODULE Discovery -------------------------------
(***************************************************************************)
(* Discovery of a job's projects: the agent (src/internal/discovery),      *)
(* asked by API requests (RunDiscoveryAsync) and by the cron cycle         *)
(* (RunDiscovery), the executor's discovery runs (DispatchDiscoveryAsync,  *)
(* DispatchDiscovery), and the two tables of the state store they write:   *)
(* discovery_status and projects (ReconcileProjects).                      *)
(*                                                                         *)
(* An asynchronous discovery is guarded twice, by the row in               *)
(* discovery_status and by the key in the executor's discoveryID map, and  *)
(* no lock is held across both.  Each access to a table or to the map is a *)
(* step of its own.                                                        *)
(***************************************************************************)
EXTENDS Integers, FiniteSets

CONSTANTS
    Projects,     \* the repositories a discovery can find
    Requests,     \* API requests that are served at a time
    Cycles,       \* cron cycles at work together; each discovers in its own goroutine
    MaxRequests,  \* bound: discoveries that are asked for
    MaxFaults,    \* bound: failing calls
    MaxRestarts   \* bound: crashes of the operator

ASSUME CyclesAssumption == Cycles \cap Requests = {}
ASSUME BoundAssumption ==
    MaxRequests \in Nat /\ MaxFaults \in Nat /\ MaxRestarts \in Nat

VARIABLES
    dstatus,   \* discovery_status.status; a missing row counts as "idle"
    rows,      \* the projects table
    slot,      \* whether the job is a key of DockerExecutor.discoveryID
    rpc,       \* RunDiscoveryAsync, for each request
    bg,        \* the discovery run of each request's goroutine, and of cron
    listing,   \* the repositories the run has printed
    existing,  \* ReconcileProjects: the rows it has read
    verdict,   \* the callback: the status it is going to write
    stale,     \* history: another run has changed rows since existing was read
    requests, faults, restarts

vars == <<dstatus, rows, slot, rpc, bg, listing, existing, verdict, stale,
          requests, faults, restarts>>

Runs == Requests \cup Cycles
Fault == faults < MaxFaults /\ faults' = faults + 1

\* What a run leaves alone while it is at work, and its locals.
locals  == <<listing, existing, verdict, stale>>
notAsk  == <<rows, locals, restarts>>
notRun  == <<rpc, requests, restarts>>

Step(r, pc) == bg' = [bg EXCEPT ![r] = pc]
Answer(r)   == rpc' = [rpc EXCEPT ![r] = "idle"]

-----------------------------------------------------------------------------
(* RunDiscoveryAsync, up to its return *)

\* GetDiscoveryStatus: 409 when it says "running".
Check(r) ==
    /\ rpc[r] = "idle" /\ bg[r] = "idle"
    /\ requests < MaxRequests /\ requests' = requests + 1
    /\ dstatus # "running"
    /\ rpc' = [rpc EXCEPT ![r] = "checked"]
    /\ UNCHANGED <<dstatus, slot, bg, faults, notAsk>>

\* SetDiscoveryStatus(running), or 500.
SetRunning(r) ==
    /\ rpc[r] = "checked"
    /\ \/ /\ dstatus' = "running" /\ rpc' = [rpc EXCEPT ![r] = "marked"]
          /\ UNCHANGED faults
       \/ Fault /\ Answer(r) /\ UNCHANGED dstatus
    /\ UNCHANGED <<slot, bg, requests, notAsk>>

\* Mutant: the slot is not looked at.
DispatchAnyway(r) ==
    /\ rpc[r] = "marked"
    /\ slot' = TRUE /\ Step(r, "run") /\ Answer(r)
    /\ UNCHANGED <<dstatus, requests, faults, notAsk>>
\* DispatchDiscoveryAsync: the slot is reserved and the goroutine started.
Dispatch(r) ==
    /\ rpc[r] = "marked"
    /\ ~slot
    /\ slot' = TRUE /\ Step(r, "run") /\ Answer(r)
    /\ UNCHANGED <<dstatus, requests, faults, notAsk>>

\* Mutant: the refused request answers and leaves its "running" behind.
RefuseOnly(r) ==
    /\ rpc[r] = "marked" /\ slot
    /\ Answer(r)
    /\ UNCHANGED <<dstatus, slot, bg, requests, faults, notAsk>>
\* ErrDiscoveryAlreadyRunning.
Refuse(r) ==
    /\ rpc[r] = "marked" /\ slot
    /\ rpc' = [rpc EXCEPT ![r] = "refused"]
    /\ UNCHANGED <<dstatus, slot, bg, requests, faults, notAsk>>

\* The refused request reverts the row to "idle"; the error is ignored.
Revert(r) ==
    /\ rpc[r] = "refused"
    /\ Answer(r)
    /\ \/ dstatus' = "idle" /\ UNCHANGED faults
       \/ Fault /\ UNCHANGED dstatus
    /\ UNCHANGED <<slot, bg, requests, notAsk>>

-----------------------------------------------------------------------------
(* A discovery run: runDiscoveryContainer and the callback of a request,     *)
(* RunDiscovery of a cron cycle                                             *)

\* The cron library starts a cycle whether or not the last one has ended, and a
\* cycle's run is guarded by neither the row nor the slot.
CronStart(c) ==
    /\ bg[c] = "idle"
    /\ requests < MaxRequests /\ requests' = requests + 1
    /\ Step(c, "run")
    /\ UNCHANGED <<dstatus, slot, rpc, faults, notAsk>>

\* The container is created, started, waited for and removed, and what it has
\* printed is parsed.
RunEnds(r) ==
    /\ bg[r] = "run"
    /\ \E found \in SUBSET Projects : listing' = [listing EXCEPT ![r] = found]
    /\ Step(r, "reconcile")
    /\ UNCHANGED <<dstatus, rows, slot, existing, verdict, stale, faults, notRun>>

\* Mutant: a status that the API does not know.
GiveUpWithError(r) ==
    /\ Step(r, IF r \in Cycles THEN "idle" ELSE "write")
    /\ verdict' = [verdict EXCEPT ![r] = "error"]
\* What follows an error: the callback's verdict, or cron's next job.
GiveUp(r) ==
    /\ Step(r, IF r \in Cycles THEN "idle" ELSE "write")
    /\ verdict' = [verdict EXCEPT ![r] = "failed"]

\* A non-zero exit, or any call of the above that fails.
RunFails(r) ==
    /\ bg[r] = "run"
    /\ GiveUp(r)
    /\ UNCHANGED <<dstatus, rows, slot, listing, existing, stale, faults, notRun>>

\* ReconcileProjects reads the names on the read connection ...
ReconcileRead(r) ==
    /\ bg[r] = "reconcile"
    /\ existing' = [existing EXCEPT ![r] = rows]
    /\ stale' = [stale EXCEPT ![r] = FALSE]
    /\ Step(r, "commit")
    /\ UNCHANGED <<dstatus, rows, slot, listing, verdict, faults, notRun>>

ReadFails(r) ==
    /\ bg[r] = "reconcile" /\ Fault
    /\ GiveUp(r)
    /\ UNCHANGED <<dstatus, rows, slot, listing, existing, stale, notRun>>

\* Mutant: the difference is taken the wrong way round.
SwappedRemoved(r) == listing[r] \ existing[r]
Removed(r)  == existing[r] \ listing[r]
ToInsert(r) == listing[r] \ existing[r]

\* ... and deletes and inserts in one transaction on the other.  The unique
\* index refuses a name that is there, and the transaction is rolled back.
ReconcileCommit(r) ==
    /\ bg[r] = "commit" /\ ToInsert(r) \cap rows = {}
    /\ rows' = (rows \ Removed(r)) \cup ToInsert(r)
    /\ stale' = [s \in Runs |-> stale[s] \/ (s # r /\ rows' # rows)]
    /\ Step(r, IF r \in Cycles THEN "idle" ELSE "write")
    /\ verdict' = [verdict EXCEPT ![r] = "completed"]
    /\ UNCHANGED <<dstatus, slot, listing, existing, faults, notRun>>

CommitFails(r) ==
    /\ bg[r] = "commit"
    /\ IF ToInsert(r) \cap rows = {} THEN Fault ELSE UNCHANGED faults
    /\ GiveUp(r)
    /\ UNCHANGED <<dstatus, rows, slot, listing, existing, stale, notRun>>

\* The callback's last write, whose error is ignored.
WriteVerdict(r) ==
    /\ bg[r] = "write"
    /\ \/ dstatus' = verdict[r] /\ UNCHANGED faults
       \/ Fault /\ UNCHANGED dstatus
    /\ Step(r, "release")
    /\ UNCHANGED <<rows, slot, locals, notRun>>

\* The deferred delete of the slot.
Release(r) ==
    /\ bg[r] = "release"
    /\ slot' = FALSE
    /\ Step(r, "idle")
    /\ UNCHANGED <<dstatus, rows, locals, faults, notRun>>

-----------------------------------------------------------------------------

\* Mutant: the reset at startup is left out.
RestartOnly ==
    /\ restarts < MaxRestarts /\ restarts' = restarts + 1
    /\ rpc' = [r \in Requests |-> "idle"] /\ bg' = [r \in Runs |-> "idle"]
    /\ slot' = FALSE
    /\ UNCHANGED <<dstatus, rows, locals, requests, faults>>
\* A crash at any point; the next start resets a "running" it finds, and logs
\* the error if that fails.
Restart ==
    /\ restarts < MaxRestarts /\ restarts' = restarts + 1
    /\ rpc' = [r \in Requests |-> "idle"] /\ bg' = [r \in Runs |-> "idle"]
    /\ slot' = FALSE
    /\ \/ /\ dstatus' = IF dstatus = "running" THEN "idle" ELSE dstatus
          /\ UNCHANGED faults
       \/ Fault /\ UNCHANGED dstatus
    /\ UNCHANGED <<rows, locals, requests>>

\* A fresh database.
Init ==
    /\ dstatus = "idle" /\ rows = {} /\ slot = FALSE
    /\ rpc = [r \in Requests |-> "idle"] /\ bg = [r \in Runs |-> "idle"]
    /\ listing = [r \in Runs |-> {}] /\ existing = [r \in Runs |-> {}]
    /\ verdict = [r \in Runs |-> "failed"]
    /\ stale = [r \in Runs |-> FALSE]
    /\ requests = 0 /\ faults = 0 /\ restarts = 0

AskStep(r) == SetRunning(r) \/ Dispatch(r) \/ Refuse(r) \/ Revert(r)

RunStep(r) ==
    \/ RunEnds(r) \/ RunFails(r) \/ ReconcileRead(r) \/ ReadFails(r)
    \/ ReconcileCommit(r) \/ CommitFails(r)

Finish(r) == WriteVerdict(r) \/ Release(r)

Next ==
    \/ \E r \in Requests : Check(r) \/ AskStep(r) \/ Finish(r)
    \/ \E r \in Runs : RunStep(r)
    \/ \E c \in Cycles : CronStart(c)
    \/ Restart

Spec == Init /\ [][Next]_vars

\* Requests are served to their end, and a run's container ends.
Fairness ==
    /\ \A r \in Requests : WF_vars(AskStep(r)) /\ WF_vars(Finish(r))
    /\ \A r \in Runs : WF_vars(RunStep(r))

FairSpec == Spec /\ Fairness

-----------------------------------------------------------------------------
(* Properties *)

TypeOK ==
    /\ dstatus \in {"idle", "running", "completed", "failed"}
    /\ rows \subseteq Projects /\ slot \in BOOLEAN
    /\ rpc \in [Requests -> {"idle", "checked", "marked", "refused"}]
    /\ bg \in [Runs -> {"idle", "run", "reconcile", "commit", "write", "release"}]
    /\ listing \in [Runs -> SUBSET Projects]
    /\ existing \in [Runs -> SUBSET Projects]
    /\ verdict \in [Runs -> {"completed", "failed"}]
    /\ stale \in [Runs -> BOOLEAN]
    /\ requests \in Nat /\ faults \in Nat /\ restarts \in Nat

\* However many requests pass the check of the row together, the runs they
\* start never overlap: the second guard holds where the first one does not.
OneAtATime ==
    \A r, s \in Requests : (bg[r] # "idle" /\ bg[s] # "idle") => r = s

\* A row that says "running" has an owner that will change it, so that requests
\* are not refused for good: a request that has not yet been refused or handed
\* over, or a run that has not written its verdict.
RunningHasOwner ==
    (dstatus = "running" /\ faults = 0) =>
        \E r \in Requests :
            \/ rpc[r] \in {"marked", "refused"}
            \/ bg[r] \notin {"idle", "release"}

\* A reconciliation whose rows nobody else has changed since it read them makes
\* the table equal to what its own run found.
ReconcileExactAlone ==
    [][\A r \in Runs : (ReconcileCommit(r) /\ ~stale[r]) => rows' = listing[r]]_vars

\* A discovery that is shown as running ends, unless one of the writes whose
\* errors are ignored has failed.
RunningEnds == dstatus = "running" ~> (dstatus # "running" \/ faults > 0)
=============================================================================
