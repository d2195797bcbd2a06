--------------------------------- MODULE Gate ---------------------------------
(***************************************************************************)
(* The callers of the resilience manager and the rows they write: the      *)
(* Forgejo webhook (HandleForgejo), the cron cycle (runScheduledCycle and  *)
(* DispatchProjects), the breaker's reset and bypass endpoints, and the    *)
(* endpoints that write rows without asking the manager.                   *)
(*                                                                         *)
(* A call of the manager and the write that follows from its answer are    *)
(* separate steps: no lock is held from one to the other.  The executor is *)
(* reduced to what it does to a row and to the manager: it starts what is  *)
(* scheduled, marks it running, reports the outcome and writes the         *)
(* verdict.  The module Executor has the rest of it.                       *)
(***************************************************************************)
EXTENDS Resilience

CONSTANTS
    DiscoveryProject,  \* the name discovery reports under; it has no row
    Hooks,             \* requests to HandleForgejo that are served at a time
    None,              \* a local variable that is not set
    SkipDiscovery,     \* ROP_CRON_SKIP_DISCOVERY
    MaxRequests,       \* bound: requests that write or cancel a row
    MaxFaults          \* bound: failing calls

ASSUME DiscoveryAssumption == DiscoveryProject \in Projects
ASSUME SourcesAssumption == {"cron", "webhook"} \subseteq Sources
ASSUME NoneAssumption == None \notin Projects
ASSUME SkipAssumption == SkipDiscovery \in BOOLEAN
ASSUME GateBoundAssumption == MaxRequests \in Nat /\ MaxFaults \in Nat

Rows == Projects \ {DiscoveryProject}

VARIABLES
    status,       \* projects.status
    container,    \* what the executor is doing with each row's project
    wpc, wproj,   \* HandleForgejo's locals
    cpc, ctodo, cproj,  \* runScheduledCycle's locals
    xtodo,        \* resetBreaker: replayed projects still to be scheduled
    apc, atodo,   \* runRenovateForAllProjects: the rows it is going to write
    owed,         \* history: queued with a 202, no "scheduled" written since
    asked,        \* history: scheduled with a 202, no run started since
    requests, faults

hook     == <<wpc, wproj>>
cron     == <<cpc, ctodo, cproj>>
api      == <<xtodo, apc, atodo>>
executor == <<container>>
row      == <<status, owed, asked>>
vars     == <<manager, row, container, hook, cron, api, requests, faults>>

Fault    == faults < MaxFaults /\ faults' = faults + 1
Request  == requests < MaxRequests /\ requests' = requests + 1

\* UpdateProjectStatus(scheduled): no condition on the status it replaces.
Scheduled(p) ==
    /\ status' = [status EXCEPT ![p] = "scheduled"]
    /\ owed' = owed \ {p}

\* The write, or its failure, which the caller logs.
TrySchedule(p) ==
    \/ Scheduled(p) /\ UNCHANGED <<asked, faults>>
    \/ Fault /\ UNCHANGED row

-----------------------------------------------------------------------------
(* HandleForgejo *)

\* An authenticated event for p asks the manager.
Ask(w, p) ==
    /\ wpc[w] = "idle" /\ Request
    /\ wproj' = [wproj EXCEPT ![w] = p]
    /\ \/ Allow(p, "webhook") /\ wpc' = [wpc EXCEPT ![w] = "schedule"]
       \/ /\ Denies(p, "webhook") /\ wpc' = [wpc EXCEPT ![w] = "enqueue"]
          /\ UNCHANGED manager
    /\ UNCHANGED <<row, executor, cron, api, faults>>

HookDone(w) ==
    /\ wpc' = [wpc EXCEPT ![w] = "idle"]
    /\ wproj' = [wproj EXCEPT ![w] = None]

\* 202 "renovate job scheduled", or 500.
HookSchedule(w) ==
    /\ wpc[w] = "schedule"
    /\ HookDone(w)
    /\ \/ /\ Scheduled(wproj[w])
          /\ asked' = [asked EXCEPT ![wproj[w]] =
                          IF container[wproj[w]] = "none" THEN "quiet" ELSE "busy"]
          /\ UNCHANGED faults
       \/ Fault /\ UNCHANGED row
    /\ UNCHANGED <<manager, executor, cron, api, requests>>

\* 202 "queued".
HookEnqueue(w) ==
    /\ wpc[w] = "enqueue"
    /\ HookDone(w)
    /\ Enqueue(wproj[w])
    /\ owed' = owed \cup {wproj[w]}
    /\ UNCHANGED <<status, asked, executor, cron, api, requests, faults>>

\* 503 "replay queue full".
HookRefuse(w) ==
    /\ wpc[w] = "enqueue" /\ QueueFull(wproj[w])
    /\ HookDone(w)
    /\ UNCHANGED <<manager, row, executor, cron, api, requests, faults>>

-----------------------------------------------------------------------------
(* runScheduledCycle.  With SkipDiscovery it returns before it does anything. *)

\* ListRenovateJobsFull: the statuses the cycle goes by are the ones read here.
CronStart ==
    /\ cpc = "idle" /\ ~SkipDiscovery
    /\ ctodo' = {p \in Rows : status[p] # "running"}
    /\ cpc' = "discover"
    /\ UNCHANGED <<manager, row, executor, hook, cproj, api, requests, faults>>

\* RunDiscovery: the outcome of the container goes to the manager.  A success
\* is reported before its output is read and the rows are reconciled, which may
\* still fail.
CronDiscover ==
    /\ cpc = "discover"
    /\ Report(DiscoveryProject)
    /\ \/ /\ failures'[DiscoveryProject] = 0 /\ cpc' = "dispatch"
          /\ UNCHANGED <<ctodo, faults>>
       \/ failures'[DiscoveryProject] = 0 /\ Fault /\ cpc' = "idle" /\ ctodo' = {}
       \/ /\ failures'[DiscoveryProject] > 0 /\ cpc' = "idle" /\ ctodo' = {}
          /\ UNCHANGED faults
    /\ UNCHANGED <<row, executor, hook, cproj, api, requests>>

\* It fails before there is an outcome: image pull, create, start, wait.
CronDiscoverFails ==
    /\ cpc = "discover" /\ Fault
    /\ cpc' = "idle" /\ ctodo' = {}
    /\ UNCHANGED <<manager, row, executor, hook, cproj, api, requests>>

\* DispatchProjects asks for one project after the other.
CronAsk(p) ==
    /\ cpc = "dispatch" /\ p \in ctodo
    /\ ctodo' = ctodo \ {p}
    /\ \/ Allow(p, "cron") /\ cpc' = "schedule" /\ cproj' = p
       \/ Denies(p, "cron") /\ UNCHANGED <<manager, cpc, cproj>>
    /\ UNCHANGED <<row, executor, hook, api, requests, faults>>

CronSchedule ==
    /\ cpc = "schedule"
    /\ TrySchedule(cproj)
    /\ cpc' = "dispatch" /\ cproj' = None
    /\ UNCHANGED <<manager, executor, hook, ctodo, api, requests>>

CronEnd ==
    /\ cpc = "dispatch" /\ ctodo = {}
    /\ cpc' = "idle"
    /\ UNCHANGED <<manager, row, executor, hook, ctodo, cproj, api, requests,
                   faults>>

-----------------------------------------------------------------------------
(* The API *)

\* Mutant: the handler closes the breaker and drains the queue, no more.
ResetClosesOnly ==
    /\ Request
    /\ state' = "closed" /\ openSince' = 0 /\ pendingReplay' = {}
    /\ xtodo' = xtodo \cup pendingReplay
    /\ UNCHANGED <<now, window, backoff, bypass, failed>>
    /\ UNCHANGED <<row, executor, hook, cron, apc, atodo, faults>>
\* Mutant: a reset forgets what an earlier one still has to schedule.
ResetOverwrites ==
    /\ Request /\ Reset
    /\ xtodo' = pendingReplay
    /\ UNCHANGED <<row, executor, hook, cron, apc, atodo, faults>>
\* resetBreaker: several may be at work, each with its own list.
ResetBreaker ==
    /\ Request /\ Reset
    /\ xtodo' = xtodo \cup pendingReplay
    /\ UNCHANGED <<row, executor, hook, cron, apc, atodo, faults>>

Replay(p) ==
    /\ p \in xtodo
    /\ xtodo' = xtodo \ {p}
    /\ TrySchedule(p)
    /\ UNCHANGED <<manager, executor, hook, cron, apc, atodo, requests>>

\* ListRenovateJobsFull fails: the error is logged and the list is dropped.
ReplayFails ==
    /\ xtodo # {} /\ Fault
    /\ xtodo' = {}
    /\ UNCHANGED <<manager, row, executor, hook, cron, apc, atodo, requests>>

BypassBreaker(p) ==
    /\ MarkManual(p)
    /\ UNCHANGED <<row, executor, hook, cron, api, requests, faults>>

\* RunDiscoveryAsync reports under the same name as the cron cycle's discovery.
DiscoverOnRequest ==
    /\ Report(DiscoveryProject)
    /\ UNCHANGED <<row, executor, hook, cron, api, requests, faults>>

\* runRenovateForProject and HandleSchedule do not ask the manager.
RunProject(p) ==
    /\ Request
    /\ Scheduled(p)
    /\ UNCHANGED <<manager, asked, executor, hook, cron, api, faults>>

\* UpdateProjectStatusBatched: the rows are chosen on the read connection ...
RunAllRead ==
    /\ apc = "idle" /\ Request
    /\ atodo' = {p \in Rows : status[p] \notin {"running", "scheduled"}}
    /\ atodo' # {} /\ apc' = "write"
    /\ UNCHANGED <<manager, row, executor, hook, cron, xtodo, faults>>

\* ... and written in a transaction of its own.
RunAllWrite ==
    /\ apc = "write"
    /\ \/ /\ status' = [p \in Rows |->
                           IF p \in atodo THEN "scheduled" ELSE status[p]]
          /\ owed' = owed \ atodo
          /\ UNCHANGED <<asked, faults>>
       \/ Fault /\ UNCHANGED row
    /\ apc' = "idle" /\ atodo' = {}
    /\ UNCHANGED <<manager, executor, hook, cron, xtodo, requests>>

\* Mutant: the condition on the status is not part of the UPDATE.
CancelAny(p) ==
    /\ Request
    /\ status' = [status EXCEPT ![p] = "cancelled"]
    /\ UNCHANGED <<manager, owed, asked, executor, hook, cron, api, faults>>
Cancel(p) ==
    /\ Request /\ status[p] = "running"
    /\ status' = [status EXCEPT ![p] = "cancelled"]
    /\ UNCHANGED <<manager, owed, asked, executor, hook, cron, api, faults>>

-----------------------------------------------------------------------------
(* The executor, as far as rows and manager see it *)

StartRun(p) ==
    /\ status[p] = "scheduled" /\ container[p] = "none"
    /\ container' = [container EXCEPT ![p] = "started"]
    /\ asked' = [asked EXCEPT ![p] = "no"]
    /\ UNCHANGED <<manager, status, owed, hook, cron, api, requests, faults>>

TryWrite(p, s) ==
    /\ \/ status' = [status EXCEPT ![p] = s] /\ UNCHANGED faults
       \/ Fault /\ UNCHANGED status
    /\ UNCHANGED <<owed, asked>>

MarkRunning(p) ==
    /\ container[p] = "started"
    /\ TryWrite(p, "running")
    /\ container' = [container EXCEPT ![p] = "running"]
    /\ UNCHANGED <<manager, hook, cron, api, requests>>

EndRun(p) ==
    /\ container[p] = "running"
    /\ Report(p)
    /\ container' = [container EXCEPT ![p] =
                        IF failures'[p] = 0 THEN "completed" ELSE "failed"]
    /\ UNCHANGED <<row, hook, cron, api, requests, faults>>

WriteVerdict(p) ==
    /\ container[p] \in {"completed", "failed"}
    /\ TryWrite(p, container[p])
    /\ container' = [container EXCEPT ![p] = "none"]
    /\ UNCHANGED <<manager, hook, cron, api, requests>>

Clock ==
    /\ Tick
    /\ UNCHANGED <<row, executor, hook, cron, api, requests, faults>>

-----------------------------------------------------------------------------

GateInit ==
    /\ Init
    /\ status = [p \in Rows |-> "scheduled"]
    /\ container = [p \in Rows |-> "none"]
    /\ wpc = [w \in Hooks |-> "idle"] /\ wproj = [w \in Hooks |-> None]
    /\ cpc = "idle" /\ ctodo = {} /\ cproj = None
    /\ xtodo = {} /\ apc = "idle" /\ atodo = {}
    /\ owed = {} /\ asked = [p \in Rows |-> "no"]
    /\ requests = 0 /\ faults = 0

HookStep(w) == HookSchedule(w) \/ HookEnqueue(w) \/ HookRefuse(w)

CronStep ==
    \/ CronStart \/ CronDiscover \/ CronDiscoverFails \/ CronSchedule \/ CronEnd
    \/ \E p \in Rows : CronAsk(p)

ReplayStep == ReplayFails \/ \E p \in Rows : Replay(p)

RunStep(p) == StartRun(p) \/ MarkRunning(p) \/ EndRun(p) \/ WriteVerdict(p)

Requests ==
    \/ \E w \in Hooks, p \in Rows : Ask(w, p)
    \/ \E p \in Rows : BypassBreaker(p) \/ RunProject(p) \/ Cancel(p)
    \/ ResetBreaker \/ RunAllRead \/ DiscoverOnRequest

GateNext ==
    \/ Requests
    \/ \E w \in Hooks : HookStep(w)
    \/ CronStep \/ ReplayStep \/ RunAllWrite
    \/ \E p \in Rows : RunStep(p)
    \/ Clock

GateSpec == GateInit /\ [][GateNext]_vars

\* Requests that are being served go on, cron keeps firing, the executor's
\* loops run and containers end.
Fairness ==
    /\ \A w \in Hooks : WF_vars(HookStep(w))
    /\ WF_vars(CronStep) /\ WF_vars(ReplayStep) /\ WF_vars(RunAllWrite)
    /\ \A p \in Rows : WF_vars(RunStep(p))

FairGateSpec == GateSpec /\ Fairness

-----------------------------------------------------------------------------
(* Properties *)

GateTypeOK ==
    /\ TypeOK
    /\ status \in [Rows -> {"scheduled", "running", "completed", "failed",
                            "cancelled"}]
    /\ container \in [Rows -> {"none", "started", "running", "completed",
                               "failed"}]
    /\ wpc \in [Hooks -> {"idle", "schedule", "enqueue"}]
    /\ wproj \in [Hooks -> Rows \cup {None}]
    /\ cpc \in {"idle", "discover", "dispatch", "schedule"}
    /\ ctodo \subseteq Rows /\ cproj \in Rows \cup {None}
    /\ xtodo \subseteq Rows /\ atodo \subseteq Rows /\ apc \in {"idle", "write"}
    /\ owed \subseteq Rows /\ asked \in [Rows -> {"no", "quiet", "busy"}]
    /\ requests \in Nat /\ faults \in Nat

\* The projects whose queue entry an actor has taken and is about to schedule.
InHand ==
    xtodo \cup {wproj[w] : w \in {v \in Hooks : wpc[v] = "schedule"}}
          \cup (IF cpc = "schedule" THEN {cproj} ELSE {})

\* As long as no call fails, an event that was queued with a 202 stays queued
\* or in the hands of whoever took it out of the queue, until its project is
\* scheduled: resets, other webhooks, the cron cycle and bypasses may take it
\* out in any order (README.md:269).
QueuedIsKept == faults = 0 => owed \subseteq pendingReplay \cup InHand

\* An event that was answered "scheduled" while no run of its project was in
\* progress is not overwritten by anyone before the run it asked for starts.
QuietEventRuns == \A p \in Rows : asked[p] = "quiet" => status[p] = "scheduled"

\* A row that says "running" after its run has ended: the verdict's write failed.
Stranded(p) == status[p] = "running" /\ container[p] = "none"

\* A queued project leaves the queue by the next cron cycles at the latest,
\* unless the breaker opens, the project's backoff keeps it waiting, or its row
\* is stranded: the cron cycle asks for no project whose row says "running".
QueueDrains ==
    \A p \in Rows : p \in pendingReplay ~>
        \/ p \notin pendingReplay \/ state = "open" \/ BackingOff(p)
        \/ Stranded(p)
=============================================================================
