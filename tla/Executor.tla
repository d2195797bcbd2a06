------------------------------- MODULE Executor -------------------------------
(***************************************************************************)
(* The container executor, src/internal/executor/docker.go: the dispatch   *)
(* loop (doDispatch, dispatchProject), the goroutines started for "die"    *)
(* events (listenEvents, handleContainerExit), the orphan reconciler       *)
(* (reconcileOrphans) and what the rest of the process and the daemon do   *)
(* around them: requests that rewrite a project's row, containers that     *)
(* exit or outlive their timeout, lost events, failing calls, and a crash  *)
(* of the operator, which loses its memory and keeps database and          *)
(* containers.                                                             *)
(*                                                                         *)
(* Every lock region, Docker call and database call that another goroutine *)
(* can interleave with is a step of its own.  One job is modelled: its     *)
(* rows are the Projects.                                                  *)
(***************************************************************************)
EXTENDS Integers, FiniteSets

CONSTANTS
    Projects,     \* the rows of the job, named by project
    Cids,         \* container IDs the daemon can hand out, never reused
    Handlers,     \* goroutines of listenEvents' exitPool
    Reconciler,   \* the goroutine of reconcileLoop, which handles exits inline
    None,         \* a local variable that is not set
    Free,         \* running[p] when p is not a key of the running map
    Reserved,     \* running[p] = "": a slot held before the container exists
    Parallelism,  \* Config.Parallelism
    Priority,     \* the priority column
    MaxRestarts,  \* bound: crashes of the operator
    MaxFaults,    \* bound: failing calls and losses of buffered events
    MaxRequests,  \* bound: requests that schedule or cancel a project
    MaxAged       \* bound: containers that outlive jobTimeout

ASSUME SetAssumption == IsFiniteSet(Projects)
ASSUME ParallelismAssumption == Parallelism \in Nat \ {0}  \* New's default is 2
ASSUME PriorityAssumption == Priority \in [Projects -> Int]
ASSUME SlotAssumption == Free # Reserved /\ {Free, Reserved, None} \cap Cids = {}
ASSUME ReconcilerAssumption == Reconciler \notin Handlers
ASSUME BoundAssumption ==
    /\ MaxRestarts \in Nat /\ MaxFaults \in Nat
    /\ MaxRequests \in Nat /\ MaxAged \in Nat

VARIABLES
    status,     \* projects.status
    cstate,     \* the daemon's state of each container
    cproj,      \* the project label of each container
    cfail,      \* the containers that exited with a non-zero code
    aged,       \* the containers started longer than jobTimeout ago
    events,     \* die events not yet received by listenEvents
    running,    \* DockerExecutor.running
    dpc, todo, count, dproj, dcid,   \* the dispatch loop's locals
    hpc, hcid, hproj,                \* handleContainerExit's locals
    rpc, rlive, rdone, rcur,         \* reconcileOrphans' locals
    reports,    \* history: calls of reporter.Report for each container
    disturbed,  \* history: a reconcile pass or a crash has happened
    restarts, faults, requests       \* how much of each bound is used

db      == <<status>>
daemon  == <<cstate, cproj, cfail, aged, events>>
dvars   == <<dpc, todo, count, dproj, dcid>>
hvars   == <<hpc, hcid, hproj>>
rvars   == <<rpc, rlive, rdone, rcur>>
bounds  == <<restarts, faults, requests>>

\* What the steps of one goroutine leave alone.
operator     == <<running, dvars, hvars, rvars, reports>>
notDispatch  == <<hvars, rvars, reports, disturbed, restarts, requests>>
notExit      == <<dvars, rvars, disturbed, restarts, requests>>
notReconcile == <<dvars, reports, restarts, requests>>

vars    == <<status, daemon, running, dvars, hvars, rvars, reports,
             disturbed, bounds>>

Statuses == {"scheduled", "running", "completed", "failed", "cancelled"}
CStates  == {"absent", "created", "running", "exited", "removed"}
AllHandlers == Handlers \cup {Reconciler}

Live(c)    == cstate[c] = "running"
Started(c) == cstate[c] \in {"running", "exited", "removed"}
\* Mutant: a slot counts as taken only while it is reserved.
TakenIfReserved(p) == running[p] = Reserved
Taken(p)   == running[p] # Free                   \* p is a key of e.running
Slots      == {p \in Projects : Taken(p)}         \* len(e.running)
Delete(p)  == running' = [running EXCEPT ![p] = Free]
Fault      == faults < MaxFaults /\ faults' = faults + 1

-----------------------------------------------------------------------------
(* Requests and the daemon *)

\* UpdateProjectStatus(scheduled): webhook, API and cron overwrite any status.
Schedule(p) ==
    /\ requests < MaxRequests
    /\ status[p] # "scheduled"
    /\ status' = [status EXCEPT ![p] = "scheduled"]
    /\ requests' = requests + 1
    /\ UNCHANGED <<disturbed, restarts, faults, operator, daemon>>

\* CancelProjectJob: one transaction on the row; the container is not touched.
Cancel(p) ==
    /\ requests < MaxRequests
    /\ status[p] = "running"
    /\ status' = [status EXCEPT ![p] = "cancelled"]
    /\ requests' = requests + 1
    /\ UNCHANGED <<disturbed, restarts, faults, operator, daemon>>

\* What the daemon does when container c stops with a code that is 0 or not.
Dies(c, failed) ==
    /\ cstate' = [cstate EXCEPT ![c] = "exited"]
    /\ cfail' = IF failed THEN cfail \cup {c} ELSE cfail
    /\ events' = events \cup {c}

ContainerExit(c) ==
    /\ Live(c)
    /\ \E failed \in BOOLEAN : Dies(c, failed)
    /\ UNCHANGED <<status, cproj, aged, disturbed, operator, bounds>>

\* jobTimeout passes while c still runs.
Age(c) ==
    /\ Live(c) \/ c \in rlive
    /\ c \notin aged /\ Cardinality(aged) < MaxAged
    /\ aged' = aged \cup {c}
    /\ UNCHANGED <<status, cstate, cproj, cfail, events, disturbed, operator,
                   bounds>>

\* Mutant: the new subscription replays the exits of containers still there.
ReplayEvents ==
    /\ Fault
    /\ events' = events \cup {c \in Cids : cstate[c] = "exited"}
    /\ UNCHANGED <<status, cstate, cproj, cfail, aged, operator, disturbed,
                   restarts, requests>>

\* The stream breaks: listenEvents sleeps and resubscribes from now on.
LoseEvents ==
    /\ events # {} /\ Fault
    /\ events' = {}
    /\ UNCHANGED <<status, cstate, cproj, cfail, aged, operator, disturbed,
                   restarts, requests>>

-----------------------------------------------------------------------------
(* dispatchLoop: one goroutine *)

DispatchTick ==
    /\ dpc = "idle"
    /\ Cardinality(Slots) < Parallelism      \* else the pass breaks at once
    /\ count' = Cardinality(Slots)
    /\ dpc' = "query"
    /\ UNCHANGED <<status, running, todo, dproj, dcid, faults, notDispatch,
                   daemon>>

\* GetProjectsByStatus(scheduled): the list the rest of the pass works from.
Query ==
    /\ dpc = "query"
    /\ todo' = {p \in Projects : status[p] = "scheduled"}
    /\ dpc' = IF todo' = {} THEN "idle" ELSE "loop"
    /\ UNCHANGED <<status, running, count, dproj, dcid, faults, notDispatch,
                   daemon>>

\* sort.Slice orders by priority alone: equal priorities come in any order.
NextUp(p) ==
    /\ dpc = "loop" /\ count < Parallelism
    /\ p \in todo /\ \A q \in todo : Priority[q] <= Priority[p]
    /\ todo' = todo \ {p}

SkipRunning(p) ==
    /\ NextUp(p) /\ Taken(p)
    /\ UNCHANGED <<status, running, dpc, count, dproj, dcid, faults,
                   notDispatch, daemon>>

Reserve(p) ==
    /\ NextUp(p) /\ ~Taken(p)
    /\ running' = [running EXCEPT ![p] = Reserved]
    /\ dproj' = p
    /\ dpc' = "create"
    /\ UNCHANGED <<status, count, dcid, faults, notDispatch, daemon>>

EndPass ==
    /\ dpc = "loop" /\ (todo = {} \/ count >= Parallelism)
    /\ dpc' = "idle" /\ todo' = {}
    /\ UNCHANGED <<status, running, count, dproj, dcid, faults, notDispatch,
                   daemon>>

\* Mutant: the row is marked before there is a container that runs.
CreateAndMark(c) ==
    /\ dpc = "create" /\ cstate[c] = "absent"
    /\ cstate' = [cstate EXCEPT ![c] = "created"]
    /\ cproj' = [cproj EXCEPT ![c] = dproj]
    /\ status' = [status EXCEPT ![dproj] = "running"]
    /\ dcid' = c
    /\ dpc' = "start"
    /\ UNCHANGED <<cfail, aged, events, running, todo, count, dproj, faults,
                   notDispatch>>

CreateContainer(c) ==
    /\ dpc = "create" /\ cstate[c] = "absent"
    /\ cstate' = [cstate EXCEPT ![c] = "created"]
    /\ cproj' = [cproj EXCEPT ![c] = dproj]
    /\ dcid' = c
    /\ dpc' = "start"
    /\ UNCHANGED <<status, cfail, aged, events, running, todo, count, dproj,
                   faults, notDispatch>>

\* pullImage or ContainerCreate fails; it also does once the IDs run out.
CreateFails ==
    /\ dpc = "create"
    /\ IF \E c \in Cids : cstate[c] = "absent"
         THEN Fault ELSE UNCHANGED faults
    /\ dpc' = "release"
    /\ UNCHANGED <<status, running, todo, count, dproj, dcid, notDispatch,
                   daemon>>

StartContainer ==
    /\ dpc = "start"
    /\ cstate' = [cstate EXCEPT ![dcid] = "running"]
    /\ dpc' = "record"
    /\ UNCHANGED <<status, cproj, cfail, aged, events, running, todo, count,
                   dproj, dcid, faults, notDispatch>>

\* ContainerStart fails; the error of the ContainerRemove after it is ignored.
StartFails ==
    /\ dpc = "start" /\ Fault
    /\ \E s \in {"created", "removed"} : cstate' = [cstate EXCEPT ![dcid] = s]
    /\ dpc' = "release"
    /\ UNCHANGED <<status, cproj, cfail, aged, events, running, todo, count,
                   dproj, dcid, notDispatch>>

Release ==
    /\ dpc = "release"
    /\ Delete(dproj)
    /\ dpc' = "loop" /\ dproj' = None /\ dcid' = None
    /\ UNCHANGED <<status, todo, count, faults, notDispatch, daemon>>

Record ==
    /\ dpc = "record"
    /\ running' = [running EXCEPT ![dproj] = dcid]
    /\ dpc' = "mark"
    /\ UNCHANGED <<status, todo, count, dproj, dcid, faults, notDispatch,
                   daemon>>

\* A write of projects.status whose error is only logged.
Write(p, s) ==
    \/ status' = [status EXCEPT ![p] = s] /\ UNCHANGED faults
    \/ Fault /\ UNCHANGED status

\* Mutant: the started container is not counted.
UncountedDispatch == count
Dispatched == count + 1

Mark ==
    /\ dpc = "mark"
    /\ Write(dproj, "running")
    /\ count' = Dispatched
    /\ dpc' = "loop" /\ dproj' = None /\ dcid' = None
    /\ UNCHANGED <<running, todo, notDispatch, daemon>>

-----------------------------------------------------------------------------
(* handleContainerExit, run by a goroutine per event and by the reconciler *)

\* listenEvents hands one event to a goroutine when the exit pool has room.
HandleEvent(h, c) ==
    /\ hpc[h] = "idle" /\ c \in events
    /\ events' = events \ {c}
    /\ hpc' = [hpc EXCEPT ![h] = "find"]
    /\ hcid' = [hcid EXCEPT ![h] = c]
    /\ UNCHANGED <<status, cstate, cproj, cfail, aged, running, hproj,
                   reports, faults, notExit>>

Goto(h, pc) == hpc' = [hpc EXCEPT ![h] = pc]

\* The function returns and its locals are gone.
Return(h) ==
    /\ Goto(h, "idle")
    /\ hcid' = [hcid EXCEPT ![h] = None]
    /\ hproj' = [hproj EXCEPT ![h] = None]

\* The scan of the running map finds a project that holds this container.
FindTracked(h) ==
    /\ hpc[h] = "find"
    /\ \E p \in Projects : /\ running[p] = hcid[h]
                           /\ hproj' = [hproj EXCEPT ![h] = p]
    /\ Goto(h, "inspect")
    /\ UNCHANGED <<status, running, hcid, reports, faults, notExit, daemon>>

\* It finds none: the label of the container names the project, if the
\* container can still be inspected.
FindByLabel(h) ==
    /\ hpc[h] = "find" /\ \A p \in Projects : running[p] # hcid[h]
    /\ \/ /\ cstate[hcid[h]] # "removed"
          /\ hproj' = [hproj EXCEPT ![h] = cproj[hcid[h]]]
          /\ Goto(h, "inspect") /\ UNCHANGED <<hcid, faults>>
       \/ /\ IF cstate[hcid[h]] = "removed" THEN UNCHANGED faults ELSE Fault
          /\ Return(h)
    /\ UNCHANGED <<status, running, reports, notExit, daemon>>

\* The exit code is read and the outcome goes to reporter.Report.
Inspect(h) ==
    /\ hpc[h] = "inspect" /\ cstate[hcid[h]] # "removed"
    /\ reports' = [reports EXCEPT ![hcid[h]] = @ + 1]
    /\ Goto(h, "update")
    /\ UNCHANGED <<status, running, hcid, hproj, faults, notExit, daemon>>

\* The slot is given up, whatever it holds, and the status stays as it is.
InspectFails(h) ==
    /\ hpc[h] = "inspect"
    /\ IF cstate[hcid[h]] = "removed" THEN UNCHANGED faults ELSE Fault
    /\ Delete(hproj[h])
    /\ Return(h)
    /\ UNCHANGED <<status, reports, notExit, daemon>>

\* Mutants: the exit code test is inverted; a status the API does not know.
InvertedVerdict(c) == IF c \in cfail THEN "completed" ELSE "failed"
UnknownVerdict(c) == IF c \in cfail THEN "error" ELSE "completed"
Verdict(c) == IF c \in cfail THEN "failed" ELSE "completed"

Update(h) ==
    /\ hpc[h] = "update"
    /\ Write(hproj[h], Verdict(hcid[h]))
    /\ Goto(h, "delete")
    /\ UNCHANGED <<running, hcid, hproj, reports, notExit, daemon>>

\* delete(e.running, project) does not look at the container it holds.
FreeSlot(h) ==
    /\ hpc[h] = "delete"
    /\ Delete(hproj[h])
    /\ Goto(h, "remove")
    /\ UNCHANGED <<status, hcid, hproj, reports, faults, notExit, daemon>>

Remove(h) ==
    /\ hpc[h] = "remove"
    /\ \/ /\ cstate' = [cstate EXCEPT ![hcid[h]] = "removed"]
          /\ UNCHANGED faults
       \/ Fault /\ UNCHANGED cstate
    /\ Return(h)
    /\ UNCHANGED <<status, cproj, cfail, aged, events, running, reports,
                   notExit>>

-----------------------------------------------------------------------------
(* reconcileLoop: one goroutine *)

\* Mutants: the state test is dropped, or its listing is not looked at.
ListedNotStopped == {c \in Cids : cstate[c] \in {"created", "running"}}
ListedAny == {c \in Cids : cstate[c] \notin {"absent", "removed"}}
ListedNone == {}
ListedRunning == {c \in Cids : cstate[c] = "running"}
ListedStopped == {c \in Cids : cstate[c] = "exited"}

\* ContainerList: the states the pass works from are the ones listed here.
\* A pass that lists nothing does nothing.
ReconcileList ==
    /\ rpc = "idle"
    /\ rlive' = ListedRunning
    /\ rdone' = ListedStopped
    /\ rlive' \cup rdone' # {}
    /\ rpc' = "track"
    /\ disturbed' = TRUE
    /\ UNCHANGED <<status, running, rcur, faults, notReconcile, daemon,
                   hvars>>

\* The copy of the running map: a running container found in it is skipped.
ReconcileTracked ==
    /\ rpc = "track"
    /\ rlive' = {c \in rlive : \A p \in Projects : running[p] # c}
    /\ rpc' = "scan"
    /\ UNCHANGED <<status, running, rdone, rcur, disturbed, faults,
                   notReconcile, daemon, hvars>>

Scanning == rpc = "scan" /\ hpc[Reconciler] = "idle"

\* Tracked or not, a container listed as exited is processed here.
ReconcileExit(c) ==
    /\ Scanning /\ c \in rdone
    /\ rdone' = rdone \ {c}
    /\ Goto(Reconciler, "find")
    /\ hcid' = [hcid EXCEPT ![Reconciler] = c]
    /\ UNCHANGED <<status, running, hproj, rpc, rlive, rcur, disturbed,
                   faults, notReconcile, daemon>>

\* An untracked container listed as running takes its project's slot.
Adopt(c) ==
    /\ Scanning /\ c \in rlive /\ c \notin aged
    /\ rlive' = rlive \ {c}
    /\ running' = [running EXCEPT ![cproj[c]] = c]
    /\ rcur' = c
    /\ rpc' = "sync"
    /\ UNCHANGED <<status, rdone, disturbed, faults, notReconcile, daemon,
                   hvars>>

AdoptSync ==
    /\ rpc = "sync"
    /\ Write(cproj[rcur], "running")
    /\ rpc' = "scan"
    /\ UNCHANGED <<running, rlive, rdone, rcur, disturbed, notReconcile,
                   daemon, hvars>>

\* ContainerKill on a timed-out orphan; its error is ignored.
KillOrphan(c) ==
    /\ Scanning /\ c \in rlive /\ c \in aged
    /\ rlive' = rlive \ {c}
    /\ \/ Live(c) /\ Dies(c, TRUE) /\ UNCHANGED faults
       \/ ~Live(c) /\ UNCHANGED <<cstate, cfail, events, faults>>
       \/ Live(c) /\ Fault /\ UNCHANGED <<cstate, cfail, events>>
    /\ UNCHANGED <<status, cproj, aged, running, rpc, rdone, rcur, disturbed,
                   notReconcile, hvars>>

ReconcileEnd ==
    /\ Scanning /\ rlive = {} /\ rdone = {}
    /\ rpc' = "idle"
    /\ UNCHANGED <<status, running, rlive, rdone, rcur, disturbed, faults,
                   notReconcile, daemon, hvars>>

-----------------------------------------------------------------------------
(* The process *)

\* The operator dies at any point and is started again: memory is fresh, and
\* the events emitted in between are not replayed by the daemon.
Restart ==
    /\ restarts < MaxRestarts
    /\ restarts' = restarts + 1
    /\ disturbed' = TRUE
    /\ running' = [p \in Projects |-> Free]
    /\ dpc' = "idle" /\ todo' = {} /\ count' = 0
    /\ dproj' = None /\ dcid' = None
    /\ hpc' = [h \in AllHandlers |-> "idle"]
    /\ hcid' = [h \in AllHandlers |-> None]
    /\ hproj' = [h \in AllHandlers |-> None]
    /\ rpc' = "idle" /\ rlive' = {} /\ rdone' = {} /\ rcur' = None
    /\ events' = {}
    /\ UNCHANGED <<status, cstate, cproj, cfail, aged, reports, faults,
                   requests>>

\* A fresh database and daemon: ReconcileProjects inserted every row scheduled.
Init ==
    /\ status = [p \in Projects |-> "scheduled"]
    /\ cstate = [c \in Cids |-> "absent"]
    /\ cproj = [c \in Cids |-> None]
    /\ cfail = {} /\ aged = {} /\ events = {}
    /\ running = [p \in Projects |-> Free]
    /\ dpc = "idle" /\ todo = {} /\ count = 0
    /\ dproj = None /\ dcid = None
    /\ hpc = [h \in AllHandlers |-> "idle"]
    /\ hcid = [h \in AllHandlers |-> None]
    /\ hproj = [h \in AllHandlers |-> None]
    /\ rpc = "idle" /\ rlive = {} /\ rdone = {} /\ rcur = None
    /\ reports = [c \in Cids |-> 0]
    /\ disturbed = FALSE
    /\ restarts = 0 /\ faults = 0 /\ requests = 0

DispatchStep ==
    \/ DispatchTick \/ Query \/ EndPass \/ CreateFails \/ StartContainer
    \/ StartFails \/ Release \/ Record \/ Mark
    \/ \E p \in Projects : SkipRunning(p) \/ Reserve(p)
    \/ \E c \in Cids : CreateContainer(c)

ExitStep(h) ==
    \/ FindTracked(h) \/ FindByLabel(h) \/ Inspect(h) \/ InspectFails(h)
    \/ Update(h) \/ FreeSlot(h) \/ Remove(h)

ReconcileStep ==
    \/ ReconcileList \/ ReconcileTracked \/ AdoptSync \/ ReconcileEnd
    \/ \E c \in Cids : ReconcileExit(c) \/ Adopt(c) \/ KillOrphan(c)

Environment ==
    \/ \E p \in Projects : Schedule(p) \/ Cancel(p)
    \/ \E c \in Cids : ContainerExit(c) \/ Age(c)
    \/ LoseEvents \/ Restart

Next ==
    \/ Environment
    \/ DispatchStep
    \/ \E h \in Handlers, c \in Cids : HandleEvent(h, c)
    \/ \E h \in AllHandlers : ExitStep(h)
    \/ ReconcileStep

Spec == Init /\ [][Next]_vars

\* Every goroutine that can take a step takes one: the loops are driven by
\* tickers and the Docker and database calls return.  The reconciler handles
\* exits inline.
Fairness ==
    /\ WF_vars(DispatchStep)
    /\ \A h \in Handlers :
          WF_vars(ExitStep(h) \/ \E c \in Cids : HandleEvent(h, c))
    /\ WF_vars(ReconcileStep \/ ExitStep(Reconciler))

FairSpec == Spec /\ Fairness

-----------------------------------------------------------------------------
(* Properties *)

TypeOK ==
    /\ status \in [Projects -> Statuses]
    /\ cstate \in [Cids -> CStates]
    /\ cproj \in [Cids -> Projects \cup {None}]
    /\ cfail \subseteq Cids /\ aged \subseteq Cids /\ events \subseteq Cids
    /\ running \in [Projects -> Cids \cup {Free, Reserved}]
    /\ dpc \in {"idle", "query", "loop", "create", "start", "record", "mark",
                "release"}
    /\ todo \subseteq Projects /\ count \in Nat
    /\ dproj \in Projects \cup {None} /\ dcid \in Cids \cup {None}
    /\ hpc \in [AllHandlers -> {"idle", "find", "inspect", "update", "delete",
                                "remove"}]
    /\ hcid \in [AllHandlers -> Cids \cup {None}]
    /\ hproj \in [AllHandlers -> Projects \cup {None}]
    /\ rpc \in {"idle", "track", "scan", "sync"}
    /\ rlive \subseteq Cids /\ rdone \subseteq Cids /\ rcur \in Cids \cup {None}
    /\ reports \in [Cids -> Nat]
    /\ disturbed \in BOOLEAN
    /\ restarts \in Nat /\ faults \in Nat /\ requests \in Nat

\* A slot of the running map only ever names a container that was started for
\* that very project, whoever wrote it: dispatch, adoption from a stale list,
\* or both in any order.  StreamContainerLogs and Stop rely on it.
SlotHoldsOwnContainer ==
    \A p \in Projects : running[p] \in Cids =>
        cproj[running[p]] = p /\ Started(running[p])

\* ContainerRemove is called with Force, which kills: no interleaving of stale
\* lists, late events and dispatch failures removes a container that still
\* runs, and a removed container is gone for good.
NeverRemovesLive ==
    [][\A c \in Cids :
         /\ (Live(c) => cstate'[c] \in {"running", "exited"})
         /\ (cstate[c] = "removed" => cstate'[c] = "removed")]_vars

\* A row becomes completed or failed only on the evidence of a container of
\* that project that has exited with that verdict.
VerdictHasEvidence ==
    [][\A p \in Projects :
         (status'[p] # status[p] /\ status'[p] \in {"completed", "failed"}) =>
           \E c \in Cids : /\ cproj[c] = p /\ cstate[c] \in {"exited", "removed"}
                           /\ (status'[p] = "failed" <=> c \in cfail)]_vars

\* Until a reconcile pass or a crash has disturbed the process, the containers
\* that run never outnumber ROP_PARALLELISM (README.md:91), although the loop
\* checks a count it read before its passes through the daemon.
ParallelismUndisturbed ==
    ~disturbed => Cardinality({c \in Cids : Live(c)}) <= Parallelism

\* Until then too, two containers of one project never run at the same time
\* (README.md:345) and no exit is reported twice to the circuit breaker.
OnePerProjectUndisturbed ==
    ~disturbed => \A c, d \in Cids :
        (Live(c) /\ Live(d) /\ cproj[c] = cproj[d]) => c = d

ReportedOnceUndisturbed ==
    ~disturbed => \A c \in Cids : reports[c] <= 1

\* The operator has still to do something about c: it runs and its project's
\* slot does not name it, or it has exited and is not removed.
Unsettled(c) ==
    \/ Live(c) /\ running[cproj[c]] # c
    \/ cstate[c] = "exited"

Settled(c) ==
    \/ Live(c) /\ running[cproj[c]] = c
    \/ cstate[c] = "removed" /\ reports[c] > 0

\* Lost events, failed calls and a crash notwithstanding, an orphan gets its
\* project's slot or ends, and every exit, seen or missed, is in the end reported
\* to the breaker and cleaned up.
CrashSettled == \A c \in Cids : Unsettled(c) ~> Settled(c)

\* How far a container has come, as ContainerLife counts it.
life ==
    [c \in Cids |->
        CASE cstate[c] = "exited" /\ reports[c] > 0 -> "reported"
          [] cstate[c] = "removed" /\ reports[c] = 0 -> "abandoned"
          [] OTHER -> cstate[c]]

Life == INSTANCE ContainerLife WITH owner <- cproj, bad <- cfail, row <- status

\* Whatever dispatch, late events, reconcile passes, requests and crashes do to
\* each other, what is seen of containers and rows is what ContainerLife allows:
\* nothing is removed before it ended and was reported, and every status shown
\* has the container that justifies it.
ImplementsLife == Life!Spec
=============================================================================
