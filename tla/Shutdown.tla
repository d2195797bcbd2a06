------------------------------- MODULE Shutdown -------------------------------
(***************************************************************************)
(* The end of a process, src/cmd/main.go:209-247, around the executor and  *)
(* the discovery runs it finds at work: the signal, the HTTP server and    *)
(* the cron scheduler that are given some time, the cancelled main         *)
(* context, and DockerExecutor.Stop, which stops the containers it finds   *)
(* in the running map.  The goroutines of Executor go on meanwhile.        *)
(*                                                                         *)
(* A Docker or database call that begins once its context is cancelled has *)
(* no effect and fails.  One that was in flight may have had its effect,   *)
(* and may still return without an error.                                  *)
(***************************************************************************)
EXTENDS Executor

CONSTANTS
    Main, Background,  \* the contexts: main's, and that of an API discovery
    Dispatcher,        \* the goroutine of dispatchLoop
    Discovery          \* one that runs a discovery

Goroutines == AllHandlers \cup {Dispatcher, Discovery}

ASSUME NameAssumption ==
    /\ Main # Background /\ Dispatcher # Discovery
    /\ {Dispatcher, Discovery} \cap AllHandlers = {}

VARIABLES
    mpc,       \* how far run has come after its signal
    cut,       \* the cancelled contexts
    stopped,   \* stopCh is closed
    fatal,     \* a Guard has called os.Exit
    inflight,  \* goroutines whose call began before its context was cancelled
    copy,      \* Stop's copy of the running map, less what it is done with
    held,      \* history: the containers in that copy
    late,      \* history: projects marked running after their exit was written
    xpc,       \* how far the discovery run is
    xctx,      \* its context: Main for a cron cycle's, Background for the API's
    xstate,    \* the daemon's state of its container
    xcut       \* history: it met its cancelled context

mvars   == <<mpc, cut, stopped, copy, held>>
xvars   == <<xpc, xctx, xstate, xcut>>
svars   == <<mvars, fatal, inflight, late, xvars>>
allVars == <<vars, svars>>

Ctx(g) == IF g = Discovery THEN xctx ELSE Main
Cut(g) == Ctx(g) \in cut
Alive  == mpc # "gone"

-----------------------------------------------------------------------------
(* The executor's goroutines *)

\* One finishes a step; a call only as long as it can have begun in time.
Finishes(g) == inflight' = inflight \ {g} /\ Alive
Calls(g)    == (Cut(g) => g \in inflight) /\ Finishes(g)

\* The container has ended, and that has been written or is removed.
Over(c) ==
    \/ cstate[c] = "removed"
    \/ \E h \in AllHandlers : hcid[h] = c /\ hpc[h] \in {"delete", "remove"}
MarksLate(c) ==
    late' = IF status' # status /\ Over(c) THEN late \cup {cproj[c]} ELSE late

Dispatching ==
    \/ /\ Calls(Dispatcher)
       /\ \/ DispatchTick \/ Query \/ CreateFails \/ StartContainer \/ StartFails
          \/ \E c \in Cids : CreateContainer(c)
       /\ UNCHANGED late
    \/ Calls(Dispatcher) /\ Mark /\ MarksLate(dcid)
    \/ /\ Finishes(Dispatcher)
       /\ Release \/ Record \/ EndPass \/ \E p \in Projects : SkipRunning(p) \/ Reserve(p)
       /\ UNCHANGED late

Exiting(h) ==
    /\ \/ Calls(h) /\ (FindByLabel(h) \/ Inspect(h) \/ InspectFails(h) \/ Update(h))
       \/ Calls(h) /\ Remove(h)
       \/ Finishes(h) /\ (FindTracked(h) \/ FreeSlot(h))
    /\ UNCHANGED late

Reconciling ==
    \/ /\ Calls(Reconciler)
       /\ ReconcileList \/ \E c \in Cids : KillOrphan(c)
       /\ UNCHANGED late
    \/ Calls(Reconciler) /\ AdoptSync /\ MarksLate(rcur)
    \/ /\ Finishes(Reconciler)
       /\ ReconcileTracked \/ ReconcileEnd \/ \E c \in Cids : ReconcileExit(c) \/ Adopt(c)
       /\ UNCHANGED late

\* listenEvents: its select may take any number of events before ctx.Done.  That
\* the other loops return is no step: no pass begins under a cancelled context.
Receiving ==
    /\ Alive
    /\ \E h \in Handlers, c \in Cids : HandleEvent(h, c)
    /\ UNCHANGED <<inflight, late>>

\* What the daemon may or may not have done for a call that returns an error.
Effect(g, c, s) ==
    \/ UNCHANGED cstate
    \/ g \in inflight /\ cstate' = [cstate EXCEPT ![c] = s]

\* A dispatch is cut off: the pass ends, or its slot is released; the removal
\* of a container that was not started is a call of the same context.
DispatchCut ==
    /\ Cut(Dispatcher) /\ Finishes(Dispatcher)
    /\ \/ /\ dpc = "query"
          /\ dpc' = "idle"
          /\ UNCHANGED <<cstate, cproj, dproj, dcid, count>>
       \/ /\ dpc = "create"
          /\ \/ UNCHANGED <<cstate, cproj>>
             \/ \E c \in Cids : /\ Dispatcher \in inflight /\ cstate[c] = "absent"
                                /\ cstate' = [cstate EXCEPT ![c] = "created"]
                                /\ cproj' = [cproj EXCEPT ![c] = dproj]
          /\ dpc' = "release"
          /\ UNCHANGED <<dproj, dcid, count>>
       \/ /\ dpc = "start"
          /\ Effect(Dispatcher, dcid, "running")
          /\ dpc' = "release"
          /\ UNCHANGED <<cproj, dproj, dcid, count>>
       \/ /\ dpc = "mark"
          /\ dpc' = "loop" /\ dproj' = None /\ dcid' = None /\ count' = count + 1
          /\ UNCHANGED <<cstate, cproj>>
    /\ UNCHANGED <<status, cfail, aged, events, running, todo, faults, notDispatch>>

\* An exit handler is cut off: the write of the status and the removal both
\* fail, and the slot is given up.
ExitCut(h) ==
    /\ Cut(h) /\ Finishes(h)
    /\ \/ hpc[h] = "find" /\ (\A p \in Projects : running[p] # hcid[h])
          /\ Return(h) /\ UNCHANGED <<cstate, running>>
       \/ hpc[h] = "inspect" /\ Delete(hproj[h]) /\ Return(h) /\ UNCHANGED cstate
       \/ hpc[h] = "update" /\ Goto(h, "delete")
          /\ UNCHANGED <<cstate, running, hcid, hproj>>
       \/ hpc[h] = "remove" /\ Effect(h, hcid[h], "removed") /\ Return(h)
          /\ UNCHANGED running
    /\ UNCHANGED <<status, cproj, cfail, aged, events, reports, faults, notExit>>

\* A reconcile pass is cut off: rows are not synced and nothing is killed.
ReconcileCut ==
    /\ Cut(Reconciler) /\ Finishes(Reconciler)
    /\ \/ rpc = "sync" /\ rpc' = "scan" /\ UNCHANGED rlive
       \/ Scanning /\ (\E c \in rlive \cap aged : rlive' = rlive \ {c}) /\ UNCHANGED rpc
    /\ UNCHANGED <<status, daemon, running, rdone, rcur, disturbed, faults,
                   notReconcile, hvars>>

\* Mutant: the removal is given a context that is not cancelled.
RemoveOnBackground(h) ==
    \/ Remove(h) /\ Finishes(h) /\ UNCHANGED late
    \/ ExitCut(h) /\ UNCHANGED late
ExitsCut(h) == ExitCut(h) /\ UNCHANGED late

ExecutorStep ==
    /\ \/ Dispatching \/ Receiving \/ Reconciling
       \/ \E h \in AllHandlers : Exiting(h) \/ ExitsCut(h)
       \/ (DispatchCut \/ ReconcileCut) /\ UNCHANGED late
    /\ UNCHANGED <<mvars, fatal, xvars>>

\* Requests that are still being answered, and the daemon.
Outside ==
    /\ Alive
    /\ \/ \E p \in Projects : Schedule(p) \/ Cancel(p)
       \/ \E c \in Cids : ContainerExit(c) \/ Age(c)
       \/ LoseEvents
    /\ UNCHANGED svars

-----------------------------------------------------------------------------
(* Discovery runs: DispatchDiscovery and runDiscoveryContainer *)

To(pc, s) == xpc' = pc /\ xstate' = s
At(pc)    == xpc = pc /\ Calls(Discovery) /\ UNCHANGED <<xctx, xcut>>

DiscoveryBegins ==
    /\ xpc \in {"none", "done"} /\ mpc \in {"serving", "http"} /\ xstate = "absent"
    /\ To("create", "absent")
    /\ xctx' \in {Main, Background}
    /\ UNCHANGED <<inflight, xcut, faults>>

DiscoveryCreates ==
    /\ At("create")
    /\ \/ To("start", "created") /\ UNCHANGED faults
       \/ To("done", "absent") /\ Fault

DiscoveryStarts ==
    /\ At("start")
    /\ \/ To("wait", "running") /\ UNCHANGED faults
       \/ To("remove", "created") /\ Fault

\* ContainerWait answers or fails; whatever the exit code and the logs, removal
\* follows, which kills a container that still runs.
DiscoveryEnds ==
    /\ At("wait")
    /\ \/ xstate = "exited" /\ UNCHANGED faults
       \/ Fault
    /\ To("remove", xstate)

\* Mutant: the removal is given up for a run that has exited by itself.
KeepsExited ==
    /\ At("remove")
    /\ To("done", IF xstate = "exited" THEN xstate ELSE "absent")
    /\ UNCHANGED faults
\* The error of ContainerRemove is ignored.
DiscoveryRemoves ==
    /\ At("remove")
    /\ \/ To("done", "absent") /\ UNCHANGED faults
       \/ To("done", xstate) /\ Fault

\* ctx.Done, or a call that fails of it: the removal has the same context.
DiscoveryCut ==
    /\ Cut(Discovery) /\ Finishes(Discovery)
    /\ \/ xpc = "create" /\ \/ To("done", "absent")
                            \/ Discovery \in inflight /\ To("done", "created")
       \/ xpc = "start" /\ \/ To("done", "created")
                           \/ Discovery \in inflight /\ To("done", "running")
       \/ xpc = "wait" /\ To("done", xstate)
       \/ xpc = "remove" /\ \/ To("done", xstate)
                            \/ Discovery \in inflight /\ To("done", "absent")
    /\ xcut' = TRUE
    /\ UNCHANGED <<xctx, faults>>

DiscoveryExits ==
    /\ Alive /\ xstate = "running"
    /\ To(xpc, "exited")
    /\ UNCHANGED <<inflight, xctx, xcut, faults>>

DiscoveryStep ==
    /\ \/ DiscoveryBegins \/ DiscoveryCreates \/ DiscoveryStarts \/ DiscoveryEnds
       \/ DiscoveryRemoves \/ DiscoveryCut \/ DiscoveryExits
    /\ UNCHANGED <<db, daemon, operator, disturbed, restarts, requests,
                   mvars, fatal, late>>

-----------------------------------------------------------------------------
(* run, after the signal *)

\* What the steps of run leave alone.
others == <<fatal, late, xvars, db, daemon, dvars, hvars, rvars, reports,
            disturbed, restarts, requests>>

Signal ==
    /\ mpc = "serving" /\ mpc' = "http"
    /\ UNCHANGED <<cut, stopped, copy, held, inflight, running, faults, others>>

\* srv.Shutdown: the handlers have answered, or ten seconds are over.
HttpDown ==
    /\ mpc = "http" /\ mpc' = "cron"
    /\ UNCHANGED <<cut, stopped, copy, held, inflight, running, faults, others>>

\* Mutant: the cycle in progress is waited for without a limit.
CronDownWhenIdle ==
    /\ mpc = "cron" /\ mpc' = "cancel"
    /\ xctx = Main => xpc \in {"none", "done"}
    /\ UNCHANGED <<cut, stopped, copy, held, inflight, running, faults, others>>
\* sched.Stop: the cycle in progress has ended, or sixty seconds are over.
CronDown ==
    /\ mpc = "cron" /\ mpc' = "cancel"
    /\ UNCHANGED <<cut, stopped, copy, held, inflight, running, faults, others>>

\* The goroutines that may be in the middle of a call of this context.
InCall(ctx) ==
    {g \in Goroutines :
        /\ Ctx(g) = ctx
        /\ \/ g = Dispatcher /\ dpc \in {"query", "create", "start", "mark"}
           \/ g \in AllHandlers /\ hpc[g] \in {"find", "inspect", "update", "remove"}
           \/ g = Reconciler /\ rpc \in {"scan", "sync"}
           \/ g = Discovery /\ xpc \in {"create", "start", "remove"}}

\* Mutant: stopCh is closed before the context is cancelled.
CancelAfterClose ==
    /\ mpc = "cancel"
    /\ IF stopped
         THEN /\ mpc' = "stop" /\ cut' = cut \cup {Main}
              /\ inflight' = inflight \cup InCall(Main)
              /\ UNCHANGED stopped
         ELSE stopped' = TRUE /\ UNCHANGED <<mpc, cut, inflight>>
    /\ UNCHANGED <<copy, held, running, faults, others>>
\* ctxCancel()
CancelMain ==
    /\ mpc = "cancel" /\ mpc' = "stop"
    /\ cut' = cut \cup {Main}
    /\ inflight' = inflight \cup InCall(Main)
    /\ UNCHANGED <<stopped, copy, held, running, faults, others>>

\* The goroutine that waits for stopCh beside an API run calls bgCancel.
CancelBackground ==
    /\ Alive /\ stopped /\ Background \notin cut
    /\ xctx = Background /\ xpc \notin {"none", "done"}
    /\ cut' = cut \cup {Background}
    /\ inflight' = inflight \cup InCall(Background)
    /\ UNCHANGED <<mpc, stopped, copy, held, running, faults, others>>

\* exec.Stop: stopCh is closed and the running map copied.
BeginStop ==
    /\ mpc = "stop" /\ mpc' = "stopping"
    /\ stopped' = TRUE
    /\ copy' = running
    /\ held' = {running[p] : p \in Projects} \cap Cids
    /\ UNCHANGED <<cut, inflight, running, faults, others>>

\* ContainerStop, or ContainerKill if that fails; for a reserved slot, whose
\* container ID is "", both fail.  The slot is deleted whatever it holds now.
StopContainer(p) ==
    /\ mpc = "stopping" /\ copy[p] # Free
    /\ copy' = [copy EXCEPT ![p] = Free]
    /\ Delete(p)
    /\ \/ /\ copy[p] \in Cids /\ Live(copy[p])
          /\ \E failed \in BOOLEAN : Dies(copy[p], failed)
          /\ UNCHANGED faults
       \/ /\ copy[p] \in Cids /\ Live(copy[p]) /\ Fault
          /\ UNCHANGED <<cstate, cfail, events>>
       \/ /\ copy[p] \in Cids => ~Live(copy[p])
          /\ UNCHANGED <<cstate, cfail, events, faults>>
    /\ UNCHANGED <<mpc, cut, stopped, held, inflight, fatal, late, xvars,
                   status, cproj, aged, dvars, hvars, rvars, reports, disturbed,
                   restarts, requests>>

\* Mutant: the containers are stopped by goroutines nobody waits for.
ExitAtOnce ==
    /\ mpc = "stopping"
    /\ mpc' = "gone"
    /\ UNCHANGED <<cut, stopped, copy, held, inflight, running, faults, others>>
\* run returns and the process is gone, with the goroutines it still has.
Exit ==
    /\ mpc = "stopping" /\ \A p \in Projects : copy[p] = Free
    /\ mpc' = "gone"
    /\ UNCHANGED <<cut, stopped, copy, held, inflight, running, faults, others>>

\* A loop of the executor takes stopCh or its context's end and returns; if the
\* context is live then, the loop's Guard ends the process.
LoopReturns ==
    /\ Alive /\ (stopped \/ Main \in cut)
    /\ IF Main \in cut THEN UNCHANGED <<fatal, mpc>> ELSE fatal' = TRUE /\ mpc' = "gone"
    /\ UNCHANGED <<vars, cut, stopped, copy, held, inflight, late, xvars>>

MainStep ==
    \/ Signal \/ HttpDown \/ CronDown \/ CancelMain \/ BeginStop \/ Exit
    \/ \E p \in Projects : StopContainer(p)

ShutdownInit ==
    /\ Init
    /\ mpc = "serving" /\ cut = {} /\ stopped = FALSE
    /\ fatal = FALSE /\ inflight = {} /\ held = {} /\ late = {}
    /\ copy = [p \in Projects |-> Free]
    /\ xpc = "none" /\ xctx = Main /\ xstate = "absent" /\ xcut = FALSE

ShutdownNext ==
    \/ ExecutorStep \/ Outside \/ DiscoveryStep \/ MainStep \/ CancelBackground
    \/ LoopReturns

\* Once signalled, run takes its steps: every wait of it is bounded and the
\* daemon answers ContainerStop after its grace period.
ShutdownSpec ==
    /\ ShutdownInit /\ [][ShutdownNext]_allVars
    /\ WF_allVars(MainStep /\ mpc # "serving")

-----------------------------------------------------------------------------
(* Properties *)

ShutdownTypeOK ==
    /\ TypeOK
    /\ mpc \in {"serving", "http", "cron", "cancel", "stop", "stopping", "gone"}
    /\ cut \subseteq {Main, Background} /\ stopped \in BOOLEAN
    /\ fatal \in BOOLEAN
    /\ inflight \subseteq Goroutines
    /\ copy \in [Projects -> Cids \cup {Free, Reserved}]
    /\ held \subseteq Cids /\ late \subseteq Projects
    /\ xpc \in {"none", "create", "start", "wait", "remove", "done"}
    /\ xctx \in {Main, Background} /\ xstate \in CStates /\ xcut \in BOOLEAN

\* A requested shutdown is never taken for the failure of a loop, which would
\* end the process with code 1 before its containers are stopped.
NoGuardFires == ~fatal

\* No container that held a slot when Stop looked runs on without an operator:
\* what the goroutines still do to the running map meanwhile does not save it.
\* Those that held none, adopted or started too late, are not spoken of.
StopsWhatItHeld ==
    (mpc = "gone" /\ faults = 0) => \A c \in held : ~Live(c)

\* The work of a handler that was cut off is never lost: a row left running
\* names a project whose container is still there for the next start's
\* reconciler, unless the row was marked late already.
RowsRecoverable ==
    (mpc = "gone" /\ faults = 0) =>
        \A p \in Projects \ late : status[p] = "running" =>
            \E c \in Cids : cproj[c] = p /\ cstate[c] \in {"running", "exited"}

\* A discovery container outlives the process only if its run was still under
\* way then: nothing looks for it after the next start.
DiscoveryLeftovers ==
    (faults = 0 /\ xpc = "done" /\ xstate # "absent") => xcut

\* A signal ends the process, whatever dispatches, handlers and discoveries do.
Exits == mpc = "http" ~> mpc = "gone"
===============================================================================
