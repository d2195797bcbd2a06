---------------------------- MODULE ShutdownProofs ----------------------------
(***************************************************************************)
(* Proofs about Shutdown, for any projects, container IDs, pool size and   *)
(* bounds.  A step of ShutdownNext is a step of the executor, a step that  *)
(* the cancelled context cut off, a container stopped by Stop, or one that *)
(* the executor's state does not see; the lemmas of ExecutorProofs are     *)
(* cited for the first.                                                    *)
(***************************************************************************)
EXTENDS Shutdown, ExecutorProofs

USE DEF daemon, dvars, hvars, rvars, bounds, operator, notDispatch, notExit,
        notReconcile, mvars, xvars, svars, db, others

\* The executor's variables that its invariants speak of.
core == <<status, cstate, cproj, cfail, aged, events, running, dvars, hvars, rvars,
          reports, disturbed, restarts, requests>>

CutStep == DispatchCut \/ ReconcileCut \/ \E h \in AllHandlers : ExitCut(h)

\* What ShutdownNext does to the executor, and to late with it.
Kinds ==
    \/ Next
    \/ CutStep
    \/ \E p \in Projects : StopContainer(p)
    \/ UNCHANGED core /\ faults' \in Nat

-----------------------------------------------------------------------------
(* The executor's invariants *)

LEMMA StepKinds == IInv /\ [ShutdownNext]_allVars => Kinds
<1> SUFFICES ASSUME IInv, [ShutdownNext]_allVars PROVE Kinds
    OBVIOUS
<1> USE DEF Kinds
<1>0. faults \in Nat
    BY DEF IInv, TypeOK
<1>1. CASE ExecutorStep
  <2>1. Dispatching => DispatchStep
    BY DEF Dispatching, DispatchStep
  <2>2. \A h \in AllHandlers : Exiting(h) => ExitStep(h)
    BY DEF Exiting, ExitStep
  <2>3. Reconciling => ReconcileStep
    BY DEF Reconciling, ReconcileStep
  <2> QED
    BY <1>1, <2>1, <2>2, <2>3 DEF ExecutorStep, Receiving, ExitsCut, CutStep, Next
<1>2. CASE Outside
    BY <1>2 DEF Outside, Next, Environment
<1>3. CASE DiscoveryStep
  <2>1. faults' \in Nat
    BY <1>0, <1>3 DEF DiscoveryStep, DiscoveryBegins, DiscoveryCreates, DiscoveryStarts,
       DiscoveryEnds, DiscoveryRemoves, DiscoveryCut, DiscoveryExits, Fault
  <2> QED
    BY <1>3, <2>1 DEF DiscoveryStep, core
<1>4. CASE MainStep
    BY <1>0, <1>4 DEF MainStep, Signal, HttpDown, CronDown, CancelMain, BeginStop, Exit, core
<1>5. CASE CancelBackground \/ LoopReturns \/ UNCHANGED allVars
    BY <1>0, <1>5 DEF CancelBackground, LoopReturns, allVars, vars, core
<1> QED
    BY <1>1, <1>2, <1>3, <1>4, <1>5 DEF ShutdownNext

LEMMA StopKeeps ==
    ASSUME IInv, ReportInv, NEW p \in Projects, StopContainer(p)
    PROVE  IInv' /\ ReportInv'
<1> USE DEF IInv, TypeOK, Statuses, CStates, AllHandlers, Started, Stopped, Live,
            DispatchInv, ExitInv, ReconcileInv, SlotHoldsOwnContainer, Abandoned, ReportInv
<1>1. IInv'
    BY SlotAssumption DEF StopContainer, Delete, Dies, Fault
<1>2. ReportInv'
    BY SlotAssumption DEF StopContainer, Delete, Dies, Fault
<1> QED
    BY <1>1, <1>2

LEMMA CutKeeps ==
    ASSUME IInv, ReportInv, CutStep
    PROVE  IInv' /\ ReportInv'
<1> USE SlotAssumption DEF IInv, TypeOK, Statuses, CStates, AllHandlers, Started, Stopped,
            Live, DispatchInv, ExitInv, ReconcileInv, SlotHoldsOwnContainer, Abandoned,
            ReportInv
<1>1. CASE DispatchCut
  <2>1. IInv'
    BY <1>1 DEF DispatchCut, Effect
  <2>2. ReportInv'
    BY <1>1 DEF DispatchCut, Effect
  <2> QED
    BY <2>1, <2>2
<1>2. CASE ReconcileCut
  <2>1. IInv'
    BY <1>2 DEF ReconcileCut, Scanning
  <2>2. ReportInv'
    BY <1>2 DEF ReconcileCut, Scanning
  <2> QED
    BY <2>1, <2>2
<1>3. ASSUME NEW h \in AllHandlers, ExitCut(h) PROVE IInv' /\ ReportInv'
  <2>1. IInv'
    BY <1>3 DEF ExitCut, Return, Goto, Delete, Effect
  <2>2. ReportInv'
    BY <1>3 DEF ExitCut, Return, Goto, Delete, Effect
  <2> QED
    BY <2>1, <2>2
<1> QED
    BY <1>1, <1>2, <1>3 DEF CutStep

LEMMA CoreKeeps ==
    ASSUME IInv, ReportInv, UNCHANGED core, faults' \in Nat
    PROVE  IInv' /\ ReportInv'
<1>1. IInv'
    BY DEF core, IInv, TypeOK, Started, Stopped, DispatchInv, ExitInv, ReconcileInv,
       SlotHoldsOwnContainer
<1>2. ReportInv'
    BY DEF core, ReportInv, Abandoned, Stopped
<1> QED
    BY <1>1, <1>2

LEMMA ExecutorKeeps == IInv /\ ReportInv /\ [ShutdownNext]_allVars => (IInv /\ ReportInv)'
    BY StepKinds, InductiveStep, ReportStep, StopKeeps, CutKeeps, CoreKeeps DEF Kinds

LEMMA ExecutorStart == ShutdownInit => IInv /\ ReportInv
    BY InductiveInit DEF ShutdownInit, Init, ReportInv, AllHandlers

-----------------------------------------------------------------------------
(* Types, and the order of the steps of run *)

MainInv ==
    /\ mpc \in {"serving", "http", "cron", "cancel", "stop", "stopping", "gone"}
    /\ Main \in cut <=> mpc \in {"stop", "stopping", "gone"}
    /\ stopped => Main \in cut
    /\ fatal = FALSE
    /\ cut \subseteq {Main, Background} /\ stopped \in BOOLEAN
    /\ inflight \subseteq Goroutines
    /\ copy \in [Projects -> Cids \cup {Free, Reserved}]
    /\ held \subseteq Cids /\ late \subseteq Projects
    /\ xpc \in {"none", "create", "start", "wait", "remove", "done"}
    /\ xctx \in {Main, Background} /\ xstate \in CStates /\ xcut \in BOOLEAN

LEMMA MainStart == ShutdownInit => MainInv
    BY DEF ShutdownInit, MainInv, CStates

LEMMA MainKeeps == IInv /\ MainInv /\ [ShutdownNext]_allVars => MainInv'
<1> SUFFICES ASSUME IInv, MainInv, [ShutdownNext]_allVars PROVE MainInv'
    OBVIOUS
<1> USE NameAssumption DEF MainInv
<1>1. CASE ExecutorStep
  <2>1. \/ late' = late
        \/ \E c \in Cids : MarksLate(c) /\ cproj[c] \in Projects
        \/ \E c \in Cids : MarksLate(c) /\ status' = status
    BY <1>1 DEF ExecutorStep, Dispatching, Reconciling, Receiving, Exiting, ExitsCut, Mark,
       AdoptSync, IInv, TypeOK, DispatchInv, ReconcileInv, Started
  <2>2. late' \subseteq Projects
    BY <2>1 DEF MarksLate
  <2>3. inflight' \subseteq inflight
    BY <1>1 DEF ExecutorStep, Dispatching, Reconciling, Receiving, Exiting, ExitsCut,
       DispatchCut, ReconcileCut, ExitCut, Calls, Finishes
  <2> QED
    BY <1>1, <2>2, <2>3 DEF ExecutorStep
<1>2. CASE Outside
    BY <1>2 DEF Outside
<1>3. CASE DiscoveryStep
  <2>1. inflight' \subseteq inflight
    BY <1>3 DEF DiscoveryStep, DiscoveryBegins, DiscoveryCreates, DiscoveryStarts,
       DiscoveryEnds, DiscoveryRemoves, DiscoveryCut, DiscoveryExits, At, Calls, Finishes
  <2>2. /\ xctx' \in {Main, Background}
        /\ xcut' \in BOOLEAN
    BY <1>3 DEF DiscoveryStep, DiscoveryBegins, DiscoveryCreates, DiscoveryStarts,
       DiscoveryEnds, DiscoveryRemoves, DiscoveryCut, DiscoveryExits, At
  <2>3. /\ xpc' \in {"none", "create", "start", "wait", "remove", "done"}
        /\ xstate' \in CStates
    BY <1>3 DEF DiscoveryStep, DiscoveryBegins, DiscoveryCreates, DiscoveryStarts,
       DiscoveryEnds, DiscoveryRemoves, DiscoveryCut, DiscoveryExits, At, To, CStates
  <2> QED
    BY <1>3, <2>1, <2>2, <2>3 DEF DiscoveryStep
<1>4. CASE MainStep
  <2>1. InCall(Main) \subseteq Goroutines
    BY DEF InCall
  <2>2. CASE Signal \/ HttpDown \/ CronDown \/ Exit
    BY <2>2 DEF Signal, HttpDown, CronDown, Exit
  <2>3. CASE CancelMain
    BY <2>1, <2>3 DEF CancelMain
  <2>4. CASE BeginStop
    <3>1. running \in [Projects -> Cids \cup {Free, Reserved}]
      BY DEF IInv, TypeOK
    <3> QED
      BY <2>4, <3>1 DEF BeginStop
  <2>5. ASSUME NEW p \in Projects, StopContainer(p) PROVE MainInv'
    <3>1. copy' \in [Projects -> Cids \cup {Free, Reserved}]
      BY <2>5 DEF StopContainer
    <3> QED
      BY <2>5, <3>1 DEF StopContainer
  <2> QED
    BY <1>4, <2>2, <2>3, <2>4, <2>5 DEF MainStep
<1>5. CASE CancelBackground
    BY <1>5 DEF CancelBackground, InCall
<1>6. CASE LoopReturns
    BY <1>6 DEF LoopReturns
<1>7. CASE UNCHANGED allVars
    BY <1>7 DEF allVars
<1> QED
    BY <1>1, <1>2, <1>3, <1>4, <1>5, <1>6, <1>7 DEF ShutdownNext

LEMMA Established == ShutdownSpec => [](IInv /\ ReportInv /\ MainInv)
    BY ExecutorStart, MainStart, ExecutorKeeps, MainKeeps, PTL DEF ShutdownSpec

\* Every variable keeps its type through a shutdown.
THEOREM ShutdownTypes == ShutdownSpec => []ShutdownTypeOK
<1>1. IInv => TypeOK
    BY DEF IInv
<1>2. TypeOK /\ MainInv => ShutdownTypeOK
  <2> SUFFICES ASSUME TypeOK, MainInv PROVE ShutdownTypeOK
    OBVIOUS
  <2>1. xcut \in BOOLEAN /\ stopped \in BOOLEAN /\ fatal \in BOOLEAN
    BY DEF MainInv
  <2> QED
    BY <2>1 DEF MainInv, ShutdownTypeOK
<1> QED
    BY <1>1, <1>2, Established, PTL

\* A loop never returns under a live context: no Guard ends the process.
THEOREM GuardsStayQuiet == ShutdownSpec => []NoGuardFires
<1>1. MainInv => NoGuardFires
    BY DEF MainInv, NoGuardFires
<1> QED
    BY <1>1, Established, PTL
-----------------------------------------------------------------------------
(* The promise of ContainerLife *)

LEMMA CutLife ==
    ASSUME IInv, ReportInv, CutStep
    PROVE  [Life!Next]_(Life!vars)
<1> DEFINE Goal == [Life!Next]_(Life!vars)
<1> USE DEF IInv, TypeOK, CStates, AllHandlers
<1>s. ASSUME UNCHANGED <<cstate, reports, cproj, cfail, status>> PROVE Goal
    BY <1>s DEF life, Life!vars
<1>1. CASE DispatchCut
  <2>1. ASSUME NEW c \in Cids, dpc = "create", cstate[c] = "absent",
               cstate' = [cstate EXCEPT ![c] = "created"],
               cproj' = [cproj EXCEPT ![c] = dproj]
        PROVE  Goal
    <3>1. dproj \in Projects /\ reports[c] = 0
      BY <2>1 DEF DispatchInv, ReportInv, Stopped
    <3>2. Life!Create(c, dproj)
      BY <1>1, <2>1, <3>1 DEF DispatchCut, life, Life!Create, Life!Become
    <3> QED
      BY <3>1, <3>2 DEF Life!Next
  <2>2. CASE dpc = "start" /\ cstate' = [cstate EXCEPT ![dcid] = "running"]
    <3>1. dcid \in Cids /\ cstate[dcid] = "created" /\ reports[dcid] = 0
      BY <2>2 DEF DispatchInv, ReportInv, Stopped
    <3>2. UNCHANGED cproj
      BY <1>1, <2>2 DEF DispatchCut
    <3>3. Life!Start(dcid)
      BY <1>1, <2>2, <3>1, <3>2 DEF DispatchCut, life, Life!Start, Life!Become
    <3> QED
      BY <3>1, <3>3 DEF Life!Next
  <2> QED
    BY <1>1, <1>s, <2>1, <2>2 DEF DispatchCut, Effect
<1>2. CASE ReconcileCut
    BY <1>2, <1>s DEF ReconcileCut
<1>3. ASSUME NEW h \in AllHandlers, ExitCut(h) PROVE Goal
  <2> DEFINE c == hcid[h]
  <2>1. CASE hpc[h] = "remove" /\ cstate' = [cstate EXCEPT ![c] = "removed"]
    <3>1. c \in Cids /\ Stopped(c) /\ reports[c] > 0
      BY <2>1 DEF ExitInv, ReportInv, Stopped
    <3>2. CASE cstate[c] = "exited"
      <4>1. Life!Clean(c)
        BY <1>3, <2>1, <3>1, <3>2 DEF ExitCut, life, Life!Clean, Life!Become
      <4> QED
        BY <3>1, <4>1 DEF Life!Next
    <3>3. CASE cstate[c] = "removed"
      <4>1. UNCHANGED cstate
        BY <2>1, <3>1, <3>3
      <4> QED
        BY <1>3, <1>s, <4>1 DEF ExitCut
    <3> QED
      BY <3>1, <3>2, <3>3 DEF Stopped
  <2> QED
    BY <1>3, <1>s, <2>1 DEF ExitCut, Effect
<1> QED
    BY <1>1, <1>2, <1>3 DEF CutStep

LEMMA StopLife ==
    ASSUME IInv, ReportInv, NEW p \in Projects, StopContainer(p)
    PROVE  [Life!Next]_(Life!vars)
<1> DEFINE c == copy[p]
<1> USE DEF IInv, TypeOK, CStates
<1>1. CASE UNCHANGED <<cstate, cfail>>
    BY <1>1 DEF StopContainer, life, Life!vars
<1>2. ASSUME c \in Cids, Live(c), NEW failed \in BOOLEAN, Dies(c, failed)
      PROVE  [Life!Next]_(Life!vars)
  <2>1. Life!Exit(c)
    BY <1>2 DEF StopContainer, Live, Dies, ReportInv, Stopped, life, Life!Exit, Life!Become
  <2> QED
    BY <1>2, <2>1 DEF Life!Next
<1> QED
    BY <1>1, <1>2 DEF StopContainer

\* A shutdown at any point of any run keeps what ContainerLife promises: cut off
\* or not, nothing is removed before its exit is reported, and every status
\* shown has its container.
THEOREM ShutdownImplementsLife == ShutdownSpec => ImplementsLife
<1>1. ShutdownInit => Life!Init
    BY DEF ShutdownInit, Init, Life!Init, life
<1>2. ASSUME UNCHANGED core PROVE UNCHANGED Life!vars
    BY <1>2 DEF core, life, Life!vars
<1>3. IInv /\ ReportInv /\ [ShutdownNext]_allVars => [Life!Next]_(Life!vars)
    BY <1>2, StepKinds, LifeStep, CutLife, StopLife DEF Kinds
<1> QED
    BY <1>1, <1>3, Established, PTL DEF ShutdownSpec, ImplementsLife, Life!Spec

-----------------------------------------------------------------------------
(* What Stop held *)

\* Containers only move forward, so one that was started and stopped stays so.
LEMMA NoRevival ==
    ASSUME IInv, ReportInv, Kinds, NEW c \in Cids, Started(c)
    PROVE  Started(c)' /\ (Live(c)' => Live(c))
<1> USE DEF IInv, TypeOK, CStates, AllHandlers, Started, Live
<1>1. CASE UNCHANGED cstate
    BY <1>1
<1>2. CASE Next
  <2>1. ASSUME NEW d \in Cids, ContainerExit(d) PROVE Started(c)' /\ (Live(c)' => Live(c))
    BY <2>1 DEF ContainerExit, Dies
  <2>2. ASSUME NEW d \in Cids, KillOrphan(d) PROVE Started(c)' /\ (Live(c)' => Live(c))
    BY <2>2 DEF KillOrphan, Dies
  <2>3. ASSUME NEW d \in Cids, CreateContainer(d) PROVE Started(c)' /\ (Live(c)' => Live(c))
    BY <2>3 DEF CreateContainer
  <2>4. CASE StartContainer \/ StartFails
    BY <2>4 DEF StartContainer, StartFails, DispatchInv
  <2>5. ASSUME NEW h \in AllHandlers, Remove(h) PROVE Started(c)' /\ (Live(c)' => Live(c))
    BY <2>5 DEF Remove
  <2> QED
    BY <1>1, <1>2, <2>1, <2>2, <2>3, <2>4, <2>5 DEF Next, Environment, DispatchStep, ExitStep,
       ReconcileStep, Schedule, Cancel, Age, LoseEvents, Restart, DispatchTick, Query, EndPass,
       CreateFails, Release, Record, Mark, SkipRunning, Reserve, HandleEvent, FindTracked,
       FindByLabel, Inspect, InspectFails, Update, FreeSlot, ReconcileList,
       ReconcileTracked, AdoptSync, ReconcileEnd, ReconcileExit, Adopt
<1>3. CASE CutStep
    BY <1>3 DEF CutStep, DispatchCut, ReconcileCut, ExitCut, Effect, DispatchInv
<1>4. ASSUME NEW p \in Projects, StopContainer(p) PROVE Started(c)' /\ (Live(c)' => Live(c))
    BY <1>4 DEF StopContainer, Dies
<1> QED
    BY <1>1, <1>2, <1>3, <1>4 DEF Kinds, core

\* What Stop has still to stop is in its copy.
HeldInv ==
    faults = 0 =>
        /\ \A c \in held : Started(c)
        /\ \A c \in held : Live(c) => \E p \in Projects : copy[p] = c
        /\ mpc = "gone" => \A p \in Projects : copy[p] = Free

\* Faults are only counted up.
LEMMA FaultsGrow == IInv /\ [ShutdownNext]_allVars /\ faults' = 0 => faults = 0
<1> SUFFICES ASSUME IInv, [ShutdownNext]_allVars, faults' = 0 PROVE faults = 0
    OBVIOUS
<1>0. faults \in Nat
    BY DEF IInv, TypeOK
<1>1. faults' = faults \/ faults' = faults + 1
    BY DEF ShutdownNext, allVars, vars, ExecutorStep, Dispatching, Receiving, Reconciling,
       Exiting, ExitsCut, DispatchCut, ReconcileCut, ExitCut, Outside, DiscoveryStep,
       DiscoveryBegins, DiscoveryCreates, DiscoveryStarts, DiscoveryEnds, DiscoveryRemoves,
       DiscoveryCut, DiscoveryExits, MainStep, Signal, HttpDown, CronDown, CancelMain,
       BeginStop, Exit, StopContainer, CancelBackground, LoopReturns, Schedule, Cancel,
       ContainerExit, Age, LoseEvents, DispatchTick, Query, EndPass, CreateFails,
       StartContainer, StartFails, Release, Record, Mark, Write, SkipRunning, Reserve,
       CreateContainer, HandleEvent, FindTracked, FindByLabel, Inspect, InspectFails,
       Update, FreeSlot, Remove, ReconcileList, ReconcileTracked, AdoptSync,
       ReconcileEnd, ReconcileExit, Adopt, KillOrphan, Fault
<1> QED
    BY <1>0, <1>1

LEMMA HeldKeeps ==
    IInv /\ ReportInv /\ MainInv /\ HeldInv /\ [ShutdownNext]_allVars => HeldInv'
<1> SUFFICES ASSUME IInv, ReportInv, MainInv, HeldInv, [ShutdownNext]_allVars, faults' = 0
             PROVE  HeldInv'
    BY DEF HeldInv
<1>0. faults = 0 /\ Kinds /\ held \subseteq Cids
    BY FaultsGrow, StepKinds DEF MainInv
<1>1. ASSUME UNCHANGED <<mpc, copy, held>> PROVE HeldInv'
    BY <1>0, <1>1, NoRevival DEF HeldInv
<1>2. CASE ExecutorStep \/ Outside \/ DiscoveryStep \/ CancelBackground \/ UNCHANGED allVars
    BY <1>1, <1>2 DEF ExecutorStep, Outside, DiscoveryStep, CancelBackground, allVars
<1>3. CASE LoopReturns
    BY <1>1, <1>3 DEF LoopReturns, MainInv
<1>4. CASE Signal \/ HttpDown \/ CronDown \/ CancelMain
    BY <1>0, <1>4 DEF Signal, HttpDown, CronDown, CancelMain, HeldInv, Started, Live
<1>5. CASE BeginStop
    BY <1>5 DEF BeginStop, HeldInv, Started, Live, IInv, SlotHoldsOwnContainer, TypeOK
<1>6. CASE Exit
    BY <1>0, <1>6 DEF Exit, HeldInv, Started, Live
<1>7. ASSUME NEW p \in Projects, StopContainer(p) PROVE HeldInv'
  <2>1. \A q \in Projects \ {p} : copy'[q] = copy[q]
    BY <1>7 DEF StopContainer, MainInv
  <2>2. ASSUME NEW c \in Cids, copy[p] = c PROVE ~Live(c)'
    <3>1. CASE Live(c)
      <4>1. ~Fault
        BY <1>0 DEF Fault
      <4>2. cstate' = [cstate EXCEPT ![c] = "exited"]
        BY <1>7, <2>2, <3>1, <4>1 DEF StopContainer, Dies
      <4> QED
        BY <4>2 DEF Live, IInv, TypeOK
    <3>2. CASE ~Live(c)
      <4>1. UNCHANGED cstate
        BY <1>7, <2>2, <3>2 DEF StopContainer
      <4> QED
        BY <3>2, <4>1 DEF Live
    <3> QED
      BY <3>1, <3>2
  <2>3. mpc' = "stopping" /\ held' = held
    BY <1>7 DEF StopContainer
  <2> QED
    <3>1. \A c \in held : Started(c)' /\ (Live(c)' => Live(c))
      BY <1>0, NoRevival DEF HeldInv
    <3>2. ASSUME NEW c \in held, Live(c)' PROVE \E q \in Projects : copy'[q] = c
      <4>1. PICK q \in Projects : copy[q] = c
        BY <1>0, <3>1, <3>2 DEF HeldInv
      <4>2. q # p
        BY <1>0, <2>2, <3>2, <4>1
      <4> QED
        BY <2>1, <4>1, <4>2
    <3> QED
      BY <2>3, <3>1, <3>2 DEF HeldInv
<1> QED
    BY <1>2, <1>3, <1>4, <1>5, <1>6, <1>7 DEF ShutdownNext, MainStep

\* No container that had a slot when Stop copied the running map runs on.
THEOREM HeldAreStopped == ShutdownSpec => []StopsWhatItHeld
<1>1. ShutdownInit => HeldInv
    BY DEF ShutdownInit, HeldInv
<1>2. MainInv /\ HeldInv => StopsWhatItHeld
    BY SlotAssumption DEF MainInv, HeldInv, StopsWhatItHeld
<1> QED
    BY <1>1, <1>2, HeldKeeps, Established, PTL DEF ShutdownSpec
-----------------------------------------------------------------------------
(* Rows that can be recovered *)

\* A handler whose removal cannot have an effect any more, and a container that
\* is there and that no other handler is about to remove.
Dead(h) == Main \in cut /\ h \notin inflight
Safe(c) ==
    /\ cstate[c] \in {"running", "exited"}
    /\ \A h \in AllHandlers :
          (hcid[h] = c /\ hpc[h] \in {"delete", "remove"}) => Dead(h)

RowInv ==
    faults = 0 =>
        \A p \in Projects \ late : status[p] = "running" =>
            \E c \in Cids : cproj[c] = p /\ Safe(c)

\* The handlers' calls have the main context.
LEMMA HandlerContext == \A h \in AllHandlers : Ctx(h) = Main /\ h \in Goroutines
    BY NameAssumption DEF Ctx, Goroutines

\* What a step of the process may do to the calls of a handler.
LEMMA DeadStaysDead ==
    ASSUME MainInv, [ShutdownNext]_allVars, NEW h \in AllHandlers, Dead(h)
    PROVE  Dead(h)'
<1> USE HandlerContext DEF Dead, MainInv
<1>1. CASE ExecutorStep
    BY <1>1 DEF ExecutorStep, Dispatching, Reconciling, Receiving, Exiting, ExitsCut,
       DispatchCut, ReconcileCut, ExitCut, Calls, Finishes
<1>2. CASE DiscoveryStep
    BY <1>2 DEF DiscoveryStep, DiscoveryBegins, DiscoveryCreates, DiscoveryStarts,
       DiscoveryEnds, DiscoveryRemoves, DiscoveryCut, DiscoveryExits, At, Calls, Finishes
<1>3. CASE MainStep
    BY <1>3 DEF MainStep, Signal, HttpDown, CronDown, CancelMain, BeginStop, Exit, StopContainer
<1>4. CASE CancelBackground
    BY <1>4, NameAssumption DEF CancelBackground, InCall
<1>5. CASE Outside \/ LoopReturns \/ UNCHANGED allVars
    BY <1>5 DEF Outside, LoopReturns, allVars
<1> QED
    BY <1>1, <1>2, <1>3, <1>4, <1>5 DEF ShutdownNext

\* A handler comes to a removal from its verdict, or dead.
LEMMA RemovalsBegin ==
    ASSUME IInv, MainInv, [ShutdownNext]_allVars, NEW h \in AllHandlers,
           hpc'[h] \in {"delete", "remove"}, ~Update(h)
    PROVE  /\ hcid'[h] = hcid[h]
           /\ hpc[h] \in {"delete", "remove"} \/ Dead(h)'
<1> USE HandlerContext DEF IInv, TypeOK
<1> DEFINE Goal == /\ hcid'[h] = hcid[h]
                   /\ hpc[h] \in {"delete", "remove"} \/ Dead(h)'
<1>c. cut \subseteq cut'
    BY DEF ShutdownNext, allVars, ExecutorStep, Outside, DiscoveryStep, MainStep, Signal,
       HttpDown, CronDown, CancelMain, BeginStop, Exit, StopContainer, CancelBackground,
       LoopReturns, svars
<1>0. CASE UNCHANGED <<hpc, hcid>>
    BY <1>0
<1>1. CASE Dispatching \/ DispatchCut
    BY <1>0, <1>1 DEF Dispatching, DispatchTick, Query, EndPass, CreateFails, StartContainer,
       StartFails, Release, Record, Mark, SkipRunning, Reserve, CreateContainer, DispatchCut
<1>2. CASE Reconciling \/ ReconcileCut
  <2>1. ASSUME NEW c \in Cids, ReconcileExit(c) PROVE Goal
    BY <2>1 DEF ReconcileExit, Goto, AllHandlers
  <2> QED
    BY <1>0, <1>2, <2>1 DEF Reconciling, ReconcileList, KillOrphan, AdoptSync, ReconcileTracked,
       ReconcileEnd, Adopt, ReconcileCut
<1>3. ASSUME NEW g \in Handlers, NEW c \in Cids, HandleEvent(g, c) PROVE Goal
    BY <1>3 DEF HandleEvent, AllHandlers
<1>4. ASSUME NEW g \in AllHandlers, Exiting(g) PROVE Goal
  <2>1. CASE g = h
    BY <1>4, <2>1 DEF Exiting, FindByLabel, Inspect, InspectFails, Remove, FindTracked,
       FreeSlot, Goto, Return
  <2>2. CASE g # h
    BY <1>4, <2>2 DEF Exiting, FindByLabel, Inspect, InspectFails, Update, Remove, FindTracked,
       FreeSlot, Goto, Return
  <2> QED
    BY <2>1, <2>2
<1>5. ASSUME NEW g \in AllHandlers, ExitsCut(g) PROVE Goal
  <2>1. CASE g = h
    <3>1. Main \in cut /\ h \notin inflight'
      BY <1>5, <2>1 DEF ExitsCut, ExitCut, Cut, Finishes
    <3>2. hpc'[h] = "delete" => hcid'[h] = hcid[h]
      BY <1>5, <2>1 DEF ExitsCut, ExitCut, Goto, Return
    <3>3. hpc'[h] \in {"idle", "delete"}
      BY <1>5, <2>1 DEF ExitsCut, ExitCut, Goto, Return
    <3> QED
      BY <1>c, <3>1, <3>2, <3>3 DEF Dead
  <2>2. CASE g # h
    BY <1>5, <2>2 DEF ExitsCut, ExitCut, Goto, Return
  <2> QED
    BY <2>1, <2>2
<1>6. CASE Outside
    BY <1>0, <1>6 DEF Outside, Schedule, Cancel, ContainerExit, Age, LoseEvents
<1>7. CASE DiscoveryStep \/ MainStep \/ CancelBackground \/ LoopReturns \/ UNCHANGED allVars
    BY <1>0, <1>7 DEF DiscoveryStep, MainStep, Signal, HttpDown, CronDown, CancelMain,
       BeginStop, Exit, StopContainer, CancelBackground, LoopReturns, allVars, vars
<1> QED
    BY <1>1, <1>2, <1>3, <1>4, <1>5, <1>6, <1>7 DEF ShutdownNext, ExecutorStep, Receiving

\* A safe container is not removed, and its label is fixed.
LEMMA SafeStands ==
    ASSUME IInv, MainInv, [ShutdownNext]_allVars, faults = 0, faults' = 0,
           NEW c \in Cids, Safe(c)
    PROVE  cstate'[c] \in {"running", "exited"} /\ cproj'[c] = cproj[c]
<1> USE HandlerContext DEF IInv, TypeOK, CStates, Safe
<1> DEFINE Goal == cstate'[c] \in {"running", "exited"} /\ cproj'[c] = cproj[c]
<1>f. ~Fault
    BY DEF Fault
<1>0. CASE UNCHANGED <<cstate, cproj>>
    BY <1>0
<1>1. CASE Dispatching \/ DispatchCut
    BY <1>0, <1>f, <1>1 DEF Dispatching, DispatchTick, Query, EndPass, CreateFails,
       StartContainer, StartFails, Release, Record, Mark, SkipRunning, Reserve,
       CreateContainer, DispatchCut, Effect, DispatchInv
<1>2. CASE Reconciling \/ ReconcileCut
  <2>1. ASSUME NEW d \in Cids, KillOrphan(d) PROVE Goal
    BY <2>1 DEF KillOrphan, Dies
  <2> QED
    BY <1>0, <1>2, <2>1 DEF Reconciling, ReconcileList, AdoptSync, ReconcileTracked,
       ReconcileEnd, Adopt, ReconcileExit, ReconcileCut
<1>3. CASE Receiving
    BY <1>0, <1>3 DEF Receiving, HandleEvent
<1>4. ASSUME NEW g \in AllHandlers, Exiting(g) PROVE Goal
  <2>1. CASE Remove(g)
    <3>1. Calls(g) /\ hpc[g] = "remove"
      BY <1>4, <2>1 DEF Exiting, Remove, FindTracked, FreeSlot, FindByLabel, Inspect,
         InspectFails, Update
    <3>2. ~Dead(g)
      BY <3>1 DEF Calls, Cut, Dead
    <3>3. hcid[g] # c
      BY <3>1, <3>2
    <3> QED
      BY <2>1, <3>3 DEF Remove
  <2> QED
    BY <1>0, <1>4, <2>1 DEF Exiting, FindByLabel, Inspect, InspectFails, Update, FindTracked,
       FreeSlot
<1>5. ASSUME NEW g \in AllHandlers, ExitsCut(g) PROVE Goal
  <2>1. CASE hpc[g] = "remove" /\ g \in inflight
    <3>1. hcid[g] # c
      BY <2>1 DEF Dead
    <3> QED
      BY <1>5, <2>1, <3>1 DEF ExitsCut, ExitCut, Effect
  <2> QED
    BY <1>0, <1>5, <2>1 DEF ExitsCut, ExitCut, Effect
<1>6. CASE Outside
  <2>1. ASSUME NEW d \in Cids, ContainerExit(d) PROVE Goal
    BY <2>1 DEF ContainerExit, Dies
  <2> QED
    BY <1>0, <1>6, <2>1 DEF Outside, Schedule, Cancel, Age, LoseEvents
<1>7. ASSUME NEW p \in Projects, StopContainer(p) PROVE Goal
    BY <1>7 DEF StopContainer, Dies
<1>8. CASE DiscoveryStep \/ CancelBackground \/ LoopReturns \/ UNCHANGED allVars
    BY <1>0, <1>8 DEF DiscoveryStep, CancelBackground, LoopReturns, allVars, vars
<1>9. CASE MainStep
    BY <1>0, <1>7, <1>9 DEF MainStep, Signal, HttpDown, CronDown, CancelMain, BeginStop, Exit
<1> QED
    BY <1>1, <1>2, <1>3, <1>4, <1>5, <1>6, <1>8, <1>9 DEF ShutdownNext, ExecutorStep

\* A safe container stays safe, except from the handler that writes its verdict.
LEMMA SafeKept ==
    ASSUME IInv, MainInv, [ShutdownNext]_allVars, faults = 0, faults' = 0,
           NEW c \in Cids, Safe(c),
           \A h \in AllHandlers : hcid[h] = c => ~Update(h)
    PROVE  Safe(c)' /\ cproj'[c] = cproj[c]
<1>1. ASSUME NEW h \in AllHandlers, hcid'[h] = c, hpc'[h] \in {"delete", "remove"}
      PROVE  Dead(h)'
  <2>1. hpc[h] = "update" /\ Update(h) => hcid'[h] = hcid[h]
    BY DEF Update
  <2>2. ~Update(h)
    BY <1>1, <2>1 DEF Update
  <2>3. hcid[h] = c /\ (hpc[h] \in {"delete", "remove"} \/ Dead(h)')
    BY <1>1, <2>2, RemovalsBegin
  <2> QED
    BY <2>3, DeadStaysDead DEF Safe
<1> QED
    BY <1>1, SafeStands DEF Safe

\* A row is marked running by dispatch or adoption only.
LEMMA MarkedRunning ==
    ASSUME IInv, MainInv, [ShutdownNext]_allVars, NEW p \in Projects,
           status'[p] = "running", status[p] # "running"
    PROVE  \E c \in Cids : /\ cproj[c] = p /\ Started(c) /\ MarksLate(c)
                           /\ status' # status
                           /\ UNCHANGED <<cstate, cproj, hvars, cut>>
                           /\ inflight' \subseteq inflight
<1> USE DEF IInv, TypeOK, Statuses
<1> DEFINE Goal == \E c \in Cids : /\ cproj[c] = p /\ Started(c) /\ MarksLate(c)
                                   /\ status' # status
                                   /\ UNCHANGED <<cstate, cproj, hvars, cut>>
                                   /\ inflight' \subseteq inflight
<1>0. status' # status
    OBVIOUS
<1>1. CASE ExecutorStep /\ Mark
  <2>1. dcid \in Cids /\ cproj[dcid] = p /\ Started(dcid)
    BY <1>1 DEF Mark, Write, DispatchInv
  <2>2. MarksLate(dcid) /\ Calls(Dispatcher)
    BY <1>0, <1>1 DEF ExecutorStep, Dispatching, Receiving, Reconciling, Exiting, ExitsCut,
       DispatchCut, ReconcileCut, ExitCut, Mark, DispatchTick, Query, EndPass, CreateFails,
       StartContainer, StartFails, Release, Record, SkipRunning, Reserve, CreateContainer,
       NextUp, HandleEvent, FindTracked, FindByLabel, Inspect, InspectFails, Update, FreeSlot,
       Remove, ReconcileList, KillOrphan, AdoptSync, ReconcileTracked, ReconcileEnd,
       ReconcileExit, Adopt
  <2> QED
    BY <1>0, <1>1, <2>1, <2>2 DEF Mark, ExecutorStep, Calls, Finishes
<1>2. CASE Reconciling /\ ExecutorStep
  <2>1. AdoptSync /\ MarksLate(rcur) /\ Calls(Reconciler)
    BY <1>0, <1>2 DEF Reconciling, ReconcileList, KillOrphan, ReconcileTracked, ReconcileEnd,
       ReconcileExit, Adopt
  <2>2. rcur \in Cids /\ cproj[rcur] = p /\ Started(rcur)
    BY <2>1 DEF AdoptSync, Write, ReconcileInv
  <2> QED
    BY <1>0, <1>2, <2>1, <2>2 DEF AdoptSync, ExecutorStep, Calls, Finishes
<1>3. ASSUME NEW h \in AllHandlers, Exiting(h) PROVE FALSE
    BY <1>0, <1>3 DEF Exiting, FindByLabel, Inspect, InspectFails, Update, Remove, FindTracked,
       FreeSlot, Write, Verdict
<1>4. CASE ExecutorStep
    BY <1>0, <1>1, <1>2, <1>3, <1>4 DEF ExecutorStep, Dispatching, DispatchTick, Query,
       EndPass, CreateFails, StartContainer, StartFails, Release, Record, SkipRunning, Reserve,
       CreateContainer, Receiving, HandleEvent, ExitsCut, ExitCut, DispatchCut, ReconcileCut
<1>5. CASE Outside
    BY <1>5 DEF Outside, Schedule, Cancel, ContainerExit, Age, LoseEvents
<1>6. CASE DiscoveryStep \/ MainStep \/ CancelBackground \/ LoopReturns \/ UNCHANGED allVars
    BY <1>0, <1>6 DEF DiscoveryStep, MainStep, Signal, HttpDown, CronDown, CancelMain,
       BeginStop, Exit, StopContainer, CancelBackground, LoopReturns, allVars, vars
<1> QED
    BY <1>4, <1>5, <1>6 DEF ShutdownNext

LEMMA LateGrows == [ShutdownNext]_allVars => late \subseteq late'
    BY DEF ShutdownNext, allVars, ExecutorStep, Dispatching, Receiving, Reconciling, MarksLate,
       Exiting, ExitsCut, Outside, DiscoveryStep, MainStep, Signal, HttpDown, CronDown,
       CancelMain, BeginStop, Exit, StopContainer, CancelBackground, LoopReturns, svars

LEMMA RowKeeps == IInv /\ MainInv /\ RowInv /\ [ShutdownNext]_allVars => RowInv'
<1> SUFFICES ASSUME IInv, MainInv, RowInv, [ShutdownNext]_allVars, faults' = 0,
                    NEW p \in Projects \ late', status'[p] = "running"
             PROVE  \E c \in Cids : cproj'[c] = p /\ Safe(c)'
    BY DEF RowInv
<1>0. faults = 0 /\ p \notin late
    BY FaultsGrow, LateGrows
<1>1. CASE status[p] = "running"
  <2>1. PICK c \in Cids : cproj[c] = p /\ Safe(c)
    BY <1>0, <1>1 DEF RowInv
  <2>2. ASSUME NEW h \in AllHandlers, hcid[h] = c, Update(h) PROVE FALSE
    <3>1. hproj[h] = p
      BY <2>1, <2>2 DEF Update, IInv, ExitInv
    <3>2. ~Fault
      BY <1>0 DEF Fault
    <3>3. status'[p] = Verdict(c)
      BY <2>2, <3>1, <3>2 DEF Update, Write, IInv, TypeOK
    <3> QED
      BY <3>3 DEF Verdict
  <2> QED
    BY <1>0, <2>1, <2>2, SafeKept
<1>2. CASE status[p] # "running"
  <2>1. PICK c \in Cids : /\ cproj[c] = p /\ Started(c) /\ MarksLate(c)
                          /\ status' # status
                          /\ UNCHANGED <<cstate, cproj, hvars, cut>>
                          /\ inflight' \subseteq inflight
    BY <1>2, MarkedRunning
  <2>2. ~Over(c)
    BY <2>1 DEF MarksLate
  <2> QED
    BY <2>1, <2>2 DEF Over, Started, Safe
<1> QED
    BY <1>1, <1>2

\* The work of a handler that is cut off can be found again: its row, unless it
\* was marked late, has a container that nothing removes behind its back.
THEOREM RowsAreRecoverable == ShutdownSpec => []RowsRecoverable
<1>1. ShutdownInit => RowInv
    BY DEF ShutdownInit, Init, RowInv
<1>2. RowInv => RowsRecoverable
    BY DEF RowInv, RowsRecoverable, Safe
<1> QED
    BY <1>1, <1>2, RowKeeps, Established, PTL DEF ShutdownSpec

-----------------------------------------------------------------------------
(* Discovery *)

LEMMA LeftoversKept ==
    IInv /\ DiscoveryLeftovers /\ [ShutdownNext]_allVars => DiscoveryLeftovers'
<1> SUFFICES ASSUME IInv, DiscoveryLeftovers, [ShutdownNext]_allVars, faults' = 0
             PROVE  DiscoveryLeftovers'
    BY DEF DiscoveryLeftovers
<1>0. faults = 0 /\ ~Fault
    BY FaultsGrow DEF Fault
<1>1. CASE UNCHANGED <<xpc, xstate, xcut>>
    BY <1>0, <1>1 DEF DiscoveryLeftovers
<1>2. CASE DiscoveryStep
    BY <1>0, <1>2 DEF DiscoveryLeftovers, DiscoveryStep, DiscoveryBegins, DiscoveryCreates,
       DiscoveryStarts, DiscoveryEnds, DiscoveryRemoves, DiscoveryCut, DiscoveryExits, At, To
<1> QED
    BY <1>1, <1>2 DEF ShutdownNext, ExecutorStep, Outside, MainStep, Signal, HttpDown, CronDown,
       CancelMain, BeginStop, Exit, StopContainer, CancelBackground, LoopReturns, allVars

\* Only a discovery that met its cancelled context leaves its container behind.
THEOREM LeftoversWereCut == ShutdownSpec => []DiscoveryLeftovers
<1>1. ShutdownInit => DiscoveryLeftovers
    BY DEF ShutdownInit, DiscoveryLeftovers
<1> QED
    BY <1>1, LeftoversKept, Established, PTL DEF ShutdownSpec

-----------------------------------------------------------------------------
(* Before the first reconcile pass, through the shutdown *)

\* A container that runs, or that a call in flight may still start.
MayRun(c) ==
    \/ Live(c)
    \/ dpc = "start" /\ dcid = c /\ Dispatcher \in inflight

\* What a slot for each container ensures.  Once the context is cut the slots no
\* longer show it: a dispatch that is cut off releases the slot of a container it
\* may have started, and Stop deletes that of one it failed to stop.  But from
\* then on no container can run that could not before.
OneAndFew ==
    /\ IsFiniteSet({c \in Cids : MayRun(c)})
    /\ Cardinality({c \in Cids : MayRun(c)}) <= Parallelism
    /\ \A c, d \in Cids : (MayRun(c) /\ MayRun(d) /\ cproj[c] = cproj[d]) => c = d

\* The part of Orderly that no cut and no deleted slot disturbs: one goroutine
\* for each exit, and one report.
OneExit ==
    /\ rpc = "idle" /\ hpc[Reconciler] = "idle"
    /\ \A h \in Handlers : hpc[h] # "idle" =>
         /\ hcid[h] \notin events
         /\ \A g \in Handlers \ {h} : hpc[g] # "idle" => hcid[g] # hcid[h]
    /\ \A c \in Cids : reports[c] <= 1
    /\ \A c \in Cids : (~Stopped(c) \/ c \in events) => reports[c] = 0
    /\ \A h \in Handlers : hpc[h] \in {"find", "inspect"} => reports[hcid[h]] = 0

FirstInv ==
    ~disturbed =>
        /\ OneExit
        /\ Main \notin cut => Orderly /\ Counted
        /\ Main \in cut => OneAndFew

LEMMA OneExitStep == IInv /\ OneExit /\ ~disturbed' /\ Kinds => OneExit'
<1> SUFFICES ASSUME IInv, OneExit, ~disturbed', Kinds PROVE OneExit'
    OBVIOUS
<1> USE ReconcilerAssumption DEF IInv, TypeOK, CStates, AllHandlers, Stopped, Live,
        DispatchInv, ExitInv, OneExit
<1>0. CASE UNCHANGED <<cstate, events, hpc, hcid, rpc, reports>>
    BY <1>0
<1>1. CASE Environment
  <2>1. ASSUME NEW c \in Cids, ContainerExit(c) PROVE OneExit'
    BY <2>1 DEF ContainerExit, Dies
  <2>2. CASE LoseEvents
    BY <2>2 DEF LoseEvents
  <2> QED
    BY <1>0, <1>1, <2>1, <2>2 DEF Environment, Schedule, Cancel, Age, Restart
<1>2. CASE DispatchStep
  <2>1. ASSUME NEW c \in Cids, CreateContainer(c) PROVE OneExit'
    BY <2>1 DEF CreateContainer
  <2>2. CASE StartContainer \/ StartFails
    BY <2>2 DEF StartContainer, StartFails
  <2> QED
    BY <1>0, <1>2, <2>1, <2>2 DEF DispatchStep, DispatchTick, Query, EndPass, CreateFails,
       Release, Record, Mark, SkipRunning, Reserve
<1>3. ASSUME NEW h \in Handlers, NEW c \in Cids, HandleEvent(h, c) PROVE OneExit'
    BY <1>3 DEF HandleEvent
<1>4. ASSUME NEW h \in AllHandlers, ExitStep(h) PROVE OneExit'
  <2>0. h \in Handlers
    BY <1>4 DEF ExitStep, FindTracked, FindByLabel, Inspect, InspectFails, Update, FreeSlot,
       Remove
  <2>1. CASE FindTracked(h)
    BY <2>0, <2>1 DEF FindTracked, Goto
  <2>2. CASE FindByLabel(h)
    BY <2>0, <2>2 DEF FindByLabel, Goto, Return
  <2>3. CASE Inspect(h)
    BY <2>0, <2>3 DEF Inspect, Goto
  <2>4. CASE InspectFails(h)
    BY <2>0, <2>4 DEF InspectFails, Goto, Return
  <2>5. CASE Update(h) \/ FreeSlot(h)
    BY <2>0, <2>5 DEF Update, FreeSlot, Goto
  <2>6. CASE Remove(h)
    BY <2>0, <2>6 DEF Remove, Goto, Return
  <2> QED
    BY <1>4, <2>1, <2>2, <2>3, <2>4, <2>5, <2>6 DEF ExitStep
<1>5. ~ReconcileStep
    BY DEF ReconcileStep, ReconcileList, ReconcileTracked, AdoptSync, ReconcileEnd,
       ReconcileExit, Adopt, KillOrphan, Scanning
<1>6. CASE DispatchCut
    BY <1>6 DEF DispatchCut, Effect
<1>7. ~ReconcileCut
    BY DEF ReconcileCut, Scanning
<1>8. ASSUME NEW h \in AllHandlers, ExitCut(h) PROVE OneExit'
  <2>0. h \in Handlers
    BY <1>8 DEF ExitCut
  <2>1. CASE Return(h)
    BY <1>8, <2>0, <2>1 DEF ExitCut, Return, Goto, Effect
  <2>2. CASE hpc[h] = "update" /\ Goto(h, "delete")
    BY <1>8, <2>0, <2>2 DEF ExitCut, Return, Goto
  <2> QED
    BY <1>8, <2>1, <2>2 DEF ExitCut
<1>9. ASSUME NEW p \in Projects, StopContainer(p) PROVE OneExit'
    BY <1>9 DEF StopContainer, Dies
<1> QED
    BY <1>0, <1>1, <1>2, <1>3, <1>4, <1>5, <1>6, <1>7, <1>8, <1>9 DEF Kinds, CutStep, Next,
       core

\* As long as the slots are kept, each such container has one of its own.
LEMMA SlotsGiveOneAndFew == IInv /\ Orderly /\ Counted => OneAndFew
<1> SUFFICES ASSUME IInv, Orderly, Counted PROVE OneAndFew
    OBVIOUS
<1> DEFINE L == {c \in Cids : MayRun(c)}
           f == [c \in L |-> cproj[c]]
<1>1. \A c \in L : cproj[c] \in Slots
  <2> SUFFICES ASSUME NEW c \in L PROVE cproj[c] \in Slots
    OBVIOUS
  <2>1. CASE Live(c)
    BY <2>1, LiveHoldsSlot
  <2>2. CASE dpc = "start" /\ dcid = c
    BY <2>2, SlotAssumption DEF IInv, DispatchInv, Orderly, Slots, Taken
  <2> QED
    BY <2>1, <2>2 DEF MayRun
<1>2. \A c, d \in L : cproj[c] = cproj[d] => c = d
  <2> SUFFICES ASSUME NEW c \in L, NEW d \in L, cproj[c] = cproj[d] PROVE c = d
    OBVIOUS
  <2>1. CASE Live(c) /\ Live(d)
    BY <2>1, LiveHoldsSlot
  <2>2. ASSUME NEW e \in Cids, Live(e), dpc = "start", cproj[e] = cproj[dcid]
        PROVE  FALSE
    BY <2>2, SlotAssumption DEF IInv, DispatchInv, Orderly, Pending
  <2> QED
    BY <2>1, <2>2 DEF MayRun
<1>3. f \in Injection(L, Slots)
    BY <1>1, <1>2 DEF Injection, IsInjective
<1>4. /\ Slots \in SUBSET Projects /\ Held \in SUBSET Projects /\ Slots \subseteq Held
    BY DEF Slots, Held
<1>5. /\ IsFiniteSet(Slots) /\ Cardinality(Slots) \in Nat
      /\ Cardinality(Held) \in Nat /\ Cardinality(Slots) <= Cardinality(Held)
    BY <1>4, ProjectSets
<1>6. Cardinality(Slots) <= Parallelism
    BY <1>5, ParallelismAssumption DEF Counted, IInv, TypeOK
<1>7. IsFiniteSet(L) /\ Cardinality(L) <= Cardinality(Slots)
    BY <1>3, <1>5, FS_Injection
<1>8. Cardinality(L) <= Parallelism
    BY <1>5, <1>6, <1>7, FS_CardinalityType, ParallelismAssumption
<1> QED
    BY <1>2, <1>7, <1>8 DEF OneAndFew

\* The dispatcher's calls have the main context, and of those that begin once it
\* is cut none has an effect.
LEMMA NoLateCalls ==
    ASSUME MainInv, [ShutdownNext]_allVars, Main \in cut
    PROVE  Dispatcher \in inflight' => Dispatcher \in inflight
<1> USE NameAssumption DEF MainInv
<1>1. CASE ExecutorStep
    BY <1>1 DEF ExecutorStep, Dispatching, Reconciling, Receiving, Exiting, ExitsCut,
       DispatchCut, ReconcileCut, ExitCut, Calls, Finishes
<1>2. CASE DiscoveryStep
    BY <1>2 DEF DiscoveryStep, DiscoveryBegins, DiscoveryCreates, DiscoveryStarts,
       DiscoveryEnds, DiscoveryRemoves, DiscoveryCut, DiscoveryExits, At, Calls, Finishes
<1>3. CASE MainStep
    BY <1>3 DEF MainStep, Signal, HttpDown, CronDown, CancelMain, BeginStop, Exit, StopContainer
<1>4. CASE CancelBackground
    BY <1>4 DEF CancelBackground, InCall, Ctx
<1>5. CASE Outside \/ LoopReturns \/ UNCHANGED allVars
    BY <1>5 DEF Outside, LoopReturns, allVars
<1> QED
    BY <1>1, <1>2, <1>3, <1>4, <1>5 DEF ShutdownNext

LEMMA MayRunShrinks ==
    ASSUME IInv, MainInv, [ShutdownNext]_allVars, Main \in cut, NEW c \in Cids,
           MayRun(c)'
    PROVE  MayRun(c) /\ cproj'[c] = cproj[c]
<1> USE NoLateCalls DEF IInv, TypeOK, CStates, Live, MayRun
<1> DEFINE Goal == MayRun(c) /\ cproj'[c] = cproj[c]
<1>0. CASE UNCHANGED <<cstate, cproj, dpc, dcid>>
    BY <1>0
<1>1. CASE Dispatching
  <2>1. ASSUME NEW d \in Cids, CreateContainer(d), Calls(Dispatcher) PROVE Goal
    BY <2>1 DEF CreateContainer, Calls, Finishes
  <2>2. CASE (StartContainer \/ StartFails) /\ Calls(Dispatcher)
    BY <2>2, NameAssumption DEF StartContainer, StartFails, Calls, Cut, Ctx, Finishes,
       DispatchInv
  <2>3. CASE \/ DispatchTick \/ Query \/ CreateFails \/ Mark \/ Release \/ Record \/ EndPass
             \/ \E p \in Projects : SkipRunning(p) \/ Reserve(p)
    BY <2>3 DEF DispatchTick, Query, CreateFails, Mark, Release, Record, EndPass,
       SkipRunning, Reserve
  <2> QED
    BY <1>1, <2>1, <2>2, <2>3 DEF Dispatching
<1>2. CASE DispatchCut
    BY <1>2 DEF DispatchCut, Effect, DispatchInv
<1>3. CASE Reconciling \/ ReconcileCut
  <2>1. ASSUME NEW d \in Cids, KillOrphan(d) PROVE Goal
    BY <2>1 DEF KillOrphan, Dies
  <2> QED
    BY <1>0, <1>3, <2>1 DEF Reconciling, ReconcileList, AdoptSync, ReconcileTracked,
       ReconcileEnd, Adopt, ReconcileExit, ReconcileCut
<1>4. ASSUME NEW g \in AllHandlers, Exiting(g) PROVE Goal
    BY <1>0, <1>4 DEF Exiting, FindByLabel, Inspect, InspectFails, Update, FindTracked,
       FreeSlot, Remove
<1>5. ASSUME NEW g \in AllHandlers, ExitsCut(g) PROVE Goal
    BY <1>5 DEF ExitsCut, ExitCut, Effect
<1>6. CASE Receiving
    BY <1>0, <1>6 DEF Receiving, HandleEvent
<1>7. CASE Outside
  <2>1. ASSUME NEW d \in Cids, ContainerExit(d) PROVE Goal
    BY <2>1 DEF ContainerExit, Dies
  <2> QED
    BY <1>0, <1>7, <2>1 DEF Outside, Schedule, Cancel, Age, LoseEvents
<1>8. ASSUME NEW p \in Projects, StopContainer(p) PROVE Goal
    BY <1>8 DEF StopContainer, Dies
<1>9. CASE DiscoveryStep \/ CancelBackground \/ LoopReturns \/ UNCHANGED allVars
    BY <1>0, <1>9 DEF DiscoveryStep, CancelBackground, LoopReturns, allVars, vars
<1>10. CASE MainStep
    BY <1>0, <1>8, <1>10 DEF MainStep, Signal, HttpDown, CronDown, CancelMain, BeginStop, Exit
<1> QED
    BY <1>1, <1>2, <1>3, <1>4, <1>5, <1>6, <1>7, <1>9, <1>10 DEF ShutdownNext, ExecutorStep

LEMMA OneAndFewKept ==
    IInv /\ MainInv /\ OneAndFew /\ Main \in cut /\ [ShutdownNext]_allVars => OneAndFew'
<1> SUFFICES ASSUME IInv, MainInv, OneAndFew, Main \in cut, [ShutdownNext]_allVars
             PROVE  OneAndFew'
    OBVIOUS
<1> DEFINE L == {c \in Cids : MayRun(c)}
<1>1. L' \subseteq L /\ \A c \in L' : cproj'[c] = cproj[c]
    BY MayRunShrinks
<1>2. /\ IsFiniteSet(L') /\ Cardinality(L') <= Cardinality(L)
      /\ Cardinality(L) \in Nat /\ Cardinality(L') \in Nat
    BY <1>1, FS_Subset, FS_CardinalityType DEF OneAndFew
<1>3. Cardinality(L') <= Parallelism
    BY <1>2, ParallelismAssumption DEF OneAndFew
<1>4. \A c, d \in L' : cproj'[c] = cproj'[d] => c = d
    BY <1>1 DEF OneAndFew
<1> QED
    BY <1>2, <1>3, <1>4 DEF OneAndFew

LEMMA FirstStep ==
    ASSUME IInv, IInv', MainInv, MainInv', FirstInv, [ShutdownNext]_allVars
    PROVE  ~disturbed' => /\ OneExit'
                          /\ Main \notin cut => Orderly' /\ Counted'
                          /\ Main \in cut => OneAndFew'
<1> SUFFICES ASSUME ~disturbed'
             PROVE  /\ OneExit'
                    /\ Main \notin cut => Orderly' /\ Counted'
                    /\ Main \in cut => OneAndFew'
    OBVIOUS
<1>1. Kinds
    BY StepKinds
<1>2. ~disturbed
  <2>1. CASE Next
    BY <2>1 DEF IInv, TypeOK, Next, Environment, DispatchStep, ExitStep,
       ReconcileStep, Schedule, Cancel, ContainerExit, Age, LoseEvents,
       Restart, DispatchTick, Query, EndPass, CreateFails, StartContainer,
       StartFails, Release, Record, Mark, SkipRunning, Reserve,
       CreateContainer, HandleEvent, FindTracked, FindByLabel, Inspect,
       InspectFails, Update, FreeSlot, Remove, ReconcileList,
       ReconcileTracked, AdoptSync, ReconcileEnd, ReconcileExit, Adopt,
       KillOrphan
  <2>2. CASE ~Next
    BY <1>1, <2>2 DEF Kinds, CutStep, DispatchCut, ReconcileCut, ExitCut, StopContainer, core
  <2> QED
    BY <2>1, <2>2
<1>3. ASSUME Main \notin cut PROVE Orderly' /\ Counted'
  <2>1. ~CutStep /\ ~\E p \in Projects : StopContainer(p)
    BY <1>3, HandlerContext, NameAssumption DEF CutStep, DispatchCut, ReconcileCut, ExitCut,
       Cut, Ctx, AllHandlers, StopContainer, MainInv
  <2>2. CASE Next
    BY <1>2, <1>3, <2>2, OrderlyStep, CountedStep DEF FirstInv
  <2>3. CASE UNCHANGED core
    BY <1>2, <1>3, <2>3 DEF FirstInv, core, Orderly, Counted, Pending, Live, Stopped, Filling,
       Held, Slots, Taken
  <2> QED
    BY <1>1, <2>1, <2>2, <2>3 DEF Kinds
<1> QED
    BY <1>1, <1>2, <1>3, OneExitStep, OneAndFewKept DEF FirstInv

LEMMA FirstKept == ShutdownSpec => []FirstInv
<1>1. ShutdownInit => FirstInv
  <2> SUFFICES ASSUME ShutdownInit PROVE OneExit /\ Orderly /\ Counted
    BY DEF ShutdownInit, FirstInv
  <2>1. Orderly
    BY DEF ShutdownInit, Init, Orderly, Pending, Live, Stopped, AllHandlers
  <2>2. Slots = {}
    BY DEF ShutdownInit, Init, Slots, Taken
  <2>3. Cardinality(Slots) = 0
    BY <2>2, FS_EmptySet
  <2> QED
    BY <2>1, <2>3, ParallelismAssumption DEF ShutdownInit, Init, Counted, Filling, Orderly,
       OneExit
<1>2. (IInv /\ Orderly /\ Counted => OneAndFew)'
    BY SlotsGiveOneAndFew, PTL
<1>3. IInv /\ IInv' /\ MainInv /\ MainInv' /\ FirstInv /\ [ShutdownNext]_allVars => FirstInv'
  <2> SUFFICES ASSUME IInv, IInv', MainInv, MainInv', FirstInv, [ShutdownNext]_allVars,
                      ~disturbed'
               PROVE  /\ OneExit'
                      /\ Main \notin cut' => Orderly' /\ Counted'
                      /\ Main \in cut' => OneAndFew'
    BY DEF FirstInv
  <2>1. Main \in cut => Main \in cut'
    BY DEF ShutdownNext, allVars, ExecutorStep, Outside, DiscoveryStep, MainStep, Signal,
       HttpDown, CronDown, CancelMain, BeginStop, Exit, StopContainer, CancelBackground,
       LoopReturns, svars
  <2> QED
    BY <1>2, <2>1, FirstStep
<1> QED
    BY <1>1, <1>3, Established, PTL DEF ShutdownSpec

\* What README.md:91 and 345 say, and that no exit counts twice against the
\* breaker, holds to the end of the process: neither a dispatch cut off between
\* Docker's start and its own bookkeeping, nor slots deleted by Stop while
\* handlers and a pass are still at work, makes room for a container too many.
THEOREM UndisturbedToTheEnd ==
    ShutdownSpec => [](/\ ParallelismUndisturbed
                       /\ OnePerProjectUndisturbed
                       /\ ReportedOnceUndisturbed)
<1>1. IInv /\ FirstInv /\ ~disturbed => OneExit /\ OneAndFew
    BY SlotsGiveOneAndFew DEF FirstInv
<1>2. OneAndFew => /\ Cardinality({c \in Cids : Live(c)}) <= Parallelism
                   /\ \A c, d \in Cids :
                        (Live(c) /\ Live(d) /\ cproj[c] = cproj[d]) => c = d
  <2> SUFFICES ASSUME OneAndFew
               PROVE  /\ Cardinality({c \in Cids : Live(c)}) <= Parallelism
                      /\ \A c, d \in Cids :
                           (Live(c) /\ Live(d) /\ cproj[c] = cproj[d]) => c = d
    OBVIOUS
  <2> DEFINE L == {c \in Cids : MayRun(c)}
             R == {c \in Cids : Live(c)}
  <2>1. R \subseteq L
    BY DEF MayRun
  <2>2. /\ Cardinality(R) <= Cardinality(L)
        /\ Cardinality(L) \in Nat /\ Cardinality(R) \in Nat
    BY <2>1, FS_Subset, FS_CardinalityType DEF OneAndFew
  <2>3. Cardinality(R) <= Parallelism
    BY <2>2, ParallelismAssumption DEF OneAndFew
  <2> QED
    BY <2>1, <2>3 DEF OneAndFew
<1>3. IInv /\ FirstInv => /\ ParallelismUndisturbed /\ OnePerProjectUndisturbed
                          /\ ReportedOnceUndisturbed
    BY <1>1, <1>2 DEF ParallelismUndisturbed, OnePerProjectUndisturbed,
       ReportedOnceUndisturbed, OneExit
<1> QED
    BY <1>3, FirstKept, Established, PTL

-----------------------------------------------------------------------------
(* What no step may do, the cut ones and those of Stop included *)

LEMMA KindsKeep == IInv /\ ReportInv /\ Kinds => Kept
<1> SUFFICES ASSUME IInv, ReportInv, Kinds PROVE Kept
    OBVIOUS
<1> USE DEF IInv, TypeOK, Live, Kept
<1>1. CASE Next
    BY <1>1, KeptStep
<1>2. CASE DispatchCut
    BY <1>2 DEF DispatchCut, Effect, DispatchInv
<1>3. ASSUME NEW h \in AllHandlers, ExitCut(h) PROVE Kept
    BY <1>3 DEF ExitCut, Effect, ExitInv, Stopped
<1>4. ASSUME NEW p \in Projects, StopContainer(p) PROVE Kept
    BY <1>4 DEF StopContainer, Dies
<1>5. CASE ReconcileCut \/ UNCHANGED core
    BY <1>5 DEF ReconcileCut, core
<1> QED
    BY <1>1, <1>2, <1>3, <1>4, <1>5 DEF Kinds, CutStep

LEMMA KindsEvident == IInv /\ Kinds => Evident
<1>1. CutStep => UNCHANGED status
    BY DEF CutStep, DispatchCut, ReconcileCut, ExitCut
<1>2. (\E p \in Projects : StopContainer(p)) \/ UNCHANGED core => UNCHANGED status
    BY DEF StopContainer, core
<1>3. UNCHANGED status => Evident
    BY DEF Evident
<1> QED
    BY <1>1, <1>2, <1>3, EvidentStep DEF Kinds

\* The forced removal of a call that was in flight when its context was cut kills
\* no more than one that returned, and a container Stop has stopped stays stopped
\* (docker.go:272-309, 915).
THEOREM ShutdownRemovesNoLive == ShutdownSpec => NeverRemovesLive
<1>1. IInv /\ ReportInv /\ [ShutdownNext]_allVars => [Kept]_vars
    BY StepKinds, KindsKeep
<1> QED
    BY <1>1, Established, PTL DEF ShutdownSpec, NeverRemovesLive, Kept

\* No row is given a verdict for a container that Stop or a cut took away.
THEOREM ShutdownVerdictsEvidenced == ShutdownSpec => VerdictHasEvidence
<1>1. IInv /\ ReportInv /\ [ShutdownNext]_allVars => [Evident]_vars
    BY StepKinds, KindsEvident
<1> QED
    BY <1>1, Established, PTL DEF ShutdownSpec, VerdictHasEvidence, Evident

-----------------------------------------------------------------------------
(* The end is near *)

ToStop == {p \in Projects : copy[p] # Free}

\* The steps run has still to take.
RunLeft ==
    LET n == Cardinality(Projects)
    IN  CASE mpc = "serving"  -> n + 6
          [] mpc = "http"     -> n + 5
          [] mpc = "cron"     -> n + 4
          [] mpc = "cancel"   -> n + 3
          [] mpc = "stop"     -> n + 2
          [] mpc = "stopping" -> Cardinality(ToStop) + 1
          [] OTHER            -> 0

LEMMA CopiesBounded ==
    /\ IsFiniteSet(ToStop) /\ Cardinality(ToStop) \in Nat /\ Cardinality(Projects) \in Nat
    /\ Cardinality(ToStop) <= Cardinality(Projects)
<1>1. ToStop \subseteq Projects
    BY DEF ToStop
<1> QED
    BY <1>1, SetAssumption, FS_Subset, FS_CardinalityType

LEMMA RunFalls ==
    ASSUME MainInv, MainStep, Cardinality(ToStop)' <= Cardinality(Projects),
           Cardinality(ToStop)' \in Nat
    PROVE  RunLeft' < RunLeft
<1> USE CopiesBounded DEF RunLeft, MainInv
<1>1. CASE Signal \/ HttpDown \/ CronDown \/ CancelMain
    BY <1>1 DEF Signal, HttpDown, CronDown, CancelMain
<1>2. CASE BeginStop
    BY <1>2 DEF BeginStop
<1>3. CASE Exit
    BY <1>3 DEF Exit
<1>4. ASSUME NEW p \in Projects, StopContainer(p) PROVE RunLeft' < RunLeft
  <2>1. ToStop' = ToStop \ {p} /\ p \in ToStop
    BY <1>4 DEF StopContainer, ToStop
  <2>2. Cardinality(ToStop \ {p}) = Cardinality(ToStop) - 1
    BY <2>1, FS_RemoveElement
  <2>3. mpc = "stopping" /\ mpc' = "stopping"
    BY <1>4 DEF StopContainer
  <2> QED
    BY <2>1, <2>2, <2>3
<1> QED
    BY <1>1, <1>2, <1>3, <1>4 DEF MainStep

LEMMA RunElsewhere == MainInv /\ [ShutdownNext]_allVars /\ ~MainStep => RunLeft' = RunLeft
<1> SUFFICES ASSUME MainInv, [ShutdownNext]_allVars, ~MainStep PROVE RunLeft' = RunLeft
    OBVIOUS
<1>1. UNCHANGED <<mpc, copy>>
    BY DEF MainInv, ShutdownNext, allVars, ExecutorStep, Outside, DiscoveryStep,
       CancelBackground, LoopReturns
<1> QED
    BY <1>1 DEF RunLeft, ToStop

\* Every step run takes brings its end nearer and nothing else sets it back: no
\* dispatch, handler or pass adds to what Stop has copied (main.go:209-247,
\* docker.go:272-309).  Fairness to MainStep, whose waits are all bounded, is all
\* that Exits needs.
THEOREM RunIsBounded ==
    ShutdownSpec => /\ [](RunLeft \in 0 .. Cardinality(Projects) + 6)
                    /\ [][/\ MainStep => RunLeft' < RunLeft
                          /\ ~MainStep => RunLeft' = RunLeft]_allVars
<1>1. MainInv => RunLeft \in 0 .. Cardinality(Projects) + 6
    BY CopiesBounded DEF RunLeft
<1>2. (/\ Cardinality(ToStop) \in Nat
       /\ Cardinality(ToStop) <= Cardinality(Projects))'
    BY CopiesBounded, PTL
<1>3. MainInv /\ [ShutdownNext]_allVars =>
        [/\ MainStep => RunLeft' < RunLeft
         /\ ~MainStep => RunLeft' = RunLeft]_allVars
    BY <1>2, RunFalls, RunElsewhere
<1> QED
    BY <1>1, <1>3, Established, PTL DEF ShutdownSpec
===============================================================================
