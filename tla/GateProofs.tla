------------------------------ MODULE GateProofs ------------------------------
(***************************************************************************)
(* The callers of the manager use it as its specification allows, so that  *)
(* what ResilienceProofs shows holds in their midst; and what the two      *)
(* kinds of 202 promise holds for any number of projects, requests and     *)
(* faults.                                                                 *)
(***************************************************************************)
EXTENDS Gate, ResilienceProofs, FiniteSetTheorems

\* GateTypeOK without the manager's own variables.
CallerTypes ==
    /\ status \in [Rows -> {"scheduled", "running", "completed", "failed",
                            "cancelled"}]
    /\ container \in [Rows -> {"none", "started", "running", "completed",
                               "failed"}]
    /\ wpc \in [Hooks -> {"idle", "schedule", "enqueue"}]
    /\ wproj \in [Hooks -> Rows \cup {None}]
    /\ cpc \in {"idle", "discover", "dispatch", "schedule"}
    /\ ctodo \subseteq Rows /\ cproj \in Rows \cup {None}
    /\ xtodo \subseteq Rows /\ atodo \subseteq Rows /\ apc \in {"idle", "write"}
    /\ owed \subseteq Rows /\ asked \in [Rows -> {"no", "quiet", "busy"}]
    /\ requests \in Nat /\ faults \in Nat

\* An actor that is about to call or write has a row in its hands, and nothing
\* but rows is ever queued.
Named ==
    /\ \A w \in Hooks : wpc[w] # "idle" => wproj[w] \in Rows
    /\ cpc = "schedule" => cproj \in Rows
    /\ pendingReplay \subseteq Rows

LEMMA RowsAreProjects == Rows \subseteq Projects
  BY DEF Rows

LEMMA TypesSplit == GateTypeOK <=> TypeOK /\ CallerTypes
  BY DEF GateTypeOK, CallerTypes

-----------------------------------------------------------------------------

\* Whatever a step of Gate does to the manager is one call of it.
LEMMA ManagerStep == Named /\ [GateNext]_vars => [Next]_manager
<1> SUFFICES ASSUME Named, [GateNext]_vars PROVE Next \/ UNCHANGED manager
  OBVIOUS
<1>0. Rows \subseteq Projects
  BY RowsAreProjects
<1>1. ASSUME NEW w \in Hooks, NEW p \in Rows, Ask(w, p)
      PROVE  Next \/ UNCHANGED manager
  BY <1>0, <1>1, SourcesAssumption DEF Ask, Next
<1>2. ASSUME NEW w \in Hooks, HookStep(w) PROVE Next \/ UNCHANGED manager
  <2>1. CASE HookEnqueue(w)
    BY <1>0, <2>1 DEF HookEnqueue, Named, Next
  <2> QED
    BY <1>2, <2>1 DEF HookStep, HookSchedule, HookRefuse
<1>3. CASE CronStep
  <2>1. CASE CronDiscover
    BY <2>1, DiscoveryAssumption DEF CronDiscover, Next
  <2>2. ASSUME NEW p \in Rows, CronAsk(p) PROVE Next \/ UNCHANGED manager
    BY <1>0, <2>2, SourcesAssumption DEF CronAsk, Next
  <2> QED
    BY <1>3, <2>1, <2>2
    DEF CronStep, CronStart, CronDiscoverFails, CronSchedule, CronEnd
<1>4. CASE ReplayStep \/ RunAllWrite
  BY <1>4 DEF ReplayStep, Replay, ReplayFails, RunAllWrite
<1>5. ASSUME NEW p \in Rows, RunStep(p) PROVE Next \/ UNCHANGED manager
  BY <1>0, <1>5 DEF RunStep, StartRun, MarkRunning, EndRun, WriteVerdict, Next
<1>6. CASE Clock
  BY <1>6 DEF Clock, Next
<1>7. ASSUME NEW p \in Rows, BypassBreaker(p) \/ RunProject(p) \/ Cancel(p)
      PROVE  Next \/ UNCHANGED manager
  BY <1>0, <1>7 DEF BypassBreaker, RunProject, Cancel, Next
<1>8. CASE ResetBreaker \/ RunAllRead \/ DiscoverOnRequest
  BY <1>8, DiscoveryAssumption DEF ResetBreaker, RunAllRead, DiscoverOnRequest, Next
<1>9. CASE UNCHANGED vars
  BY <1>9 DEF vars
<1> QED
  BY <1>1, <1>2, <1>3, <1>4, <1>5, <1>6, <1>7, <1>8, <1>9 DEF GateNext, Requests

LEMMA InitNamed == GateInit => Named
  BY DEF GateInit, Init, Named

\* Webhooks are the only ones to queue, and they queue rows.
LEMMA NextNamed == CallerTypes /\ Named /\ [GateNext]_vars => Named'
<1> SUFFICES ASSUME CallerTypes, Named, [GateNext]_vars PROVE Named'
  OBVIOUS
<1>1. ASSUME NEW w \in Hooks, NEW p \in Rows, Ask(w, p) PROVE Named'
  <2>1. wpc' \in [Hooks -> {"idle", "schedule", "enqueue"}]
    BY <1>1 DEF Ask, CallerTypes
  <2>2. pendingReplay' \subseteq pendingReplay
    BY <1>1 DEF Ask, Allow, manager
  <2>3. \A v \in Hooks : wpc'[v] # "idle" => wproj'[v] \in Rows
    BY <1>1 DEF Ask, CallerTypes, Named
  <2>4. UNCHANGED <<cpc, cproj>>
    BY <1>1 DEF Ask, cron
  <2> QED
    BY <2>2, <2>3, <2>4 DEF Named
<1>2. ASSUME NEW w \in Hooks, HookStep(w) PROVE Named'
  <2>1. HookDone(w) /\ UNCHANGED <<cpc, cproj>>
    BY <1>2 DEF HookStep, HookSchedule, HookEnqueue, HookRefuse, cron
  <2>2. \A v \in Hooks : wpc'[v] # "idle" => wproj'[v] \in Rows
    BY <2>1 DEF HookDone, CallerTypes, Named
  <2>3. wpc[w] = "enqueue" => wproj[w] \in Rows
    BY DEF Named
  <2>4. pendingReplay' \subseteq Rows
    BY <1>2, <2>3
    DEF HookStep, HookSchedule, HookEnqueue, HookRefuse, Enqueue, manager, Named
  <2> QED
    BY <2>1, <2>2, <2>4 DEF Named
<1>3. ASSUME NEW p \in Rows, CronAsk(p) PROVE Named'
  BY <1>3 DEF CronAsk, Allow, Named, manager, hook
<1>4. CASE CronStart \/ CronDiscover \/ CronDiscoverFails \/ CronSchedule \/ CronEnd
  <2>1. UNCHANGED <<wpc, wproj, pendingReplay>>
    BY <1>4 DEF CronStart, CronDiscover, CronDiscoverFails, CronSchedule,
                CronEnd, Report, manager, hook
  <2>2. cpc' # "schedule"
    BY <1>4 DEF CronStart, CronDiscover, CronDiscoverFails, CronSchedule, CronEnd
  <2> QED
    BY <2>1, <2>2 DEF Named
<1>5. ASSUME UNCHANGED <<wpc, wproj, cpc, cproj>>,
             pendingReplay' \subseteq pendingReplay
      PROVE  Named'
  BY <1>5 DEF Named
<1>6. CASE ReplayStep \/ RunAllWrite \/ Clock \/ ResetBreaker \/ RunAllRead
           \/ DiscoverOnRequest
  BY <1>5, <1>6
  DEF ReplayStep, Replay, ReplayFails, RunAllWrite, Clock, ResetBreaker,
      RunAllRead, DiscoverOnRequest, Tick, Reset, Report, manager, hook, cron
<1>7. ASSUME NEW p \in Rows,
             RunStep(p) \/ BypassBreaker(p) \/ RunProject(p) \/ Cancel(p)
      PROVE  Named'
  BY <1>5, <1>7
  DEF RunStep, StartRun, MarkRunning, EndRun, WriteVerdict, BypassBreaker,
      RunProject, Cancel, Report, MarkManual, manager, hook, cron
<1>8. CASE UNCHANGED vars
  BY <1>5, <1>8 DEF vars, manager, hook, cron
<1> QED
  BY <1>1, <1>2, <1>3, <1>4, <1>6, <1>7, <1>8 DEF GateNext, Requests, CronStep

-----------------------------------------------------------------------------

LEMMA InitCallers == GateInit => CallerTypes
  BY DEF GateInit, CallerTypes

LEMMA NextCallers == CallerTypes /\ Named /\ [GateNext]_vars => CallerTypes'
<1> SUFFICES ASSUME CallerTypes, Named, [GateNext]_vars PROVE CallerTypes'
  OBVIOUS
<1> USE DEF CallerTypes
<1>1. ASSUME NEW w \in Hooks, NEW p \in Rows, Ask(w, p) PROVE CallerTypes'
  <2>1. wpc' \in [Hooks -> {"idle", "schedule", "enqueue"}]
    BY <1>1 DEF Ask
  <2> QED
    BY <1>1, <2>1 DEF Ask, Request, row, executor, cron, api
<1>2. ASSUME NEW w \in Hooks, HookStep(w) PROVE CallerTypes'
  <2>1. HookDone(w) /\ UNCHANGED <<container, cron, api, requests>>
    BY <1>2 DEF HookStep, HookSchedule, HookEnqueue, HookRefuse, executor
  <2>2. wpc[w] # "idle" /\ wproj[w] \in Rows
    BY <1>2 DEF HookStep, HookSchedule, HookEnqueue, HookRefuse, Named
  <2>3. /\ status' \in [Rows -> {"scheduled", "running", "completed", "failed",
                                  "cancelled"}]
        /\ owed' \subseteq Rows /\ asked' \in [Rows -> {"no", "quiet", "busy"}]
        /\ faults' \in Nat
    BY <1>2, <2>2
    DEF HookStep, HookSchedule, HookEnqueue, HookRefuse, Scheduled, Fault, row
  <2> QED
    BY <2>1, <2>3 DEF HookDone, cron, api
<1>3. CASE CronStep
  <2>1. UNCHANGED <<container, hook, api, requests>>
    BY <1>3 DEF CronStep, CronStart, CronDiscover, CronDiscoverFails, CronAsk,
                CronSchedule, CronEnd, executor
  <2>2. /\ cpc' \in {"idle", "discover", "dispatch", "schedule"}
        /\ ctodo' \subseteq Rows /\ cproj' \in Rows \cup {None}
    BY <1>3 DEF CronStep, CronStart, CronDiscover, CronDiscoverFails, CronAsk,
                CronSchedule, CronEnd
  <2>3. /\ status' \in [Rows -> {"scheduled", "running", "completed", "failed",
                                  "cancelled"}]
        /\ owed' \subseteq Rows /\ asked' \in [Rows -> {"no", "quiet", "busy"}]
        /\ faults' \in Nat
    BY <1>3 DEF CronStep, CronStart, CronDiscover, CronDiscoverFails, CronAsk,
                CronSchedule, CronEnd, TrySchedule, Scheduled, Fault, row
  <2> QED
    BY <2>1, <2>2, <2>3 DEF hook, api
<1>4. CASE ReplayStep \/ RunAllWrite
  <2>1. UNCHANGED <<container, hook, cron, requests>>
    BY <1>4 DEF ReplayStep, Replay, ReplayFails, RunAllWrite, executor
  <2>2. /\ xtodo' \subseteq Rows /\ atodo' \subseteq Rows
        /\ apc' \in {"idle", "write"}
    BY <1>4 DEF ReplayStep, Replay, ReplayFails, RunAllWrite
  <2>3. /\ status' \in [Rows -> {"scheduled", "running", "completed", "failed",
                                  "cancelled"}]
        /\ owed' \subseteq Rows /\ asked' \in [Rows -> {"no", "quiet", "busy"}]
        /\ faults' \in Nat
    BY <1>4 DEF ReplayStep, Replay, ReplayFails, RunAllWrite, TrySchedule,
                Scheduled, Fault, row
  <2> QED
    BY <2>1, <2>2, <2>3 DEF hook, cron
<1>5. ASSUME NEW p \in Rows, RunStep(p) PROVE CallerTypes'
  <2>1. /\ UNCHANGED <<hook, cron, api, requests, owed>>
        /\ asked' \in [Rows -> {"no", "quiet", "busy"}]
    BY <1>5 DEF RunStep, StartRun, MarkRunning, EndRun, WriteVerdict, TryWrite, row
  <2>2. /\ status' \in [Rows -> {"scheduled", "running", "completed", "failed",
                                  "cancelled"}]
        /\ faults' \in Nat
    BY <1>5 DEF RunStep, StartRun, MarkRunning, EndRun, WriteVerdict, TryWrite,
                Fault, row
  <2>3. container' \in [Rows -> {"none", "started", "running", "completed",
                                 "failed"}]
    BY <1>5 DEF RunStep, StartRun, MarkRunning, EndRun, WriteVerdict
  <2> QED
    BY <2>1, <2>2, <2>3 DEF hook, cron, api
<1>6. ASSUME NEW p \in Rows, BypassBreaker(p) \/ RunProject(p) \/ Cancel(p)
      PROVE  CallerTypes'
  BY <1>6 DEF BypassBreaker, RunProject, Cancel, Request, Scheduled, row,
              executor, hook, cron, api
<1>7. CASE ResetBreaker \/ RunAllRead
  BY <1>7 DEF ResetBreaker, RunAllRead, Request, Named, row, executor, hook, cron
<1>8. CASE DiscoverOnRequest \/ Clock \/ UNCHANGED vars
  BY <1>8 DEF DiscoverOnRequest, Clock, vars, row, executor, hook, cron, api
<1> QED
  BY <1>1, <1>2, <1>3, <1>4, <1>5, <1>6, <1>7, <1>8 DEF GateNext, Requests

\* What every theorem below starts from.
LEMMA Grounded == GateSpec => [](TypeOK /\ CallerTypes /\ Named)
<1>1. GateInit => TypeOK /\ CallerTypes /\ Named
  BY InitTypes, InitCallers, InitNamed DEF GateInit
<1>2. TypeOK /\ CallerTypes /\ Named /\ [GateNext]_vars
        => (TypeOK /\ CallerTypes /\ Named)'
  BY ManagerStep, NextTypes, NextCallers, NextNamed
<1> QED
  BY <1>1, <1>2, PTL DEF GateSpec

\* Type correctness of the callers: in particular a reset replays only what was
\* queued, and only rows are ever queued (server.go:703-746).
THEOREM GateTypes == GateSpec => []GateTypeOK
<1>1. TypeOK /\ CallerTypes /\ Named => GateTypeOK
  BY TypesSplit
<1> QED
  BY <1>1, Grounded, PTL

\* Webhook, cron cycle, API and executor use the manager as its specification
\* allows: every theorem of ResilienceProofs holds in their midst.
THEOREM GateUsesManager == GateSpec => Spec
<1>1. GateInit => Init
  BY DEF GateInit
<1>2. Named /\ [GateNext]_vars => [Next]_manager
  BY ManagerStep
<1> QED
  BY <1>1, <1>2, Grounded, PTL DEF GateSpec, Spec

-----------------------------------------------------------------------------

\* QuietEventRuns needs to know that no run is in progress either: the writes
\* of a run are what could overwrite the event.
Quiet ==
    \A p \in Rows :
        asked[p] = "quiet" => status[p] = "scheduled" /\ container[p] = "none"

LEMMA NextQuiet == CallerTypes /\ Named /\ Quiet /\ [GateNext]_vars => Quiet'
<1> SUFFICES ASSUME CallerTypes, Named, Quiet, [GateNext]_vars PROVE Quiet'
  OBVIOUS
<1>1. CASE UNCHANGED <<status, asked, container>>
  BY <1>1 DEF Quiet
<1>2. ASSUME NEW p \in Rows, Scheduled(p), UNCHANGED <<asked, container>>
      PROVE  Quiet'
  BY <1>2 DEF Scheduled, Quiet, CallerTypes
<1>3. ASSUME NEW w \in Hooks, HookStep(w) PROVE Quiet'
  <2>1. CASE HookSchedule(w)
    <3>1. wproj[w] \in Rows
      BY <2>1 DEF HookSchedule, Named
    <3> QED
      BY <1>1, <2>1, <3>1
      DEF HookSchedule, Scheduled, Quiet, CallerTypes, executor, row
  <2> QED
    BY <1>1, <1>3, <2>1 DEF HookStep, HookEnqueue, HookRefuse, row, executor
<1>4. CASE CronSchedule
  <2>1. cproj \in Rows
    BY <1>4 DEF CronSchedule, Named
  <2> QED
    BY <1>1, <1>2, <1>4, <2>1 DEF CronSchedule, TrySchedule, row, executor
<1>5. CASE CronStart \/ CronDiscover \/ CronDiscoverFails \/ CronEnd
           \/ \E p \in Rows : CronAsk(p)
  BY <1>1, <1>5 DEF CronStart, CronDiscover, CronDiscoverFails, CronEnd, CronAsk,
                    row, executor
<1>6. CASE ReplayStep
  BY <1>1, <1>2, <1>6 DEF ReplayStep, Replay, ReplayFails, TrySchedule, row,
                          executor
<1>7. CASE RunAllWrite
  BY <1>1, <1>7 DEF RunAllWrite, Quiet, CallerTypes, executor, row
<1>8. ASSUME NEW p \in Rows, RunStep(p) PROVE Quiet'
  <2>1. CASE StartRun(p)
    BY <2>1 DEF StartRun, Quiet, CallerTypes
  <2>2. CASE MarkRunning(p) \/ WriteVerdict(p)
    <3>1. container[p] # "none" /\ asked' = asked
      BY <2>2 DEF MarkRunning, WriteVerdict, TryWrite
    <3>2. \A q \in Rows : q # p => status'[q] = status[q] /\ container'[q] = container[q]
      BY <2>2 DEF MarkRunning, WriteVerdict, TryWrite, CallerTypes
    <3> QED
      BY <3>1, <3>2 DEF Quiet
  <2>3. CASE EndRun(p)
    BY <2>3 DEF EndRun, Quiet, CallerTypes, row
  <2> QED
    BY <1>8, <2>1, <2>2, <2>3 DEF RunStep
<1>9. ASSUME NEW p \in Rows, BypassBreaker(p) \/ RunProject(p) PROVE Quiet'
  BY <1>1, <1>2, <1>9 DEF BypassBreaker, RunProject, row, executor
<1>10. ASSUME NEW p \in Rows, Cancel(p) PROVE Quiet'
  BY <1>10 DEF Cancel, Quiet, CallerTypes, executor
<1>11. CASE ResetBreaker \/ RunAllRead \/ DiscoverOnRequest \/ Clock
            \/ UNCHANGED vars \/ \E w \in Hooks, p \in Rows : Ask(w, p)
  BY <1>1, <1>11
  DEF ResetBreaker, RunAllRead, DiscoverOnRequest, Clock, Ask, vars, row, executor
<1> QED
  BY <1>3, <1>4, <1>5, <1>6, <1>7, <1>8, <1>9, <1>10, <1>11
  DEF GateNext, Requests, CronStep

\* A webhook that was answered "scheduled" while its project was not being run
\* gets its run: nothing overwrites the row before (forgejo.go:180-198).
THEOREM QuietEventsRun == GateSpec => []QuietEventRuns
<1>1. GateInit => Quiet
  BY DEF GateInit, Quiet
<1>2. Quiet => QuietEventRuns
  BY DEF Quiet, QuietEventRuns
<1> QED
  BY <1>1, <1>2, NextQuiet, Grounded, PTL DEF GateSpec

-----------------------------------------------------------------------------

\* Where p's queue entry is: in the queue or in the hands of an actor.
Held(p) ==
    \/ p \in pendingReplay \/ p \in xtodo
    \/ \E w \in Hooks : wpc[w] = "schedule" /\ wproj[w] = p
    \/ cpc = "schedule" /\ cproj = p

LEMMA KeptHeld == QueuedIsKept <=> (faults = 0 => \A p \in owed : Held(p))
  BY DEF QueuedIsKept, InHand, Held

LEMMA NextKept ==
    CallerTypes /\ Named /\ QueuedIsKept /\ [GateNext]_vars => QueuedIsKept'
<1> SUFFICES ASSUME CallerTypes, Named, [GateNext]_vars, QueuedIsKept, faults' = 0
             PROVE  \A p \in owed' : Held(p)'
  BY DEF QueuedIsKept, InHand, Held
<1>0. faults = 0 /\ ~Fault
  <2>1. faults \in Nat
    BY DEF CallerTypes
  <2>2. ~Fault
    BY <2>1 DEF Fault
  <2>3. faults' = faults
    BY <2>2
    DEF GateNext, Requests, Ask, BypassBreaker, RunProject, Cancel, ResetBreaker,
        RunAllRead, DiscoverOnRequest, HookStep, HookSchedule, HookEnqueue, HookRefuse, CronStep,
        CronStart, CronDiscover, CronDiscoverFails, CronAsk, CronSchedule,
        CronEnd, TrySchedule, ReplayStep, Replay, ReplayFails, RunAllWrite,
        RunStep, StartRun, MarkRunning, EndRun, WriteVerdict, TryWrite, Clock,
        vars
  <2> QED
    BY <2>2, <2>3
<1>1. \A p \in owed : Held(p)
  BY <1>0, KeptHeld
<1>2. ASSUME owed' \subseteq owed, pendingReplay \subseteq pendingReplay',
             xtodo \subseteq xtodo', UNCHANGED <<hook, cpc, cproj>>
      PROVE  \A p \in owed' : Held(p)'
  BY <1>1, <1>2 DEF Held, hook
<1>3. ASSUME NEW w \in Hooks, NEW p \in Rows, Ask(w, p)
      PROVE  \A q \in owed' : Held(q)'
  <2> SUFFICES ASSUME NEW q \in owed PROVE Held(q)'
    BY <1>3 DEF Ask, row
  <2>1. /\ UNCHANGED <<xtodo, cpc, cproj>> /\ wpc[w] = "idle"
        /\ \A v \in Hooks : v # w => wpc'[v] = wpc[v] /\ wproj'[v] = wproj[v]
    BY <1>3 DEF Ask, cron, api, CallerTypes
  <2>2. CASE Allow(p, "webhook") /\ wpc' = [wpc EXCEPT ![w] = "schedule"]
    <3>1. wpc'[w] = "schedule" /\ wproj'[w] = p
      BY <1>3, <2>2 DEF Ask, CallerTypes
    <3>2. pendingReplay' = pendingReplay \ {p}
      BY <2>2 DEF Allow
    <3>3. CASE q = p
      BY <3>1, <3>3 DEF Held
    <3>4. CASE q # p
      BY <1>1, <2>1, <3>2, <3>4 DEF Held
    <3> QED
      BY <3>3, <3>4
  <2>3. CASE UNCHANGED manager
    <3>1. pendingReplay' = pendingReplay
      BY <2>3 DEF manager
    <3> QED
      BY <1>1, <2>1, <3>1 DEF Held
  <2> QED
    BY <1>3, <2>2, <2>3 DEF Ask
<1>4. ASSUME NEW w \in Hooks, HookStep(w) PROVE \A q \in owed' : Held(q)'
  <2>1. /\ UNCHANGED <<xtodo, cpc, cproj>> /\ HookDone(w)
        /\ \A v \in Hooks : v # w => wpc'[v] = wpc[v] /\ wproj'[v] = wproj[v]
    BY <1>4 DEF HookStep, HookSchedule, HookEnqueue, HookRefuse, HookDone, cron,
                api, CallerTypes
  <2>2. CASE HookSchedule(w)
    <3>1. owed' = owed \ {wproj[w]} /\ pendingReplay' = pendingReplay
      BY <1>0, <2>2 DEF HookSchedule, Scheduled, manager
    <3> QED
      BY <1>1, <2>1, <3>1 DEF Held
  <2>3. CASE HookEnqueue(w)
    <3>1. /\ owed' = owed \cup {wproj[w]} /\ wpc[w] = "enqueue"
          /\ pendingReplay' = pendingReplay \cup {wproj[w]}
      BY <2>3 DEF HookEnqueue, Enqueue
    <3> QED
      BY <1>1, <2>1, <3>1 DEF Held
  <2>4. CASE HookRefuse(w)
    <3>1. owed' = owed /\ wpc[w] = "enqueue" /\ pendingReplay' = pendingReplay
      BY <2>4 DEF HookRefuse, row, manager
    <3> QED
      BY <1>1, <2>1, <3>1 DEF Held
  <2> QED
    BY <1>4, <2>2, <2>3, <2>4 DEF HookStep
<1>5. ASSUME NEW p \in Rows, CronAsk(p) PROVE \A q \in owed' : Held(q)'
  <2>1. /\ owed' = owed /\ UNCHANGED <<xtodo, wpc, wproj>> /\ cpc = "dispatch"
    BY <1>5 DEF CronAsk, row, hook, api
  <2>2. CASE Allow(p, "cron") /\ cpc' = "schedule" /\ cproj' = p
    BY <1>1, <2>1, <2>2 DEF Allow, Held
  <2>3. CASE UNCHANGED <<manager, cpc, cproj>>
    BY <1>1, <2>1, <2>3 DEF Held, manager
  <2> QED
    BY <1>5, <2>2, <2>3 DEF CronAsk
<1>6. CASE CronSchedule
  <2>1. /\ owed' = owed \ {cproj}
        /\ UNCHANGED <<xtodo, wpc, wproj, pendingReplay>>
    BY <1>0, <1>6 DEF CronSchedule, TrySchedule, Scheduled, manager, hook, api
  <2> QED
    BY <1>1, <2>1 DEF Held
<1>7. CASE CronStart \/ CronDiscover \/ CronDiscoverFails \/ CronEnd
  <2>1. cpc # "schedule"
    BY <1>7 DEF CronStart, CronDiscover, CronDiscoverFails, CronEnd
  <2>2. UNCHANGED <<owed, xtodo, wpc, wproj, pendingReplay>>
    BY <1>7 DEF CronStart, CronDiscover, CronDiscoverFails, CronEnd, Report,
                manager, row, hook, api
  <2> QED
    BY <1>1, <2>1, <2>2 DEF Held
<1>8. CASE ReplayStep
  <2>1. PICK p \in Rows : Replay(p)
    BY <1>0, <1>8 DEF ReplayStep, ReplayFails
  <2>2. /\ xtodo' = xtodo \ {p} /\ owed' = owed \ {p}
        /\ UNCHANGED <<wpc, wproj, cpc, cproj, pendingReplay>>
    BY <1>0, <2>1 DEF Replay, TrySchedule, Scheduled, manager, hook, cron
  <2> QED
    BY <1>1, <2>2 DEF Held
<1>9. CASE ResetBreaker
  <2>1. /\ xtodo' = xtodo \cup pendingReplay
        /\ UNCHANGED <<owed, wpc, wproj, cpc, cproj>>
    BY <1>9 DEF ResetBreaker, row, hook, cron
  <2> QED
    BY <1>1, <2>1 DEF Held
<1>10. CASE RunAllWrite \/ RunAllRead \/ DiscoverOnRequest \/ Clock
            \/ UNCHANGED vars
  BY <1>2, <1>10 DEF RunAllWrite, RunAllRead, DiscoverOnRequest, Report, Clock,
                     Tick, vars, row, manager, cron, api
<1>11. ASSUME NEW p \in Rows,
              RunStep(p) \/ BypassBreaker(p) \/ RunProject(p) \/ Cancel(p)
       PROVE  \A q \in owed' : Held(q)'
  BY <1>2, <1>11
  DEF RunStep, StartRun, MarkRunning, EndRun, WriteVerdict, TryWrite,
      BypassBreaker, RunProject, Cancel, Scheduled, Report, MarkManual, manager,
      row, cron, api
<1> QED
  BY <1>3, <1>4, <1>5, <1>6, <1>7, <1>8, <1>9, <1>10, <1>11
  DEF GateNext, Requests, CronStep

\* As long as no call fails, a webhook that was queued with a 202 is not lost,
\* in whatever order resets, other webhooks and the cron cycle take it out of
\* the queue (forgejo.go:155-178, server.go:703-746).
THEOREM QueuedEventsKept == GateSpec => []QueuedIsKept
<1>1. GateInit => QueuedIsKept
  BY DEF GateInit, QueuedIsKept
<1> QED
  BY <1>1, NextKept, Grounded, PTL DEF GateSpec

-----------------------------------------------------------------------------

\* How many steps a cron cycle still takes, at most: a question and a write for
\* each project on its list, two more for its discovery and its end.
CycleLeft ==
    CASE cpc = "discover" -> 2 * Cardinality(Rows) + 2
      [] cpc = "dispatch" -> 2 * Cardinality(ctodo) + 1
      [] cpc = "schedule" -> 2 * Cardinality(ctodo) + 2
      [] OTHER            -> 0

\* A row that says "running" has a run in progress, or a write has failed.
RunningRuns ==
    faults = 0 =>
        \A p \in Rows : status[p] = "running" => container[p] \notin {"none", "started"}

LEMMA NextRunning == CallerTypes /\ RunningRuns /\ [GateNext]_vars => RunningRuns'
<1> SUFFICES ASSUME CallerTypes, RunningRuns, [GateNext]_vars, faults' = 0,
                    NEW q \in Rows, status'[q] = "running"
             PROVE  container'[q] \notin {"none", "started"}
  BY DEF RunningRuns
<1> USE DEF CallerTypes, RunningRuns
<1>1. CASE UNCHANGED <<status, container, faults>>
  BY <1>1
<1>2. ASSUME NEW w \in Hooks, NEW p \in Rows, Ask(w, p)
      PROVE  container'[q] \notin {"none", "started"}
  BY <1>1, <1>2 DEF Ask, row, executor
<1>3. ASSUME NEW w \in Hooks, HookStep(w) PROVE container'[q] \notin {"none", "started"}
  BY <1>3 DEF HookStep, HookSchedule, HookEnqueue, HookRefuse, Scheduled, Fault,
              row, executor
<1>4. CASE CronStep
  BY <1>4 DEF CronStep, CronStart, CronDiscover, CronDiscoverFails, CronSchedule,
              CronEnd, CronAsk, TrySchedule, Scheduled, Fault, row, executor
<1>5. CASE ReplayStep \/ RunAllWrite
  BY <1>5 DEF ReplayStep, Replay, ReplayFails, RunAllWrite, TrySchedule,
              Scheduled, Fault, row, executor
<1>6. ASSUME NEW p \in Rows, BypassBreaker(p) \/ RunProject(p) \/ Cancel(p)
      PROVE  container'[q] \notin {"none", "started"}
  BY <1>6 DEF BypassBreaker, RunProject, Cancel, Scheduled, row, executor
<1>7. CASE ResetBreaker \/ RunAllRead \/ DiscoverOnRequest \/ Clock \/ UNCHANGED vars
  BY <1>1, <1>7 DEF ResetBreaker, RunAllRead, DiscoverOnRequest, Clock, vars, row,
                    executor
<1>8. ASSUME NEW p \in Rows, RunStep(p) PROVE container'[q] \notin {"none", "started"}
  <2>1. CASE StartRun(p)
    BY <2>1 DEF StartRun
  <2>2. CASE MarkRunning(p)
    BY <2>2 DEF MarkRunning, TryWrite, Fault
  <2>3. CASE EndRun(p)
    BY <2>3 DEF EndRun, row
  <2>4. CASE WriteVerdict(p)
    BY <2>4 DEF WriteVerdict, TryWrite, Fault
  <2> QED
    BY <1>8, <2>1, <2>2, <2>3, <2>4 DEF RunStep
<1> QED
  BY <1>2, <1>3, <1>4, <1>5, <1>6, <1>7, <1>8 DEF GateNext, Requests

\* No list is left over from an earlier cycle.
NoList == cpc = "idle" => ctodo = {}

LEMMA ListIsFinite ==
    ASSUME CallerTypes
    PROVE  /\ IsFiniteSet(Rows) /\ IsFiniteSet(ctodo)
           /\ Cardinality(Rows) \in Nat /\ Cardinality(ctodo) \in Nat
           /\ Cardinality(ctodo) <= Cardinality(Rows)
  BY ProjectsAssumption, FS_Subset, FS_CardinalityType DEF Rows, CallerTypes

\* A step of the cycle brings it nearer to its end, unless it starts it, and no
\* other step touches it.
LEMMA CycleCounts ==
    ASSUME CallerTypes, CallerTypes', [GateNext]_vars
    PROVE  /\ CronStep /\ ~CronStart => CycleLeft' < CycleLeft
           /\ ~CronStep => UNCHANGED <<cpc, ctodo, CycleLeft>>
<1>0. /\ Cardinality(Rows) \in Nat /\ Cardinality(ctodo) \in Nat
      /\ Cardinality(ctodo') \in Nat /\ Cardinality(ctodo') <= Cardinality(Rows)
  BY ListIsFinite, FS_Subset, FS_CardinalityType, ProjectsAssumption
  DEF CallerTypes, Rows
<1> USE <1>0 DEF CycleLeft
<1>1. ASSUME CronDiscover PROVE CycleLeft' < CycleLeft
  BY <1>1 DEF CronDiscover
<1>2. ASSUME CronDiscoverFails PROVE CycleLeft' < CycleLeft
  BY <1>2 DEF CronDiscoverFails
<1>3. ASSUME NEW p \in Rows, CronAsk(p) PROVE CycleLeft' < CycleLeft
  <2>1. Cardinality(ctodo') = Cardinality(ctodo) - 1
    BY <1>3, ListIsFinite, FS_RemoveElement DEF CronAsk
  <2> QED
    BY <1>3, <2>1 DEF CronAsk
<1>4. ASSUME CronSchedule PROVE CycleLeft' < CycleLeft
  BY <1>4 DEF CronSchedule
<1>5. ASSUME CronEnd PROVE CycleLeft' < CycleLeft
  BY <1>5 DEF CronEnd
<1>6. CronStep /\ ~CronStart => CycleLeft' < CycleLeft
  BY <1>1, <1>2, <1>3, <1>4, <1>5 DEF CronStep
<1>7. ASSUME ~CronStep PROVE UNCHANGED <<cpc, ctodo, CycleLeft>>
  <2>1. UNCHANGED <<cpc, ctodo>>
    BY <1>7
    DEF GateNext, Requests, HookStep, ReplayStep, RunStep, Ask, HookSchedule,
        HookEnqueue, HookRefuse, BypassBreaker, RunProject, Cancel, ResetBreaker,
        RunAllRead, DiscoverOnRequest, Replay, ReplayFails, RunAllWrite, StartRun,
        MarkRunning, EndRun, WriteVerdict, Clock, cron, vars
  <2> QED
    BY <2>1
<1> QED
  BY <1>6, <1>7

LEMMA NextNoList ==
    CallerTypes /\ CallerTypes' /\ NoList /\ [GateNext]_vars => NoList'
<1> SUFFICES ASSUME CallerTypes, CallerTypes', NoList, [GateNext]_vars
             PROVE  NoList'
  OBVIOUS
<1>1. CASE CronStep
  BY <1>1 DEF CronStep, CronStart, CronDiscover, CronDiscoverFails, CronSchedule,
              CronEnd, CronAsk, NoList
<1>2. CASE ~CronStep
  BY <1>2, CycleCounts DEF NoList
<1> QED
  BY <1>1, <1>2

\* The safety half of QueueDrains (main.go:251-296, dispatch.go:55-85).  A cycle
\* that starts lists every queued project, unless its run is in progress or a
\* write has failed.  A project leaves the list with the whole cycle, if its
\* discovery fails, or by being asked for; then it is out of the queue, unless
\* the manager denies it.  And a cycle takes no more than CycleLeft steps.  That
\* it takes them is the fairness TLC assumes.
THEOREM CyclesServeTheQueue ==
    GateSpec =>
        /\ [](CycleLeft \in 0 .. 2 * Cardinality(Rows) + 2)
        /\ [][/\ CronStep /\ ~CronStart => CycleLeft' < CycleLeft
              /\ ~CronStep => CycleLeft' = CycleLeft]_vars
        /\ [][CronStart => \A p \in pendingReplay :
                 \/ p \in ctodo' \/ faults > 0
                 \/ container[p] \notin {"none", "started"}]_vars
        /\ [][\A p \in ctodo : p \notin ctodo' =>
                 \/ p \notin pendingReplay' \/ state = "open" \/ BackingOff(p)
                 \/ cpc = "discover" /\ cpc' = "idle"]_vars
<1> DEFINE IsShort == CycleLeft \in 0 .. 2 * Cardinality(Rows) + 2
           Nearer  == /\ CronStep /\ ~CronStart => CycleLeft' < CycleLeft
                      /\ ~CronStep => CycleLeft' = CycleLeft
           Lists   == CronStart => \A p \in pendingReplay :
                 \/ p \in ctodo' \/ faults > 0
                 \/ container[p] \notin {"none", "started"}
           Asks    == \A p \in ctodo : p \notin ctodo' =>
                 \/ p \notin pendingReplay' \/ state = "open" \/ BackingOff(p)
                 \/ cpc = "discover" /\ cpc' = "idle"
<1>1. GateInit => RunningRuns /\ NoList
  BY DEF GateInit, RunningRuns, NoList
<1>2. CallerTypes => IsShort
  BY ListIsFinite DEF CycleLeft
<1>3. CallerTypes /\ CallerTypes' /\ [GateNext]_vars => [Nearer]_vars
  BY CycleCounts
<1>4. CallerTypes /\ Named /\ RunningRuns => [Lists]_vars
  BY DEF CallerTypes, Named, RunningRuns, CronStart
<1>5. CallerTypes /\ CallerTypes' /\ NoList /\ [GateNext]_vars => [Asks]_vars
  <2> SUFFICES ASSUME CallerTypes, CallerTypes', NoList, [GateNext]_vars,
                      NEW q \in ctodo, q \notin ctodo'
               PROVE  \/ q \notin pendingReplay' \/ state = "open" \/ BackingOff(q)
                      \/ cpc = "discover" /\ cpc' = "idle"
    OBVIOUS
  <2>1. CronStep
    BY CycleCounts
  <2>2. ASSUME NEW p \in Rows, CronAsk(p)
        PROVE  q \notin pendingReplay' \/ state = "open" \/ BackingOff(q)
    <3>1. p = q
      BY <2>2 DEF CronAsk
    <3> QED
      BY <2>2, <3>1 DEF CronAsk, Allow, Denies, Gated
  <2>3. CASE CronStart
    BY <2>3 DEF CronStart, NoList
  <2> QED
    BY <2>1, <2>2, <2>3
    DEF CronStep, CronDiscover, CronDiscoverFails, CronSchedule, CronEnd
<1> HIDE DEF IsShort, Nearer, Lists, Asks
<1>6. GateSpec => []IsShort /\ [][Nearer]_vars /\ [][Lists]_vars /\ [][Asks]_vars
  BY <1>1, <1>2, <1>3, <1>4, <1>5, NextRunning, NextNoList, Grounded, PTL DEF GateSpec
<1> QED
  BY <1>6 DEF IsShort, Nearer, Lists, Asks
=============================================================================
