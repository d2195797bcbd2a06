---------------------------- MODULE DiscoveryProofs ----------------------------
(***************************************************************************)
(* What the two guards of an asynchronous discovery achieve together, for  *)
(* any number of requests, repositories, faults and crashes.  Guarded ties *)
(* the slot to the goroutines that hold it; ReadFresh says what a          *)
(* reconciliation still knows of the rows it has read.                     *)
(***************************************************************************)
EXTENDS Discovery, TLAPS

Guarded ==
    /\ \A r \in Requests : bg[r] # "idle" => slot
    /\ OneAtATime

ReadFresh ==
    \A r \in Runs : (bg[r] = "commit" /\ ~stale[r]) => existing[r] = rows

LEMMA InitTypes == Init => TypeOK
<1> SUFFICES ASSUME Init PROVE TypeOK
  OBVIOUS
<1>1. slot \in BOOLEAN /\ stale \in [Runs -> BOOLEAN]
  BY Zenon DEF Init
<1> QED
  BY <1>1 DEF Init, TypeOK

LEMMA NextTypes == TypeOK /\ [Next]_vars => TypeOK'
<1> SUFFICES ASSUME TypeOK, [Next]_vars PROVE TypeOK'
  OBVIOUS
<1> USE DEF TypeOK, notAsk, notRun, locals, Step, Answer, Fault
<1>1. ASSUME NEW r \in Requests, Check(r) \/ AskStep(r) PROVE TypeOK'
  <2>1. r \in Runs
    BY DEF Runs
  <2>2. CASE Check(r)
    BY <2>2 DEF Check
  <2>3. CASE SetRunning(r)
    BY <2>3 DEF SetRunning
  <2>4. CASE Dispatch(r)
    BY <2>1, <2>4 DEF Dispatch
  <2>5. CASE Refuse(r)
    BY <2>5 DEF Refuse
  <2>6. CASE Revert(r)
    BY <2>6 DEF Revert
  <2> QED
    BY <1>1, <2>2, <2>3, <2>4, <2>5, <2>6 DEF AskStep
<1>2. ASSUME NEW r \in Requests, Finish(r) PROVE TypeOK'
  <2>1. r \in Runs
    BY DEF Runs
  <2>2. verdict[r] \in {"completed", "failed"}
    BY <2>1
  <2>3. CASE WriteVerdict(r)
    BY <2>1, <2>2, <2>3 DEF WriteVerdict
  <2>4. CASE Release(r)
    <3>1. slot' \in BOOLEAN
      BY <2>4, Zenon DEF Release
    <3> QED
      BY <2>1, <2>4, <3>1 DEF Release
  <2> QED
    BY <1>2, <2>3, <2>4 DEF Finish
<1>3. ASSUME NEW r \in Runs, RunStep(r) PROVE TypeOK'
  <2>1. CASE RunEnds(r)
    BY <2>1 DEF RunEnds
  <2>2. CASE RunFails(r)
    BY <2>2 DEF RunFails, GiveUp
  <2>3. CASE ReconcileRead(r)
    BY <2>3 DEF ReconcileRead
  <2>4. CASE ReadFails(r)
    BY <2>4 DEF ReadFails, GiveUp
  <2>5. CASE ReconcileCommit(r)
    <3>1. rows' \subseteq Projects
      BY <2>5 DEF ReconcileCommit, Removed, ToInsert
    <3>2. stale' \in [Runs -> BOOLEAN]
      BY <2>5, Zenon DEF ReconcileCommit
    <3> QED
      BY <2>5, <3>1, <3>2 DEF ReconcileCommit
  <2>6. CASE CommitFails(r)
    BY <2>6 DEF CommitFails, GiveUp
  <2> QED
    BY <1>3, <2>1, <2>2, <2>3, <2>4, <2>5, <2>6 DEF RunStep
<1>4. ASSUME NEW c \in Cycles, CronStart(c) PROVE TypeOK'
  BY <1>4 DEF CronStart, Runs
<1>5. CASE Restart
  <2>1. slot' \in BOOLEAN
    BY <1>5, Zenon DEF Restart
  <2> QED
    BY <1>5, <2>1 DEF Restart
<1>6. CASE UNCHANGED vars
  BY <1>6 DEF vars
<1> QED
  BY <1>1, <1>2, <1>3, <1>4, <1>5, <1>6 DEF Next

\* Type correctness of discovery (agent.go, sqlite.go:631-700).
THEOREM DiscoveryTypes == Spec => []TypeOK
  BY InitTypes, NextTypes, PTL DEF Spec

-----------------------------------------------------------------------------

\* A step of a run other than its last one keeps the run going.
LEMMA RunGoesOn ==
    ASSUME TypeOK, NEW r \in Runs, RunStep(r)
    PROVE  /\ bg[r] \notin {"idle", "release"}
           /\ \A s \in Runs \ {r} : bg'[s] = bg[s]
           /\ r \notin Cycles => bg'[r] \notin {"idle", "release"}
           /\ UNCHANGED <<slot, dstatus, rpc>>
           /\ faults' = faults \/ faults' = faults + 1
  BY DEF TypeOK, RunStep, RunEnds, RunFails, ReconcileRead, ReadFails,
         ReconcileCommit, CommitFails, GiveUp, Step, notRun, Fault

LEMMA RequestsAreRuns == Requests \subseteq Runs \ Cycles
  BY CyclesAssumption DEF Runs

LEMMA NextGuarded == TypeOK /\ Guarded /\ [Next]_vars => Guarded'
<1> SUFFICES ASSUME TypeOK, Guarded, [Next]_vars PROVE Guarded'
  OBVIOUS
<1> USE RequestsAreRuns DEF Guarded, OneAtATime
<1>1. CASE UNCHANGED <<bg, slot>>
  BY <1>1
<1>2. ASSUME NEW r \in Requests, Dispatch(r) PROVE Guarded'
  <2>1. \A s \in Requests : bg[s] = "idle"
    BY <1>2 DEF Dispatch
  <2>2. \A s \in Requests : s # r => bg'[s] = "idle"
    BY <1>2, <2>1 DEF Dispatch, Step, TypeOK
  <2> QED
    BY <1>2, <2>2 DEF Dispatch
<1>3. ASSUME NEW r \in Requests, WriteVerdict(r) PROVE Guarded'
  <2>1. /\ bg[r] = "write" /\ slot' = slot
        /\ \A s \in Requests : s # r => bg'[s] = bg[s]
    BY <1>3 DEF WriteVerdict, Step, TypeOK
  <2> QED
    BY <2>1
<1>4. ASSUME NEW r \in Requests, Release(r) PROVE Guarded'
  <2>1. \A s \in Requests : s # r => bg[s] = "idle"
    BY <1>4 DEF Release
  <2>2. \A s \in Requests : bg'[s] = "idle"
    BY <1>4, <2>1 DEF Release, Step, TypeOK
  <2> QED
    BY <2>2
<1>5. ASSUME NEW r \in Runs, RunStep(r) PROVE Guarded'
  <2>1. \A s \in Requests : bg'[s] # "idle" => bg[s] # "idle"
    BY <1>5, RunGoesOn
  <2>2. slot' = slot
    BY <1>5, RunGoesOn
  <2> QED
    BY <2>1, <2>2
<1>6. ASSUME NEW c \in Cycles, CronStart(c) PROVE Guarded'
  BY <1>6 DEF CronStart, Step, TypeOK
<1>7. CASE Restart
  BY <1>7 DEF Restart
<1> QED
  BY <1>1, <1>2, <1>3, <1>4, <1>5, <1>6, <1>7
  DEF Next, Check, AskStep, SetRunning, Refuse, Revert, Finish, vars

\* The runs of two requests never overlap (docker.go:416-424), although both
\* may have passed the check of the row (agent.go:69-75).
THEOREM RunsNeverOverlap == Spec => []OneAtATime
<1>1. Init => Guarded
  BY RequestsAreRuns DEF Init, Guarded, OneAtATime
<1>2. TypeOK /\ Guarded /\ [Next]_vars => (TypeOK /\ Guarded)'
  BY NextTypes, NextGuarded
<1>3. Guarded => OneAtATime
  BY DEF Guarded
<1> QED
  BY <1>1, <1>2, <1>3, InitTypes, PTL DEF Spec

-----------------------------------------------------------------------------

LEMMA NextOwned == TypeOK /\ RunningHasOwner /\ [Next]_vars => RunningHasOwner'
<1> SUFFICES ASSUME TypeOK, RunningHasOwner, [Next]_vars,
                    dstatus' = "running", faults' = 0
             PROVE  \E r \in Requests : \/ rpc'[r] \in {"marked", "refused"}
                                        \/ bg'[r] \notin {"idle", "release"}
  BY DEF RunningHasOwner
<1> USE RequestsAreRuns DEF TypeOK, Step, Answer, Fault
<1>1. CASE UNCHANGED <<dstatus, faults, rpc, bg>>
  BY <1>1 DEF RunningHasOwner
<1>2. ASSUME NEW r \in Requests, Check(r)
      PROVE  \E s \in Requests : \/ rpc'[s] \in {"marked", "refused"}
                                 \/ bg'[s] \notin {"idle", "release"}
  BY <1>2 DEF Check
<1>3. ASSUME NEW r \in Requests, SetRunning(r)
      PROVE  rpc'[r] = "marked"
  BY <1>3 DEF SetRunning
<1>4. ASSUME NEW r \in Requests, Dispatch(r)
      PROVE  bg'[r] = "run"
  BY <1>4 DEF Dispatch
<1>5. ASSUME NEW r \in Requests, Refuse(r)
      PROVE  rpc'[r] = "refused"
  BY <1>5 DEF Refuse
<1>6. ASSUME NEW r \in Requests, Revert(r)
      PROVE  FALSE
  BY <1>6 DEF Revert
<1>7. ASSUME NEW r \in Requests, WriteVerdict(r)
      PROVE  FALSE
  <2>1. verdict[r] \in {"completed", "failed"}
    OBVIOUS
  <2> QED
    BY <1>7, <2>1 DEF WriteVerdict
<1>8. ASSUME NEW r \in Requests, Release(r)
      PROVE  \E s \in Requests : \/ rpc'[s] \in {"marked", "refused"}
                                 \/ bg'[s] \notin {"idle", "release"}
  <2>1. dstatus = "running" /\ faults = 0
    BY <1>8 DEF Release
  <2>2. PICK s \in Requests : \/ rpc[s] \in {"marked", "refused"}
                              \/ bg[s] \notin {"idle", "release"}
    BY <2>1 DEF RunningHasOwner
  <2>3. rpc' = rpc /\ bg[r] = "release"
    BY <1>8 DEF Release, notRun
  <2>4. s # r => bg'[s] = bg[s]
    BY <1>8 DEF Release
  <2> QED
    BY <2>2, <2>3, <2>4
<1>9. ASSUME NEW r \in Runs, RunStep(r)
      PROVE  \E s \in Requests : \/ rpc'[s] \in {"marked", "refused"}
                                 \/ bg'[s] \notin {"idle", "release"}
  <2>1. dstatus = "running" /\ faults = 0 /\ rpc' = rpc
    BY <1>9, RunGoesOn
  <2>2. PICK s \in Requests : \/ rpc[s] \in {"marked", "refused"}
                              \/ bg[s] \notin {"idle", "release"}
    BY <2>1 DEF RunningHasOwner
  <2>3. bg[s] \notin {"idle", "release"} => bg'[s] \notin {"idle", "release"}
    BY <1>9, RunGoesOn
  <2> QED
    BY <2>1, <2>2, <2>3
<1>10. ASSUME NEW c \in Cycles, CronStart(c)
      PROVE  \E s \in Requests : \/ rpc'[s] \in {"marked", "refused"}
                                 \/ bg'[s] \notin {"idle", "release"}
  <2>1. /\ dstatus = "running" /\ faults = 0 /\ rpc' = rpc
        /\ \A s \in Requests : bg'[s] = bg[s]
    BY <1>10 DEF CronStart
  <2> QED
    BY <2>1 DEF RunningHasOwner
<1>11. CASE Restart
  BY <1>11 DEF Restart
<1> QED
  BY <1>1, <1>2, <1>3, <1>4, <1>5, <1>6, <1>7, <1>8, <1>9, <1>10, <1>11
  DEF Next, AskStep, Finish, vars

\* As long as no call fails, a "running" in discovery_status always has an
\* owner that is going to change it (agent.go:77-115): no crash and no order
\* of refusals makes the row refuse requests for good.
THEOREM RunningIsOwned == Spec => []RunningHasOwner
<1>1. Init => RunningHasOwner
  BY DEF Init, RunningHasOwner
<1>2. TypeOK /\ RunningHasOwner /\ [Next]_vars => (TypeOK /\ RunningHasOwner)'
  BY NextTypes, NextOwned
<1> QED
  BY <1>1, <1>2, InitTypes, PTL DEF Spec

-----------------------------------------------------------------------------

LEMMA NextFresh == TypeOK /\ ReadFresh /\ [Next]_vars => ReadFresh'
<1> SUFFICES ASSUME TypeOK, ReadFresh, [Next]_vars,
                    NEW s \in Runs, bg'[s] = "commit", ~stale'[s]
             PROVE  existing'[s] = rows'
  BY DEF ReadFresh
<1> USE RequestsAreRuns DEF TypeOK, Step, notAsk, notRun, locals
<1>1. CASE UNCHANGED <<rows, existing, stale>> /\ bg[s] = "commit"
  BY <1>1 DEF ReadFresh
<1>2. ASSUME NEW r \in Requests, Check(r) \/ AskStep(r) \/ Finish(r)
      PROVE  existing'[s] = rows'
  <2>1. UNCHANGED <<rows, existing, stale>>
    BY <1>2 DEF Check, AskStep, SetRunning, Dispatch, Refuse, Revert, Finish,
                WriteVerdict, Release
  <2>2. bg[s] = "commit"
    BY <1>2 DEF Check, AskStep, SetRunning, Dispatch, Refuse, Revert, Finish,
                WriteVerdict, Release
  <2> QED
    BY <1>1, <2>1, <2>2
<1>3. ASSUME NEW r \in Runs, ReconcileRead(r) PROVE existing'[s] = rows'
  <2>1. CASE s = r
    BY <1>3, <2>1 DEF ReconcileRead
  <2>2. CASE s # r
    BY <1>3, <2>2 DEF ReconcileRead, ReadFresh
  <2> QED
    BY <2>1, <2>2
<1>4. ASSUME NEW r \in Runs, ReconcileCommit(r) PROVE existing'[s] = rows'
  <2>1. s # r
    BY <1>4 DEF ReconcileCommit
  <2>2. ~stale[s] /\ rows' = rows
    BY <1>4, <2>1, Zenon DEF ReconcileCommit
  <2>3. existing' = existing /\ bg[s] = "commit"
    BY <1>4, <2>1 DEF ReconcileCommit
  <2> QED
    BY <2>2, <2>3 DEF ReadFresh
<1>5. ASSUME NEW r \in Runs,
             RunEnds(r) \/ RunFails(r) \/ ReadFails(r) \/ CommitFails(r)
      PROVE  existing'[s] = rows'
  <2>1. UNCHANGED <<rows, existing, stale>>
    BY <1>5 DEF RunEnds, RunFails, ReadFails, CommitFails
  <2>2. bg[s] = "commit"
    BY <1>5 DEF RunEnds, RunFails, ReadFails, CommitFails, GiveUp
  <2> QED
    BY <1>1, <2>1, <2>2
<1>6. ASSUME NEW c \in Cycles, CronStart(c) PROVE existing'[s] = rows'
  <2>1. UNCHANGED <<rows, existing, stale>> /\ bg[s] = "commit"
    BY <1>6 DEF CronStart
  <2> QED
    BY <1>1, <2>1
<1>7. CASE Restart
  BY <1>7 DEF Restart
<1>8. CASE UNCHANGED vars
  BY <1>1, <1>8 DEF vars
<1> QED
  BY <1>2, <1>3, <1>4, <1>5, <1>6, <1>7, <1>8 DEF Next, RunStep

\* A reconciliation that nobody has overtaken leaves the table equal to what
\* its run found (sqlite.go:410-488).
THEOREM AloneIsExact == Spec => ReconcileExactAlone
<1> DEFINE Exact ==
      \A r \in Runs : (ReconcileCommit(r) /\ ~stale[r]) => rows' = listing[r]
<1>1. Init => ReadFresh
  BY DEF Init, ReadFresh
<1>2. TypeOK /\ ReadFresh /\ [Next]_vars => (TypeOK /\ ReadFresh)'
  BY NextTypes, NextFresh
<1>3. ReadFresh => Exact
  <2> SUFFICES ASSUME ReadFresh, NEW r \in Runs, ReconcileCommit(r), ~stale[r]
               PROVE  rows' = listing[r]
    OBVIOUS
  <2>1. existing[r] = rows
    BY DEF ReadFresh, ReconcileCommit
  <2> QED
    BY <2>1 DEF ReconcileCommit, Removed, ToInsert
<1>4. ReconcileExactAlone <=> [][Exact]_vars
  BY DEF ReconcileExactAlone
<1>5. ReadFresh => [Exact]_vars
  BY <1>3
<1> QED
  BY <1>1, <1>2, <1>4, <1>5, InitTypes, PTL DEF Spec

-----------------------------------------------------------------------------

\* How many steps of its own a discovery still takes, at most.  More than one
\* of them are left as long as it owes the row another write.
AskLeft(r) ==
    CASE rpc[r] = "checked" -> 7
      [] rpc[r] = "marked"  -> 6
      [] rpc[r] = "refused" -> 2
      [] OTHER              -> 0

BackgroundLeft(r) ==
    CASE bg[r] = "run"       -> 5
      [] bg[r] = "reconcile" -> 4
      [] bg[r] = "commit"    -> 3
      [] bg[r] = "write"     -> 2
      [] bg[r] = "release"   -> 1
      [] OTHER               -> 0

StepsLeft(r) ==
    (IF r \in Requests THEN AskLeft(r) ELSE 0) + BackgroundLeft(r)

\* A request and the goroutine it has started are never at work together.
HandedOver == \A r \in Requests : rpc[r] = "idle" \/ bg[r] = "idle"

LEMMA NextHandedOver == TypeOK /\ HandedOver /\ [Next]_vars => HandedOver'
<1> SUFFICES ASSUME TypeOK, HandedOver, [Next]_vars PROVE HandedOver'
  OBVIOUS
<1> USE RequestsAreRuns DEF HandedOver, TypeOK, Step, Answer
<1>1. ASSUME NEW r \in Requests, Check(r) \/ AskStep(r) PROVE HandedOver'
  BY <1>1 DEF Check, AskStep, SetRunning, Dispatch, Refuse, Revert
<1>2. ASSUME NEW r \in Requests, Finish(r) PROVE HandedOver'
  BY <1>2 DEF Finish, WriteVerdict, Release, notRun
<1>3. ASSUME NEW r \in Runs, RunStep(r) PROVE HandedOver'
  <2>1. /\ bg[r] # "idle" /\ rpc' = rpc
        /\ \A s \in Runs \ {r} : bg'[s] = bg[s]
    BY <1>3, RunGoesOn
  <2> QED
    BY <2>1
<1>4. ASSUME NEW c \in Cycles, CronStart(c) PROVE HandedOver'
  BY <1>4 DEF CronStart
<1>5. CASE Restart
  BY <1>5 DEF Restart
<1>6. CASE UNCHANGED vars
  BY <1>6 DEF vars
<1> QED
  BY <1>1, <1>2, <1>3, <1>4, <1>5, <1>6 DEF Next

Own(r) == (r \in Requests /\ (AskStep(r) \/ Finish(r))) \/ RunStep(r)

\* A discovery's own steps come nearer to its end ...
LEMMA OwnStepCounts ==
    ASSUME TypeOK, HandedOver, NEW r \in Runs, Own(r)
    PROVE  /\ StepsLeft(r)' < StepsLeft(r)
           /\ \A s \in Runs \ {r} : StepsLeft(s)' = StepsLeft(s)
<1> USE RequestsAreRuns DEF StepsLeft, AskLeft, BackgroundLeft, TypeOK, HandedOver,
                            Step, Answer
<1>1. CASE r \in Requests /\ AskStep(r)
  BY <1>1 DEF AskStep, SetRunning, Dispatch, Refuse, Revert
<1>2. CASE r \in Requests /\ Finish(r)
  BY <1>2 DEF Finish, WriteVerdict, Release, notRun
<1>3. CASE RunStep(r)
  <2>1. /\ rpc' = rpc
        /\ \A s \in Runs \ {r} : bg'[s] = bg[s]
    BY <1>3, RunGoesOn
  <2>2. BackgroundLeft(r)' < BackgroundLeft(r)
    BY <1>3 DEF RunStep, RunEnds, RunFails, ReconcileRead, ReadFails,
                ReconcileCommit, CommitFails, GiveUp
  <2>3. AskLeft(r)' = AskLeft(r) /\ \A s \in Runs \ {r} : StepsLeft(s)' = StepsLeft(s)
    BY <2>1
  <2>4. /\ AskLeft(r) \in 0..7 /\ BackgroundLeft(r) \in 0..5
        /\ BackgroundLeft(r)' \in 0..5
    OBVIOUS
  <2> QED
    BY <2>2, <2>3, <2>4
<1> QED
  BY <1>1, <1>2, <1>3 DEF Own

\* ... and no other step but a crash comes between.
LEMMA OthersKeepCount ==
    ASSUME TypeOK, [Next]_vars, NEW r \in Runs, StepsLeft(r) > 0, ~Restart,
           \A s \in Runs : ~Own(s)
    PROVE  StepsLeft(r)' = StepsLeft(r)
<1> USE RequestsAreRuns DEF StepsLeft, AskLeft, BackgroundLeft, TypeOK, Step
<1>1. ASSUME NEW s \in Requests, Check(s) PROVE StepsLeft(r)' = StepsLeft(r)
  BY <1>1 DEF Check
<1>2. ASSUME NEW c \in Cycles, CronStart(c) PROVE StepsLeft(r)' = StepsLeft(r)
  BY <1>2 DEF CronStart
<1>3. CASE UNCHANGED vars
  BY <1>3 DEF vars
<1> QED
  BY <1>1, <1>2, <1>3 DEF Next, Own

\* What takes the last write from a discovery leaves the row alone only if a
\* call fails.
LEMMA LastWriteCounts ==
    ASSUME TypeOK, HandedOver, [Next]_vars, NEW r \in Requests,
           StepsLeft(r) > 1, StepsLeft(r)' <= 1, faults' = 0
    PROVE  dstatus' # "running"
<1> USE RequestsAreRuns DEF TypeOK, Fault
<1>1. CASE Restart
  BY <1>1 DEF Restart
<1>2. CASE ~Restart
  <2>1. StepsLeft(r)' # StepsLeft(r) /\ StepsLeft(r) > 0
    BY DEF StepsLeft, AskLeft, BackgroundLeft
  <2>2. PICK s \in Runs : Own(s)
    BY <1>2, <2>1, OthersKeepCount
  <2>3. Own(r)
    BY <2>1, <2>2, OwnStepCounts
  <2>4. CASE AskStep(r)
    BY <2>4 DEF AskStep, SetRunning, Dispatch, Refuse, Revert, HandedOver,
                StepsLeft, AskLeft, BackgroundLeft, Step, Answer
  <2>5. CASE Finish(r)
    <3>1. verdict[r] \in {"completed", "failed"}
      OBVIOUS
    <3>2. CASE WriteVerdict(r)
      BY <3>1, <3>2 DEF WriteVerdict
    <3>3. CASE Release(r)
      <4>1. AskLeft(r) = 0 /\ BackgroundLeft(r) = 1
        BY <3>3 DEF Release, HandedOver, AskLeft, BackgroundLeft
      <4> QED
        BY <4>1 DEF StepsLeft
    <3> QED
      BY <2>5, <3>2, <3>3 DEF Finish
  <2>6. CASE RunStep(r)
    <3>1. bg'[r] \notin {"idle", "release"}
      BY <2>6, RunGoesOn
    <3>2. BackgroundLeft(r)' \in 2..5 /\ AskLeft(r)' \in 0..7
      BY <3>1, NextTypes DEF BackgroundLeft, AskLeft
    <3> QED
      BY <3>2 DEF StepsLeft
  <2> QED
    BY <2>3, <2>4, <2>5, <2>6 DEF Own
<1> QED
  BY <1>1, <1>2

\* The safety half of RunningEnds (agent.go:67-118, docker.go:416-452).  While
\* no call has failed, a "running" row has a discovery with steps left; each of
\* its steps lowers their number, nobody else's step changes it, and when less
\* than two are left the row does not say "running" any more, unless a call
\* failed.  That the discovery takes these steps is the fairness TLC assumes.
THEOREM OwnersGetDone ==
    Spec => /\ []((dstatus = "running" /\ faults = 0) =>
                     \E r \in Requests : StepsLeft(r) \in 2..6)
            /\ [][\A r \in Runs :
                     /\ Own(r) => StepsLeft(r)' < StepsLeft(r)
                     /\ StepsLeft(r) > 0 /\ StepsLeft(r)' # StepsLeft(r)
                           => Own(r) \/ Restart]_vars
            /\ [][\A r \in Requests :
                     StepsLeft(r) > 1 /\ StepsLeft(r)' <= 1 =>
                        dstatus' # "running" \/ faults' > 0]_vars
<1> DEFINE Nearer == \A r \in Runs :
                        /\ Own(r) => StepsLeft(r)' < StepsLeft(r)
                        /\ StepsLeft(r) > 0 /\ StepsLeft(r)' # StepsLeft(r)
                              => Own(r) \/ Restart
           Written == \A r \in Requests :
                        StepsLeft(r) > 1 /\ StepsLeft(r)' <= 1 =>
                           dstatus' # "running" \/ faults' > 0
<1>1. Init => HandedOver /\ RunningHasOwner
  BY DEF Init, HandedOver, RunningHasOwner
<1>2. TypeOK /\ HandedOver /\ RunningHasOwner /\ [Next]_vars
        => (TypeOK /\ HandedOver /\ RunningHasOwner)'
  BY NextTypes, NextHandedOver, NextOwned
<1>3. TypeOK /\ HandedOver /\ RunningHasOwner =>
        ((dstatus = "running" /\ faults = 0) =>
            \E r \in Requests : StepsLeft(r) \in 2..6)
  BY RequestsAreRuns
  DEF TypeOK, HandedOver, RunningHasOwner, StepsLeft, AskLeft, BackgroundLeft
<1>4. TypeOK /\ HandedOver /\ [Next]_vars => Nearer
  <2> SUFFICES ASSUME TypeOK, HandedOver, [Next]_vars, NEW r \in Runs
               PROVE  /\ Own(r) => StepsLeft(r)' < StepsLeft(r)
                      /\ StepsLeft(r) > 0 /\ StepsLeft(r)' # StepsLeft(r)
                            => Own(r) \/ Restart
    OBVIOUS
  <2> QED
    BY OwnStepCounts, OthersKeepCount
<1>5. TypeOK /\ HandedOver /\ [Next]_vars => Written
  <2> SUFFICES ASSUME TypeOK, HandedOver, [Next]_vars, NEW r \in Requests,
                      StepsLeft(r) > 1, StepsLeft(r)' <= 1, ~(faults' > 0)
               PROVE  dstatus' # "running"
    OBVIOUS
  <2>1. faults' = 0
    BY NextTypes DEF TypeOK
  <2> QED
    BY <2>1, LastWriteCounts
<1>6. TypeOK /\ HandedOver /\ [Next]_vars => [Nearer]_vars /\ [Written]_vars
  BY <1>4, <1>5
<1> HIDE DEF Nearer, Written
<1>7. Spec => [][Nearer]_vars /\ [][Written]_vars
  BY <1>1, <1>2, <1>6, InitTypes, PTL DEF Spec
<1>8. Spec => []((dstatus = "running" /\ faults = 0) =>
                    \E r \in Requests : StepsLeft(r) \in 2..6)
  BY <1>1, <1>2, <1>3, InitTypes, PTL DEF Spec
<1> QED
  BY <1>7, <1>8 DEF Nearer, Written
=============================================================================
