---------------------------- MODULE ExecutorProofs ----------------------------
(***************************************************************************)
(* Proofs about Executor, for any projects, container IDs, pool size,      *)
(* parallelism, priorities and bounds.                                     *)
(***************************************************************************)
EXTENDS Executor, FiniteSetTheorems, TLAPS

Stopped(c) == cstate[c] \in {"exited", "removed"}

\* The locals of the three loops name what they were read from.
DispatchInv ==
    /\ dpc \in {"create", "start", "record", "mark", "release"} =>
         dproj \in Projects
    /\ dpc \in {"start", "record", "mark"} =>
         dcid \in Cids /\ cproj[dcid] = dproj
    /\ dpc = "start" => cstate[dcid] = "created"
    /\ dpc \in {"record", "mark"} => Started(dcid)

ExitInv ==
    /\ \A c \in events : Stopped(c)
    /\ \A h \in AllHandlers :
         /\ hpc[h] # "idle" => hcid[h] \in Cids /\ Stopped(hcid[h])
         /\ hpc[h] \in {"inspect", "update", "delete", "remove"} =>
              hproj[h] = cproj[hcid[h]]

ReconcileInv ==
    /\ \A c \in rlive : Started(c)
    /\ \A c \in rdone : Stopped(c)
    /\ rpc = "sync" => rcur \in Cids /\ Started(rcur)

\* The inductive invariant: a container's label is fixed when it is created,
\* and every list, local or slot that names a container as started or stopped
\* stays right however stale it becomes, since containers only move forward.
IInv ==
    /\ TypeOK
    /\ \A c \in Cids : cstate[c] # "absent" => cproj[c] \in Projects
    /\ DispatchInv
    /\ ExitInv
    /\ ReconcileInv
    /\ SlotHoldsOwnContainer

\* A container whose exit has not yet freed a slot: it runs, its event waits,
\* or a goroutine of the pool is on its way to the delete.
Pending(c) ==
    \/ Live(c)
    \/ c \in events
    \/ \E h \in Handlers : hcid[h] = c /\ hpc[h] \in {"find", "inspect", "update",
                                                    "delete"}

\* Before any reconcile pass or crash, each exit is handled by one goroutine
\* and each pending container holds the slot of its project, or the
\* reservation that dispatchProject is about to replace by it.
Orderly ==
    /\ rpc = "idle" /\ hpc[Reconciler] = "idle"
    /\ \A c \in Cids : Pending(c) =>
         \/ running[cproj[c]] = c
         \/ dpc = "record" /\ dcid = c /\ running[cproj[c]] = Reserved
    /\ dpc \in {"create", "start", "release"} => running[dproj] = Reserved
    /\ dpc = "record" => running[dproj] \in {Reserved, Free}
    /\ \A h \in Handlers : hpc[h] # "idle" =>
         /\ hcid[h] \notin events
         /\ \A g \in Handlers \ {h} : hpc[g] # "idle" => hcid[g] # hcid[h]
    /\ \A c \in Cids : reports[c] <= 1
    /\ \A c \in Cids : (~Stopped(c) \/ c \in events) => reports[c] = 0
    /\ \A h \in Handlers : hpc[h] \in {"find", "inspect"} => reports[hcid[h]] = 0

\* The slots in use never exceed what the dispatch pass has counted, plus the
\* one it is filling.
Held == Slots \cup {p \in Projects : dpc = "record" /\ p = dproj}

Filling == dpc \in {"create", "start", "record", "mark", "release"}

Counted ==
    /\ count <= Parallelism
    /\ Filling => count < Parallelism /\ Cardinality(Held) <= count + 1
    /\ ~Filling => Cardinality(Slots) <= count

UndisturbedInv == ~disturbed => Orderly /\ Counted

\* The tuples of variables, which every step's UNCHANGED is written with.
USE DEF daemon, dvars, hvars, rvars, bounds, operator, notDispatch, notExit,
        notReconcile

-----------------------------------------------------------------------------
LEMMA InductiveInit == Init => IInv
<1> SUFFICES ASSUME Init PROVE IInv
    OBVIOUS
<1>1. TypeOK
    BY DEF Init, TypeOK, Statuses, CStates, AllHandlers
<1>2. DispatchInv /\ ExitInv /\ ReconcileInv
    BY DEF Init, DispatchInv, ExitInv, ReconcileInv
<1>3. SlotHoldsOwnContainer
    BY SlotAssumption DEF Init, SlotHoldsOwnContainer
<1> QED
    BY <1>1, <1>2, <1>3 DEF Init, IInv

\* Sets of projects are finite, and a smaller one is not larger.
LEMMA ProjectSets ==
    ASSUME NEW S \in SUBSET Projects
    PROVE  /\ IsFiniteSet(S) /\ Cardinality(S) \in Nat
           /\ \A T \in SUBSET S : Cardinality(T) <= Cardinality(S)
<1>1. IsFiniteSet(S)
    BY SetAssumption, FS_Subset
<1> QED
    BY <1>1, FS_CardinalityType, FS_Subset

LEMMA InductiveStep == IInv /\ [Next]_vars => IInv'
<1> SUFFICES ASSUME IInv, [Next]_vars PROVE IInv'
    OBVIOUS
<1> USE DEF IInv, TypeOK, Statuses, CStates, AllHandlers, Started, Stopped, Live,
            DispatchInv, ExitInv, ReconcileInv, SlotHoldsOwnContainer
<1>1. ASSUME NEW p \in Projects, Schedule(p) PROVE IInv'
    BY <1>1, SlotAssumption DEF Schedule
<1>2. ASSUME NEW p \in Projects, Cancel(p) PROVE IInv'
    BY <1>2, SlotAssumption DEF Cancel
<1>3. ASSUME NEW c \in Cids, ContainerExit(c) PROVE IInv'
    BY <1>3, SlotAssumption DEF ContainerExit, Dies
<1>4. ASSUME NEW c \in Cids, Age(c) PROVE IInv'
    BY <1>4, SlotAssumption DEF Age
<1>5. ASSUME LoseEvents PROVE IInv'
    BY <1>5, SlotAssumption DEF LoseEvents, Fault
<1>6. ASSUME Restart PROVE IInv'
    BY <1>6, SlotAssumption DEF Restart
<1>7. ASSUME DispatchTick PROVE IInv'
  <2>1. Cardinality(Slots) \in Nat
    BY ProjectSets DEF Slots
  <2> QED
    BY <1>7, <2>1 DEF DispatchTick
<1>8. ASSUME Query PROVE IInv'
    BY <1>8, SlotAssumption DEF Query
<1>9. ASSUME EndPass PROVE IInv'
    BY <1>9, SlotAssumption DEF EndPass
<1>10. ASSUME CreateFails PROVE IInv'
    BY <1>10, SlotAssumption DEF CreateFails, Fault
<1>11. ASSUME StartContainer PROVE IInv'
    BY <1>11, SlotAssumption DEF StartContainer
<1>12. ASSUME StartFails PROVE IInv'
    BY <1>12, SlotAssumption DEF StartFails, Fault
<1>13. ASSUME Release PROVE IInv'
    BY <1>13, SlotAssumption DEF Release, Delete
<1>14. ASSUME Record PROVE IInv'
    BY <1>14, SlotAssumption DEF Record
<1>15. ASSUME Mark PROVE IInv'
    BY <1>15, SlotAssumption DEF Mark, Write, Fault, Dispatched
<1>16. ASSUME NEW p \in Projects, SkipRunning(p) PROVE IInv'
    BY <1>16, SlotAssumption DEF SkipRunning, NextUp
<1>17. ASSUME NEW p \in Projects, Reserve(p) PROVE IInv'
    BY <1>17, SlotAssumption DEF Reserve, NextUp, Taken
<1>18. ASSUME NEW c \in Cids, CreateContainer(c) PROVE IInv'
    BY <1>18, SlotAssumption DEF CreateContainer
<1>19. ASSUME NEW h \in Handlers, NEW c \in Cids, HandleEvent(h, c) PROVE IInv'
    BY <1>19, SlotAssumption DEF HandleEvent
<1>20. ASSUME NEW h \in AllHandlers, FindTracked(h) PROVE IInv'
    BY <1>20, SlotAssumption DEF FindTracked, Goto
<1>21. ASSUME NEW h \in AllHandlers, FindByLabel(h) PROVE IInv'
    BY <1>21, SlotAssumption DEF FindByLabel, Goto, Return, Fault
<1>22. ASSUME NEW h \in AllHandlers, Inspect(h) PROVE IInv'
    BY <1>22, SlotAssumption DEF Inspect, Goto
<1>23. ASSUME NEW h \in AllHandlers, InspectFails(h) PROVE IInv'
    BY <1>23, SlotAssumption DEF InspectFails, Delete, Return, Goto, Fault
<1>24. ASSUME NEW h \in AllHandlers, Update(h) PROVE IInv'
    BY <1>24, SlotAssumption DEF Update, Write, Fault, Verdict, Goto
<1>25. ASSUME NEW h \in AllHandlers, FreeSlot(h) PROVE IInv'
    BY <1>25, SlotAssumption DEF FreeSlot, Delete, Goto
<1>26. ASSUME NEW h \in AllHandlers, Remove(h) PROVE IInv'
    BY <1>26, SlotAssumption DEF Remove, Return, Goto, Fault
<1>27. ASSUME ReconcileList PROVE IInv'
    BY <1>27, SlotAssumption DEF ReconcileList, ListedRunning,
       ListedStopped
<1>28. ASSUME ReconcileTracked PROVE IInv'
    BY <1>28, SlotAssumption DEF ReconcileTracked
<1>29. ASSUME AdoptSync PROVE IInv'
    BY <1>29, SlotAssumption DEF AdoptSync, Write, Fault
<1>30. ASSUME ReconcileEnd PROVE IInv'
    BY <1>30, SlotAssumption DEF ReconcileEnd, Scanning
<1>31. ASSUME NEW c \in Cids, ReconcileExit(c) PROVE IInv'
    BY <1>31, SlotAssumption DEF ReconcileExit, Scanning, Goto
<1>32. ASSUME NEW c \in Cids, Adopt(c) PROVE IInv'
    BY <1>32, SlotAssumption DEF Adopt, Scanning
<1>33. ASSUME NEW c \in Cids, KillOrphan(c) PROVE IInv'
    BY <1>33, SlotAssumption DEF KillOrphan, Scanning, Dies, Fault
<1>34. CASE UNCHANGED vars
    BY <1>34 DEF vars
<1> QED
    BY <1>1, <1>2, <1>3, <1>4, <1>5, <1>6, <1>7, <1>8, <1>9, <1>10, <1>11,
       <1>12, <1>13, <1>14, <1>15, <1>16, <1>17, <1>18, <1>19, <1>20,
       <1>21, <1>22, <1>23, <1>24, <1>25, <1>26, <1>27, <1>28, <1>29,
       <1>30, <1>31, <1>32, <1>33, <1>34 DEF Next, Environment,
       DispatchStep, ExitStep, ReconcileStep

THEOREM Invariance == Spec => []IInv
<1> QED
    BY InductiveInit, InductiveStep, PTL DEF Spec

\* Every variable keeps its type, in every execution.
THEOREM TypeCorrect == Spec => []TypeOK
<1>1. IInv => TypeOK
    BY DEF IInv
<1> QED
    BY <1>1, Invariance, PTL

\* The running map never names a container of another project or one that was
\* never started: whichever of dispatch and adoption wrote the slot last.
THEOREM SlotsCorrect == Spec => []SlotHoldsOwnContainer
<1>1. IInv => SlotHoldsOwnContainer
    BY DEF IInv
<1> QED
    BY <1>1, Invariance, PTL

-----------------------------------------------------------------------------
(* What a step may never do, from the invariant before the step. *)

Kept ==
    \A c \in Cids : /\ (Live(c) => cstate'[c] \in {"running", "exited"})
                    /\ (cstate[c] = "removed" => cstate'[c] = "removed")

Evident ==
    \A p \in Projects :
        (status'[p] # status[p] /\ status'[p] \in {"completed", "failed"}) =>
            \E c \in Cids : /\ cproj[c] = p /\ cstate[c] \in {"exited", "removed"}
                            /\ (status'[p] = "failed" <=> c \in cfail)

LEMMA KeptStep == IInv /\ [Next]_vars => Kept
<1> SUFFICES ASSUME IInv, [Next]_vars PROVE Kept
    OBVIOUS
<1> USE DEF IInv, TypeOK, Live, Kept
<1>1. ASSUME UNCHANGED cstate PROVE Kept
    BY <1>1
<1>2. ASSUME NEW c \in Cids, ContainerExit(c) PROVE Kept
    BY <1>2 DEF ContainerExit, Dies
<1>3. ASSUME NEW c \in Cids, KillOrphan(c) PROVE Kept
    BY <1>3 DEF KillOrphan, Dies
<1>4. ASSUME NEW c \in Cids, CreateContainer(c) PROVE Kept
    BY <1>4 DEF CreateContainer
<1>5. CASE StartContainer \/ StartFails
    BY <1>5 DEF StartContainer, StartFails, DispatchInv
<1>6. ASSUME NEW h \in AllHandlers, Remove(h) PROVE Kept
    BY <1>6 DEF Remove, ExitInv, Stopped
<1>7. CASE Environment
    BY <1>7, <1>1, <1>2 DEF Environment, Schedule, Cancel, Age, LoseEvents,
       Restart
<1>8. CASE DispatchStep
    BY <1>8, <1>1, <1>4, <1>5 DEF DispatchStep, DispatchTick, Query, EndPass,
       CreateFails, Release, Record, Mark, SkipRunning, Reserve
<1>9. ASSUME NEW h \in AllHandlers, ExitStep(h) PROVE Kept
    BY <1>9, <1>1, <1>6 DEF ExitStep, FindTracked, FindByLabel, Inspect,
       InspectFails, Update, FreeSlot
<1>10. CASE ReconcileStep
    BY <1>10, <1>1, <1>3 DEF ReconcileStep, ReconcileList, ReconcileTracked,
       AdoptSync, ReconcileEnd, ReconcileExit, Adopt
<1>11. ASSUME NEW h \in Handlers, NEW c \in Cids, HandleEvent(h, c) PROVE Kept
    BY <1>11, <1>1 DEF HandleEvent
<1> QED
    BY <1>1, <1>7, <1>8, <1>9, <1>10, <1>11 DEF Next, vars

LEMMA EvidentStep == IInv /\ [Next]_vars => Evident
<1> SUFFICES ASSUME IInv, [Next]_vars PROVE Evident
    OBVIOUS
<1> USE DEF IInv, TypeOK, Write, Evident
<1>1. ASSUME UNCHANGED status PROVE Evident
    BY <1>1
<1>2. ASSUME NEW h \in AllHandlers, Update(h) PROVE Evident
    BY <1>2 DEF Update, Verdict, ExitInv, Stopped
<1>3. CASE Environment
    BY <1>3, <1>1 DEF Environment, Schedule, Cancel, ContainerExit, Age,
       LoseEvents, Restart
<1>4. CASE DispatchStep
    BY <1>4, <1>1 DEF DispatchStep, DispatchTick, Query, EndPass, CreateFails,
       StartContainer, StartFails, Release, Record, Mark, SkipRunning, Reserve,
       CreateContainer
<1>5. ASSUME NEW h \in AllHandlers, ExitStep(h) PROVE Evident
    BY <1>5, <1>1, <1>2 DEF ExitStep, FindTracked, FindByLabel, Inspect,
       InspectFails, FreeSlot, Remove
<1>6. CASE ReconcileStep
    BY <1>6, <1>1 DEF ReconcileStep, ReconcileList, ReconcileTracked, AdoptSync,
       ReconcileEnd, ReconcileExit, Adopt, KillOrphan
<1>7. ASSUME NEW h \in Handlers, NEW c \in Cids, HandleEvent(h, c) PROVE Evident
    BY <1>7, <1>1 DEF HandleEvent
<1> QED
    BY <1>1, <1>3, <1>4, <1>5, <1>6, <1>7 DEF Next, vars

\* handleContainerExit's forced ContainerRemove never kills a container that
\* runs, and dispatchProject's never removes one that was started.
THEOREM NoLiveRemoval == Spec => NeverRemovesLive
<1>1. IInv /\ [Next]_vars => [Kept]_vars
    BY KeptStep
<1> QED
    BY <1>1, Invariance, PTL DEF Spec, NeverRemovesLive, Kept

\* A row turns completed or failed only by the verdict of an exited container
\* that carries the row's own project label.
THEOREM VerdictsEvidenced == Spec => VerdictHasEvidence
<1>1. IInv /\ [Next]_vars => [Evident]_vars
    BY EvidentStep
<1> QED
    BY <1>1, Invariance, PTL DEF Spec, VerdictHasEvidence, Evident

-----------------------------------------------------------------------------
(* Before the first reconcile pass or crash. *)

LEMMA OrderlyStep ==
    IInv /\ IInv' /\ Orderly /\ ~disturbed' /\ [Next]_vars => Orderly'
<1> SUFFICES ASSUME IInv, IInv', Orderly, ~disturbed', [Next]_vars
             PROVE  Orderly'
    OBVIOUS
<1> USE DEF IInv, TypeOK, Statuses, CStates, AllHandlers, Started, Stopped, Live,
            DispatchInv, ExitInv, ReconcileInv, SlotHoldsOwnContainer, Orderly,
            Pending
<1>1. ASSUME NEW p \in Projects, Schedule(p) PROVE Orderly'
    BY <1>1, SlotAssumption, ReconcilerAssumption DEF Schedule
<1>2. ASSUME NEW p \in Projects, Cancel(p) PROVE Orderly'
    BY <1>2, SlotAssumption, ReconcilerAssumption DEF Cancel
<1>3. ASSUME NEW c \in Cids, ContainerExit(c) PROVE Orderly'
    BY <1>3, SlotAssumption, ReconcilerAssumption DEF ContainerExit, Dies
<1>4. ASSUME NEW c \in Cids, Age(c) PROVE Orderly'
    BY <1>4, SlotAssumption, ReconcilerAssumption DEF Age
<1>5. ASSUME LoseEvents PROVE Orderly'
    BY <1>5, SlotAssumption, ReconcilerAssumption DEF LoseEvents, Fault
<1>6. ASSUME Restart PROVE Orderly'
    BY <1>6, SlotAssumption, ReconcilerAssumption DEF Restart
<1>7. ASSUME DispatchTick PROVE Orderly'
    BY <1>7, SlotAssumption, ReconcilerAssumption DEF DispatchTick
<1>8. ASSUME Query PROVE Orderly'
    BY <1>8, SlotAssumption, ReconcilerAssumption DEF Query
<1>9. ASSUME EndPass PROVE Orderly'
    BY <1>9, SlotAssumption, ReconcilerAssumption DEF EndPass
<1>10. ASSUME CreateFails PROVE Orderly'
    BY <1>10, SlotAssumption, ReconcilerAssumption DEF CreateFails, Fault
<1>11. ASSUME StartContainer PROVE Orderly'
    BY <1>11, SlotAssumption, ReconcilerAssumption DEF StartContainer
<1>12. ASSUME StartFails PROVE Orderly'
    BY <1>12, SlotAssumption, ReconcilerAssumption DEF StartFails, Fault
<1>13. ASSUME Release PROVE Orderly'
    BY <1>13, SlotAssumption, ReconcilerAssumption DEF Release, Delete
<1>14. ASSUME Record PROVE Orderly'
    BY <1>14, SlotAssumption, ReconcilerAssumption DEF Record
<1>15. ASSUME Mark PROVE Orderly'
    BY <1>15, SlotAssumption, ReconcilerAssumption DEF Mark, Write, Fault,
       Dispatched
<1>16. ASSUME NEW p \in Projects, SkipRunning(p) PROVE Orderly'
    BY <1>16, SlotAssumption, ReconcilerAssumption DEF SkipRunning, NextUp
<1>17. ASSUME NEW p \in Projects, Reserve(p) PROVE Orderly'
    BY <1>17, SlotAssumption, ReconcilerAssumption DEF Reserve, NextUp,
       Taken
<1>18. ASSUME NEW c \in Cids, CreateContainer(c) PROVE Orderly'
    BY <1>18, SlotAssumption, ReconcilerAssumption DEF CreateContainer
<1>19. ASSUME NEW h \in Handlers, NEW c \in Cids, HandleEvent(h, c) PROVE Orderly'
    BY <1>19, SlotAssumption, ReconcilerAssumption DEF HandleEvent
<1>20. ASSUME NEW h \in AllHandlers, FindTracked(h) PROVE Orderly'
    BY <1>20, SlotAssumption, ReconcilerAssumption DEF FindTracked, Goto
<1>21. ASSUME NEW h \in AllHandlers, FindByLabel(h) PROVE Orderly'
    BY <1>21, SlotAssumption, ReconcilerAssumption DEF FindByLabel, Goto,
       Return, Fault
<1>22. ASSUME NEW h \in AllHandlers, Inspect(h) PROVE Orderly'
    BY <1>22, SlotAssumption, ReconcilerAssumption DEF Inspect, Goto
<1>23. ASSUME NEW h \in AllHandlers, InspectFails(h) PROVE Orderly'
    BY <1>23, SlotAssumption, ReconcilerAssumption DEF InspectFails,
       Delete, Return, Goto, Fault
<1>24. ASSUME NEW h \in AllHandlers, Update(h) PROVE Orderly'
    BY <1>24, SlotAssumption, ReconcilerAssumption DEF Update, Write,
       Fault, Verdict, Goto
<1>25. ASSUME NEW h \in AllHandlers, FreeSlot(h) PROVE Orderly'
    BY <1>25, SlotAssumption, ReconcilerAssumption DEF FreeSlot, Delete,
       Goto
<1>26. ASSUME NEW h \in AllHandlers, Remove(h) PROVE Orderly'
    BY <1>26, SlotAssumption, ReconcilerAssumption DEF Remove, Return,
       Goto, Fault
<1>27. ASSUME ReconcileList PROVE Orderly'
    BY <1>27, SlotAssumption, ReconcilerAssumption DEF ReconcileList,
       ListedRunning, ListedStopped
<1>28. ASSUME ReconcileTracked PROVE Orderly'
    BY <1>28, SlotAssumption, ReconcilerAssumption DEF ReconcileTracked
<1>29. ASSUME AdoptSync PROVE Orderly'
    BY <1>29, SlotAssumption, ReconcilerAssumption DEF AdoptSync, Write,
       Fault
<1>30. ASSUME ReconcileEnd PROVE Orderly'
    BY <1>30, SlotAssumption, ReconcilerAssumption DEF ReconcileEnd,
       Scanning
<1>31. ASSUME NEW c \in Cids, ReconcileExit(c) PROVE Orderly'
    BY <1>31, SlotAssumption, ReconcilerAssumption DEF ReconcileExit,
       Scanning, Goto
<1>32. ASSUME NEW c \in Cids, Adopt(c) PROVE Orderly'
    BY <1>32, SlotAssumption, ReconcilerAssumption DEF Adopt, Scanning
<1>33. ASSUME NEW c \in Cids, KillOrphan(c) PROVE Orderly'
    BY <1>33, SlotAssumption, ReconcilerAssumption DEF KillOrphan,
       Scanning, Dies, Fault
<1>34. CASE UNCHANGED vars
    BY <1>34 DEF vars
<1> QED
    BY <1>1, <1>2, <1>3, <1>4, <1>5, <1>6, <1>7, <1>8, <1>9, <1>10, <1>11,
       <1>12, <1>13, <1>14, <1>15, <1>16, <1>17, <1>18, <1>19, <1>20,
       <1>21, <1>22, <1>23, <1>24, <1>25, <1>26, <1>27, <1>28, <1>29,
       <1>30, <1>31, <1>32, <1>33, <1>34 DEF Next, Environment,
       DispatchStep, ExitStep, ReconcileStep

LEMMA CountedStep ==
    IInv /\ IInv' /\ Orderly /\ Counted /\ ~disturbed' /\ [Next]_vars => Counted'
<1> SUFFICES ASSUME IInv, IInv', Orderly, Counted, ~disturbed', [Next]_vars
             PROVE  Counted'
    OBVIOUS
<1> USE ParallelismAssumption
<1>f. /\ IsFiniteSet(Slots) /\ Cardinality(Slots) \in Nat
      /\ Cardinality(Held) \in Nat /\ Cardinality(Held)' \in Nat
      /\ Cardinality(Slots)' \in Nat
      /\ \A T \in SUBSET Held : Cardinality(T) <= Cardinality(Held)
      /\ \A T \in SUBSET Slots : Cardinality(T) <= Cardinality(Slots)
  <2>1. /\ Slots \in SUBSET Projects /\ Slots' \in SUBSET Projects
        /\ Held \in SUBSET Projects /\ Held' \in SUBSET Projects
    BY DEF Slots, Held
  <2> QED
    BY <2>1, ProjectSets
<1>n. count \in Nat /\ count' \in Nat
    BY DEF IInv, TypeOK
<1>s. ASSUME UNCHANGED <<dpc, count, dproj>>, Slots' \subseteq Slots PROVE Counted'
  <2>1. Held' \subseteq Held /\ (Filling' <=> Filling)
    BY <1>s DEF Held, Filling
  <2>2. Cardinality(Held)' <= Cardinality(Held) /\ Cardinality(Slots)' <= Cardinality(Slots)
    BY <1>f, <1>s, <2>1
  <2> QED
    BY <1>f, <1>n, <1>s, <2>1, <2>2 DEF Counted
<1>u. ASSUME UNCHANGED <<dpc, count, dproj, running>> PROVE Counted'
    BY <1>s, <1>u DEF Slots, Taken
<1>e. ASSUME Environment PROVE Counted'
    BY <1>e, <1>u DEF Environment, Schedule, Cancel, ContainerExit, Age,
       LoseEvents, Restart
<1>h. ASSUME NEW h \in Handlers, NEW c \in Cids, HandleEvent(h, c) PROVE Counted'
    BY <1>h, <1>u DEF HandleEvent
<1>x. ASSUME NEW h \in AllHandlers, ExitStep(h) PROVE Counted'
  <2>1. CASE InspectFails(h) \/ FreeSlot(h)
    BY <2>1, <1>s DEF InspectFails, FreeSlot, Delete, Slots, Taken, IInv, TypeOK
  <2>2. CASE ~InspectFails(h) /\ ~FreeSlot(h)
    BY <2>2, <1>x, <1>u DEF ExitStep, FindTracked, FindByLabel, Inspect, Update, Remove
  <2> QED
    BY <2>1, <2>2
<1>r. ASSUME ReconcileStep PROVE Counted'
    BY <1>r, <1>u DEF ReconcileStep, ReconcileList, ReconcileTracked,
       AdoptSync, ReconcileEnd, ReconcileExit, Adopt, KillOrphan, Scanning, Orderly
<1>d. ASSUME DispatchStep PROVE Counted'
  <2>1. CASE DispatchTick
    BY <2>1, <1>f DEF DispatchTick, Counted, Filling, Slots, Taken
  <2>2. CASE Query \/ EndPass \/ \E p \in Projects : SkipRunning(p)
    BY <2>2, <1>f, <1>n DEF Query, EndPass, SkipRunning, NextUp, Counted, Filling, Slots, Taken
  <2>3. ASSUME NEW p \in Projects, Reserve(p) PROVE Counted'
    <3>1. Held' = Slots \cup {p}
      BY <2>3, SlotAssumption DEF Reserve, NextUp, Held, Slots, Taken, IInv, TypeOK
    <3>2. Cardinality(Held)' <= Cardinality(Slots) + 1
      <4>1. Cardinality(Slots \cup {p}) =
              IF p \in Slots THEN Cardinality(Slots) ELSE Cardinality(Slots) + 1
        BY <1>f, FS_AddElement
      <4> QED
        BY <3>1, <4>1, <1>f
    <3> QED
      BY <2>3, <3>2, <1>f, <1>n DEF Reserve, NextUp, Counted, Filling
  <2>4. CASE CreateFails \/ StartFails \/ \E c \in Cids : CreateContainer(c)
    <3>1. Held' = Held
      BY <2>4 DEF CreateFails, StartFails, CreateContainer, Held, Slots, Taken
    <3> QED
      BY <2>4, <3>1 DEF CreateFails, StartFails, CreateContainer, Counted, Filling
  <2>5. CASE StartContainer
    <3>1. Held' = Held
      BY <2>5, SlotAssumption DEF StartContainer, Held, Slots, Taken, Orderly
    <3> QED
      BY <2>5, <3>1 DEF StartContainer, Counted, Filling
  <2>6. CASE Release
    <3>1. dproj \in Slots /\ Slots' = Slots \ {dproj} /\ Slots = Held
      BY <2>6, SlotAssumption DEF Release, Delete, Held, Slots, Taken, Orderly, IInv, TypeOK, DispatchInv
    <3>2. Cardinality(Slots)' = Cardinality(Slots) - 1
      BY <3>1, <1>f, FS_RemoveElement
    <3> QED
      BY <2>6, <3>1, <3>2, <1>f, <1>n DEF Release, Counted, Filling
  <2>7. CASE Record
    <3>1. Held' = Held
      BY <2>7, SlotAssumption DEF Record, Held, Slots, Taken, IInv, TypeOK, DispatchInv
    <3> QED
      BY <2>7, <3>1 DEF Record, Counted, Filling
  <2>8. CASE Mark
    <3>1. Slots' = Held
      BY <2>8 DEF Mark, Held, Slots, Taken
    <3> QED
      BY <2>8, <3>1, <1>f, <1>n DEF Mark, Dispatched, Counted, Filling
  <2> QED
    BY <1>d, <2>1, <2>2, <2>3, <2>4, <2>5, <2>6, <2>7, <2>8 DEF DispatchStep
<1> QED
    BY <1>u, <1>e, <1>h, <1>x, <1>r, <1>d DEF Next, vars

LEMMA UndisturbedInvariance == Spec => [](IInv /\ UndisturbedInv)
<1>1. Init => UndisturbedInv
  <2> SUFFICES ASSUME Init PROVE Orderly /\ Counted
    BY DEF UndisturbedInv
  <2>1. Orderly
    BY DEF Init, Orderly, Pending, Live, Stopped, AllHandlers
  <2>2. Slots = {}
    BY DEF Init, Slots, Taken
  <2>3. Cardinality(Slots) = 0
    BY <2>2, FS_EmptySet
  <2> QED
    BY <2>1, <2>3, ParallelismAssumption DEF Init, Counted, Filling
<1>2. IInv /\ UndisturbedInv /\ [Next]_vars => UndisturbedInv'
  <2> SUFFICES ASSUME IInv, UndisturbedInv, [Next]_vars, ~disturbed'
               PROVE  Orderly' /\ Counted'
    BY DEF UndisturbedInv
  <2>1. ~disturbed
    BY DEF IInv, TypeOK, Next, Environment, DispatchStep, ExitStep,
       ReconcileStep, vars, Schedule, Cancel, ContainerExit, Age, LoseEvents,
       Restart, DispatchTick, Query, EndPass, CreateFails, StartContainer,
       StartFails, Release, Record, Mark, SkipRunning, Reserve,
       CreateContainer, HandleEvent, FindTracked, FindByLabel, Inspect,
       InspectFails, Update, FreeSlot, Remove, ReconcileList,
       ReconcileTracked, AdoptSync, ReconcileEnd, ReconcileExit, Adopt,
       KillOrphan
  <2> QED
    BY <2>1, InductiveStep, OrderlyStep, CountedStep DEF UndisturbedInv
<1> QED
    BY <1>1, <1>2, InductiveInit, InductiveStep, PTL DEF Spec

\* Running containers inject into the slots: each holds the slot of its own
\* project, so no project has two.
LEMMA LiveHoldsSlot ==
    ASSUME IInv, Orderly
    PROVE  /\ \A c \in Cids : Live(c) => cproj[c] \in Slots
           /\ \A c, d \in Cids :
                 (Live(c) /\ Live(d) /\ cproj[c] = cproj[d]) => c = d
    BY SlotAssumption DEF IInv, TypeOK, Orderly, Pending, Live, Slots, Taken

\* No two containers of a project run at once until the operator is disturbed.
THEOREM OnePerProjectTheorem == Spec => []OnePerProjectUndisturbed
<1>1. IInv /\ UndisturbedInv => OnePerProjectUndisturbed
    BY LiveHoldsSlot DEF UndisturbedInv, OnePerProjectUndisturbed
<1> QED
    BY <1>1, UndisturbedInvariance, PTL

\* Every exit is reported to the circuit breaker at most once until then.
THEOREM ReportedOnceTheorem == Spec => []ReportedOnceUndisturbed
<1>1. UndisturbedInv => ReportedOnceUndisturbed
    BY DEF UndisturbedInv, ReportedOnceUndisturbed, Orderly
<1> QED
    BY <1>1, UndisturbedInvariance, PTL

\* No more than Parallelism containers run until then.
THEOREM ParallelismTheorem == Spec => []ParallelismUndisturbed
<1>1. ASSUME IInv, Orderly, Counted
      PROVE  Cardinality({c \in Cids : Live(c)}) <= Parallelism
  <2> DEFINE L == {c \in Cids : Live(c)}
             f == [c \in L |-> cproj[c]]
  <2>1. f \in Injection(L, Slots)
    BY <1>1, LiveHoldsSlot DEF Injection, IsInjective
  <2>2. /\ Slots \in SUBSET Projects /\ Held \in SUBSET Projects
        /\ Slots \subseteq Held
    BY DEF Slots, Held
  <2>3. /\ IsFiniteSet(Slots) /\ Cardinality(Slots) \in Nat
        /\ Cardinality(Held) \in Nat /\ Cardinality(Slots) <= Cardinality(Held)
    BY <2>2, ProjectSets
  <2>4. IsFiniteSet(L) /\ Cardinality(L) <= Cardinality(Slots)
    BY <2>1, <2>3, FS_Injection
  <2>5. Cardinality(L) \in Nat
    BY <2>4, FS_CardinalityType
  <2>6. Cardinality(Slots) <= Parallelism
    BY <1>1, <2>3, ParallelismAssumption DEF Counted, IInv, TypeOK
  <2> QED
    BY <2>3, <2>4, <2>5, <2>6, ParallelismAssumption
<1>2. IInv /\ UndisturbedInv => ParallelismUndisturbed
    BY <1>1 DEF UndisturbedInv, ParallelismUndisturbed
<1> QED
    BY <1>2, UndisturbedInvariance, PTL

-----------------------------------------------------------------------------
(* The refinement of ContainerLife. *)

\* Removed by dispatchProject because it could not be started.
Abandoned(c) == cstate[c] = "removed" /\ reports[c] = 0

\* A report is of a container that has stopped, a handler past the report has
\* made it, and no list or local names a container that was given up.
ReportInv ==
    /\ \A c \in Cids : reports[c] > 0 => Stopped(c)
    /\ \A h \in AllHandlers :
         /\ hpc[h] \in {"update", "delete", "remove"} => reports[hcid[h]] > 0
         /\ hpc[h] # "idle" => ~Abandoned(hcid[h])
    /\ \A c \in events \cup rlive \cup rdone : ~Abandoned(c)
    /\ dpc \in {"record", "mark"} => ~Abandoned(dcid)
    /\ rpc = "sync" => ~Abandoned(rcur)

LEMMA ReportStep == IInv /\ ReportInv /\ [Next]_vars => ReportInv'
<1> SUFFICES ASSUME IInv, ReportInv, [Next]_vars PROVE ReportInv'
    OBVIOUS
<1> USE DEF IInv, TypeOK, CStates, AllHandlers, Started, Stopped, Live, DispatchInv,
            ExitInv, ReconcileInv, Abandoned, ReportInv
<1>1. ASSUME NEW p \in Projects, Schedule(p) PROVE ReportInv'
    BY <1>1 DEF Schedule
<1>2. ASSUME NEW p \in Projects, Cancel(p) PROVE ReportInv'
    BY <1>2 DEF Cancel
<1>3. ASSUME NEW c \in Cids, ContainerExit(c) PROVE ReportInv'
    BY <1>3 DEF ContainerExit, Dies
<1>4. ASSUME NEW c \in Cids, Age(c) PROVE ReportInv'
    BY <1>4 DEF Age
<1>5. ASSUME LoseEvents PROVE ReportInv'
    BY <1>5 DEF LoseEvents, Fault
<1>6. ASSUME Restart PROVE ReportInv'
    BY <1>6 DEF Restart
<1>7. ASSUME DispatchTick PROVE ReportInv'
    BY <1>7 DEF DispatchTick
<1>8. ASSUME Query PROVE ReportInv'
    BY <1>8 DEF Query
<1>9. ASSUME EndPass PROVE ReportInv'
    BY <1>9 DEF EndPass
<1>10. ASSUME CreateFails PROVE ReportInv'
    BY <1>10 DEF CreateFails, Fault
<1>11. ASSUME StartContainer PROVE ReportInv'
    BY <1>11 DEF StartContainer
<1>12. ASSUME StartFails PROVE ReportInv'
    BY <1>12 DEF StartFails, Fault
<1>13. ASSUME Release PROVE ReportInv'
    BY <1>13 DEF Release, Delete
<1>14. ASSUME Record PROVE ReportInv'
    BY <1>14 DEF Record
<1>15. ASSUME Mark PROVE ReportInv'
    BY <1>15 DEF Mark, Write, Fault
<1>16. ASSUME NEW p \in Projects, SkipRunning(p) PROVE ReportInv'
    BY <1>16 DEF SkipRunning, NextUp
<1>17. ASSUME NEW p \in Projects, Reserve(p) PROVE ReportInv'
    BY <1>17 DEF Reserve, NextUp, Taken
<1>18. ASSUME NEW c \in Cids, CreateContainer(c) PROVE ReportInv'
    BY <1>18 DEF CreateContainer
<1>19. ASSUME NEW h \in Handlers, NEW c \in Cids, HandleEvent(h, c) PROVE ReportInv'
    BY <1>19 DEF HandleEvent
<1>20. ASSUME NEW h \in AllHandlers, FindTracked(h) PROVE ReportInv'
    BY <1>20 DEF FindTracked, Goto
<1>21. ASSUME NEW h \in AllHandlers, FindByLabel(h) PROVE ReportInv'
    BY <1>21 DEF FindByLabel, Goto, Return, Fault
<1>22. ASSUME NEW h \in AllHandlers, Inspect(h) PROVE ReportInv'
    BY <1>22 DEF Inspect, Goto
<1>23. ASSUME NEW h \in AllHandlers, InspectFails(h) PROVE ReportInv'
    BY <1>23 DEF InspectFails, Delete, Return, Goto, Fault
<1>24. ASSUME NEW h \in AllHandlers, Update(h) PROVE ReportInv'
    BY <1>24 DEF Update, Write, Fault, Verdict, Goto
<1>25. ASSUME NEW h \in AllHandlers, FreeSlot(h) PROVE ReportInv'
    BY <1>25 DEF FreeSlot, Delete, Goto
<1>26. ASSUME NEW h \in AllHandlers, Remove(h) PROVE ReportInv'
    BY <1>26 DEF Remove, Return, Goto, Fault
<1>27. ASSUME ReconcileList PROVE ReportInv'
    BY <1>27 DEF ReconcileList, ListedRunning, ListedStopped
<1>28. ASSUME ReconcileTracked PROVE ReportInv'
    BY <1>28 DEF ReconcileTracked
<1>29. ASSUME AdoptSync PROVE ReportInv'
    BY <1>29 DEF AdoptSync, Write, Fault
<1>30. ASSUME ReconcileEnd PROVE ReportInv'
    BY <1>30 DEF ReconcileEnd, Scanning
<1>31. ASSUME NEW c \in Cids, ReconcileExit(c) PROVE ReportInv'
    BY <1>31 DEF ReconcileExit, Scanning, Goto
<1>32. ASSUME NEW c \in Cids, Adopt(c) PROVE ReportInv'
    BY <1>32 DEF Adopt, Scanning
<1>33. ASSUME NEW c \in Cids, KillOrphan(c) PROVE ReportInv'
    BY <1>33 DEF KillOrphan, Scanning, Dies, Fault
<1>34. CASE UNCHANGED vars
    BY <1>34 DEF vars
<1> QED
    BY <1>1, <1>2, <1>3, <1>4, <1>5, <1>6, <1>7, <1>8, <1>9, <1>10, <1>11,
       <1>12, <1>13, <1>14, <1>15, <1>16, <1>17, <1>18, <1>19, <1>20,
       <1>21, <1>22, <1>23, <1>24, <1>25, <1>26, <1>27, <1>28, <1>29,
       <1>30, <1>31, <1>32, <1>33, <1>34 DEF Next, Environment,
       DispatchStep, ExitStep, ReconcileStep

LEMMA ReportInvariance == Spec => [](IInv /\ ReportInv)
<1>1. Init => ReportInv
    BY DEF Init, ReportInv, AllHandlers
<1> QED
    BY <1>1, InductiveInit, InductiveStep, ReportStep, PTL DEF Spec

\* What the daemon and the database do, ContainerLife does as well: creation,
\* start, exit, report and removal of containers, and every status written.
LEMMA LifeStep == IInv /\ ReportInv /\ [Next]_vars => [Life!Next]_(Life!vars)
<1> SUFFICES ASSUME IInv, ReportInv, [Next]_vars PROVE [Life!Next]_(Life!vars)
    OBVIOUS
<1> DEFINE Seen == <<cstate, reports, cproj, cfail, status>>
           Goal == [Life!Next]_(Life!vars)
<1> USE DEF IInv, TypeOK, CStates, Statuses, AllHandlers
<1>s. ASSUME UNCHANGED Seen PROVE Goal
    BY <1>s DEF life, Life!vars
<1>w. ASSUME UNCHANGED <<cstate, reports, cproj, cfail>> PROVE UNCHANGED <<life, cproj, cfail>>
    BY <1>w DEF life
<1>t. ASSUME NEW c \in Cids, Started(c), ~Abandoned(c)
      PROVE  life[c] \in Life!Ended \cup {"running"}
    BY <1>t DEF Started, Abandoned, life, Life!Ended
<1>1. ASSUME NEW p \in Projects, Schedule(p) PROVE Goal
    BY <1>1, <1>w DEF Schedule, Life!Next, Life!Ask, Life!Show
<1>2. ASSUME NEW p \in Projects, Cancel(p) PROVE Goal
    BY <1>2, <1>w DEF Cancel, Life!Next, Life!Cancel, Life!Show
<1>3. ASSUME NEW c \in Cids, NEW failed \in BOOLEAN, Live(c), Dies(c, failed),
             UNCHANGED <<status, cproj, reports>>
      PROVE  Goal
  <2>1. Life!Exit(c)
    BY <1>3 DEF Live, Dies, ReportInv, Stopped, life, Life!Exit, Life!Become
  <2> QED
    BY <2>1 DEF Life!Next
<1>4. ASSUME NEW c \in Cids, CreateContainer(c) PROVE Goal
  <2>1. dproj \in Projects /\ reports[c] = 0
    BY <1>4 DEF CreateContainer, DispatchInv, ReportInv, Stopped
  <2>2. Life!Create(c, dproj)
    BY <1>4, <2>1 DEF CreateContainer, life, Life!Create, Life!Become
  <2> QED
    BY <2>1, <2>2 DEF Life!Next
<1>5. CASE StartContainer
  <2>1. dcid \in Cids /\ cstate[dcid] = "created" /\ reports[dcid] = 0
    BY <1>5 DEF StartContainer, DispatchInv, ReportInv, Stopped
  <2>2. Life!Start(dcid)
    BY <1>5, <2>1 DEF StartContainer, life, Life!Start, Life!Become
  <2> QED
    BY <2>1, <2>2 DEF Life!Next
<1>6. CASE StartFails
  <2>1. dcid \in Cids /\ cstate[dcid] = "created" /\ reports[dcid] = 0
    BY <1>6 DEF StartFails, DispatchInv, ReportInv, Stopped
  <2>2. CASE cstate' = [cstate EXCEPT ![dcid] = "created"]
    BY <1>6, <2>1, <2>2, <1>s DEF StartFails
  <2>3. CASE cstate' = [cstate EXCEPT ![dcid] = "removed"]
    <3>1. Life!Abandon(dcid)
      BY <1>6, <2>1, <2>3 DEF StartFails, life, Life!Abandon, Life!Become
    <3> QED
      BY <2>1, <3>1 DEF Life!Next
  <2> QED
    BY <1>6, <2>2, <2>3 DEF StartFails
<1>7. ASSUME NEW c \in Cids, Started(c), ~Abandoned(c), cproj[c] \in Projects,
             Write(cproj[c], "running"), UNCHANGED <<cstate, reports, cproj, cfail>>
      PROVE  Goal
  <2>1. CASE UNCHANGED status
    BY <1>7, <2>1, <1>s
  <2>2. CASE status' = [status EXCEPT ![cproj[c]] = "running"]
    <3>1. Life!Track(cproj[c])
      BY <1>7, <2>2, <1>w, <1>t DEF Life!Track, Life!Show
    <3> QED
      BY <1>7, <3>1 DEF Life!Next
  <2> QED
    BY <1>7, <2>1, <2>2 DEF Write
<1>8. CASE Mark
    BY <1>8, <1>7 DEF Mark, DispatchInv, ReportInv, Started
<1>9. CASE AdoptSync
    BY <1>9, <1>7 DEF AdoptSync, ReconcileInv, ReportInv, Started
<1>10. ASSUME NEW c \in Cids, KillOrphan(c) PROVE Goal
    BY <1>10, <1>3, <1>s DEF KillOrphan
<1>11. ASSUME NEW h \in AllHandlers, Inspect(h) PROVE Goal
  <2> DEFINE c == hcid[h]
  <2>1. c \in Cids /\ cstate[c] = "exited"
    BY <1>11 DEF Inspect, ExitInv, Stopped
  <2>2. CASE reports[c] = 0
    <3>1. Life!Report(c)
      BY <1>11, <2>1, <2>2 DEF Inspect, life, Life!Report, Life!Become
    <3> QED
      BY <2>1, <3>1 DEF Life!Next
  <2>3. CASE reports[c] # 0
    <3>1. life' = life
      BY <1>11, <2>1, <2>3 DEF Inspect, life
    <3> QED
      BY <1>11, <3>1 DEF Inspect, Life!vars
  <2> QED
    BY <2>2, <2>3
<1>12. ASSUME NEW h \in AllHandlers, Update(h) PROVE Goal
  <2> DEFINE c == hcid[h]
  <2>1. /\ c \in Cids /\ Stopped(c) /\ reports[c] > 0
        /\ hproj[h] = cproj[c] /\ cproj[c] \in Projects
    BY <1>12 DEF Update, ExitInv, ReportInv, Stopped
  <2>2. CASE UNCHANGED status
    BY <1>12, <2>2, <1>s DEF Update
  <2>3. CASE status' = [status EXCEPT ![cproj[c]] = Verdict(c)]
    <3>1. life[c] \in Life!Reported
      BY <2>1 DEF Stopped, life, Life!Reported
    <3>2. Life!Conclude(cproj[c])
      BY <1>12, <2>1, <2>3, <3>1, <1>w DEF Update, Verdict, Life!Conclude, Life!Show
    <3> QED
      BY <2>1, <3>2 DEF Life!Next
  <2> QED
    BY <1>12, <2>1, <2>2, <2>3 DEF Update, Write
<1>13. ASSUME NEW h \in AllHandlers, Remove(h) PROVE Goal
  <2> DEFINE c == hcid[h]
  <2>1. c \in Cids /\ Stopped(c) /\ reports[c] > 0
    BY <1>13 DEF Remove, ExitInv, ReportInv, Stopped
  <2>2. CASE cstate' = [cstate EXCEPT ![c] = "removed"] /\ cstate[c] = "exited"
    <3>1. Life!Clean(c)
      BY <1>13, <2>1, <2>2 DEF Remove, life, Life!Clean, Life!Become
    <3> QED
      BY <2>1, <3>1 DEF Life!Next
  <2>3. CASE UNCHANGED cstate
    BY <1>13, <2>3, <1>s DEF Remove
  <2> QED
    BY <1>13, <2>1, <2>2, <2>3 DEF Remove, Stopped
<1>14. CASE Environment
    BY <1>14, <1>1, <1>2, <1>3, <1>s DEF Environment, ContainerExit, Age, LoseEvents,
       Restart
<1>15. CASE DispatchStep
    BY <1>15, <1>4, <1>5, <1>6, <1>8, <1>s DEF DispatchStep, DispatchTick, Query,
       EndPass, CreateFails, Release, Record, SkipRunning, Reserve
<1>16. ASSUME NEW h \in AllHandlers, ExitStep(h) PROVE Goal
    BY <1>16, <1>11, <1>12, <1>13, <1>s DEF ExitStep, FindTracked, FindByLabel,
       InspectFails, FreeSlot
<1>17. ASSUME NEW h \in Handlers, NEW c \in Cids, HandleEvent(h, c) PROVE Goal
    BY <1>17, <1>s DEF HandleEvent
<1>18. CASE ReconcileStep
    BY <1>18, <1>9, <1>10, <1>s DEF ReconcileStep, ReconcileList, ReconcileTracked,
       ReconcileEnd, ReconcileExit, Adopt
<1>19. CASE UNCHANGED vars
    BY <1>19, <1>s DEF vars
<1> QED
    BY <1>14, <1>15, <1>16, <1>17, <1>18, <1>19 DEF Next

\* The executor implements ContainerLife, crashes and restarts included.
THEOREM ImplementsLifeTheorem == Spec => ImplementsLife
<1>1. Init => Life!Init
    BY DEF Init, Life!Init, life
<1> QED
    BY <1>1, LifeStep, ReportInvariance, PTL DEF Spec, ImplementsLife, Life!Spec
===============================================================================
