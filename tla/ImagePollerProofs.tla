--------------------------- MODULE ImagePollerProofs ---------------------------
(***************************************************************************)
(* What the poller publishes, for every registry, every configuration and  *)
(* any number of pushes, revocations and failures.  The state alone does   *)
(* not say why it stays right: a tick works on a copy of it, so the        *)
(* invariant also says of the copy, TickInv, that it knows at least what   *)
(* the state knows, and more the further the tick has come.                *)
(***************************************************************************)
EXTENDS ImagePoller, FiniteSetTheorems, TLAPS

InTick == tpc \in {"head", "local", "list", "latest", "publish"}

Offers(o) ==
    o.latestTag # None =>
        /\ cfg.tag \in Family /\ o.latestTag \in Family
        /\ cfg.tag < o.latestTag

TickInv ==
    /\ Offers(next)
    /\ InTick => /\ state.digest # None => next.digest # None
                 /\ state.latestTag # None => next.latestTag # None
    /\ tpc \in {"local", "list", "latest", "publish"} => next.digest # None
    /\ tpc \in {"list", "latest"} => cfg.tag \in Family
    /\ tpc = "latest" => next.latestTag # None

ReadyInv == state.ready /\ cfg.enabled => state.digest # None

IInv == TypeOK /\ UpdateConsistent /\ OfferIsUpgrade /\ TickInv /\ ReadyInv

LastKnownGoodStep ==
    /\ (state.ready => state'.ready)
    /\ (state.digest # None => state'.digest # None)
    /\ (state.latestTag # None => state'.latestTag # None)
    /\ (state'.ready /\ cfg.enabled => state'.digest # None)

LEMMA ConfigTypes ==
    ASSUME TypeOK
    PROVE  /\ cfg.enabled \in BOOLEAN /\ cfg.once \in BOOLEAN
           /\ cfg.refresh \in BOOLEAN /\ cfg.guarded \in BOOLEAN
           /\ cfg.tag \in Tags
  BY ConfigAssumption DEF TypeOK

\* A Status made from a copy that is well typed is well typed and consistent.
LEMMA ObservedStatus ==
    ASSUME NEW o \in Observation, NEW f \in BOOLEAN
    PROVE  /\ Observed(o, f) \in Status
           /\ Observed(o, f).updateAvailable <=> Derived(Observed(o, f))
           /\ Observed(o, f).ready
           /\ Observed(o, f).digest = o.digest
           /\ Observed(o, f).latestTag = o.latestTag
<1>1. Derived(o) \in BOOLEAN
  BY DEF Derived
<1>2. Observed(o, f) \in Status
  BY <1>1 DEF Observed, Status, Observation
<1>3. Derived(Observed(o, f)) <=> Derived(o)
  BY DEF Derived, Observed
<1> QED
  BY <1>2, <1>3 DEF Observed

LEMMA InitInv == Init => IInv
<1> SUFFICES ASSUME Init PROVE IInv
  OBVIOUS
<1>1. cfg \in Configs /\ cfg.tag \in Tags /\ cfg.enabled \in BOOLEAN
  BY ConfigAssumption DEF Init
<1>2. PICK S \in SUBSET Tags :
          remote = [t \in Tags |-> IF t \in S THEN <<t, 0>> ELSE None]
  BY DEF Init
<1>3. remote \in [Tags -> Digests \cup {None}]
  BY <1>2 DEF Digests
<1>4. local \in Digests \cup {None}
  BY <1>1 DEF Init, Digests
<1>5. state \in Status /\ next \in Observation
  BY <1>1 DEF Init, Status, Observation, Snapshot
<1>6. TypeOK
  BY <1>1, <1>3, <1>4, <1>5 DEF Init, TypeOK
<1>7. UpdateConsistent
  BY DEF Init, UpdateConsistent, Derived
<1>8. OfferIsUpgrade /\ TickInv /\ ReadyInv
  BY <1>1 DEF Init, OfferIsUpgrade, TickInv, ReadyInv, Offers, InTick, Snapshot
<1> QED
  BY <1>6, <1>7, <1>8 DEF IInv

\* The copy keeps its type, and prior values only ever fill what it lacks.
LEMMA PriorTypes ==
    ASSUME IInv
    PROVE  /\ WithPrior(next) \in Observation
           /\ WithPrior(next).digest = next.digest
           /\ next.latestTag # None => WithPrior(next).latestTag = next.latestTag
           /\ next.latestTag = None => WithPrior(next).latestTag = state.latestTag
<1>1. next \in Observation /\ state \in Status
  BY DEF IInv, TypeOK
<1> QED
  BY <1>1 DEF WithPrior, Observation, Status

\* What a failing tick publishes.
LEMMA FailedInv ==
    ASSUME IInv, Failed, cfg' = cfg, gauge' = gauge, next' = next,
           tpc \in {"head", "local", "list", "latest"}
    PROVE  /\ state' \in Status /\ tpc' \in {"gauge", "publish"}
           /\ UpdateConsistent' /\ OfferIsUpgrade' /\ TickInv' /\ ReadyInv'
           /\ LastKnownGoodStep
<1> USE DEF IInv, Status
<1>1. CASE tpc = "head" /\ recordTotalFailure
  <2>1. /\ state' \in Status /\ state'.updateAvailable = state.updateAvailable
        /\ state'.digest = state.digest /\ state'.latestTag = state.latestTag
        /\ state'.localDigest = state.localDigest /\ state'.ready = state.ready
    BY <1>1 DEF recordTotalFailure, TotalFailure, TypeOK
  <2>2. tpc' = "gauge"
    BY <1>1 DEF recordTotalFailure
  <2>3. UpdateConsistent'
    BY <2>1, <2>2 DEF UpdateConsistent, Derived
  <2> QED
    BY <2>1, <2>2, <2>3 DEF OfferIsUpgrade, TickInv, Offers, InTick, ReadyInv,
       LastKnownGoodStep
<1>2. CASE tpc \in {"local", "list"} /\ recordPartialSuccess
  <2>1. state' = Observed(WithPrior(next), TRUE) /\ tpc' = "gauge"
    BY <1>2 DEF recordPartialSuccess
  <2>2. /\ state' \in Status /\ (state'.updateAvailable <=> Derived(state'))
        /\ state'.ready /\ state'.digest = next.digest
        /\ state'.latestTag = WithPrior(next).latestTag
    BY <2>1, PriorTypes, ObservedStatus
  <2>3. next.digest # None /\ (state.latestTag # None => next.latestTag # None)
    BY <1>2 DEF TickInv, InTick
  <2>4. state'.latestTag = next.latestTag
    BY <2>2, <2>3, PriorTypes
  <2>5. UpdateConsistent' /\ ReadyInv'
    BY <2>1, <2>2, <2>3 DEF UpdateConsistent, ReadyInv
  <2>6. OfferIsUpgrade' /\ TickInv'
    BY <2>1, <2>4 DEF OfferIsUpgrade, TickInv, Offers, InTick
  <2> QED
    BY <2>1, <2>2, <2>3, <2>4, <2>5, <2>6 DEF LastKnownGoodStep
<1>3. CASE tpc = "latest" /\ tpc' = "publish" /\ UNCHANGED state
  BY <1>3 DEF TypeOK, UpdateConsistent, Derived, OfferIsUpgrade, TickInv, Offers,
     InTick, ReadyInv, LastKnownGoodStep
<1> QED
  BY <1>1, <1>2, <1>3 DEF Failed

\* A step that leaves the poller's own variables alone.
LEMMA ElsewhereInv ==
    ASSUME IInv, UNCHANGED <<cfg, state, gauge, tpc, next>>
    PROVE  /\ UpdateConsistent' /\ OfferIsUpgrade' /\ TickInv' /\ ReadyInv'
           /\ LastKnownGoodStep
  BY DEF IInv, UpdateConsistent, Derived, OfferIsUpgrade, TickInv, Offers, InTick,
     ReadyInv, LastKnownGoodStep

\* A step of the tick that publishes nothing and leaves a copy that knows more.
LEMMA CopyInv ==
    ASSUME IInv, UNCHANGED <<cfg, state, gauge>>, tpc' # "idle", TickInv'
    PROVE  /\ UpdateConsistent' /\ OfferIsUpgrade' /\ ReadyInv'
           /\ LastKnownGoodStep
  BY DEF IInv, UpdateConsistent, Derived, OfferIsUpgrade, ReadyInv,
     LastKnownGoodStep

LEMMA HeadInv == IInv /\ HeadManifest => IInv' /\ LastKnownGoodStep
<1> SUFFICES ASSUME IInv, HeadManifest PROVE IInv' /\ LastKnownGoodStep
  OBVIOUS
<1> USE DEF IInv
<1>1. HeadTag \in Tags
  BY ConfigTypes DEF HeadTag, HeadManifest, TickInv, TypeOK, Observation
<1>2. remote[HeadTag] \in Digests /\ remote[HeadTag] # None
  BY <1>1 DEF HeadManifest, TypeOK
<1>3. next' \in Observation
  BY <1>2 DEF HeadManifest, TypeOK, Observation
<1>4. TypeOK'
  BY <1>3 DEF HeadManifest, TypeOK, world, pull
<1>5. CASE tpc = "head"
  <2>1. /\ next'.digest # None /\ next'.latestTag = next.latestTag
        /\ tpc' = "local"
    BY <1>2, <1>5 DEF HeadManifest, TypeOK, Observation
  <2>2. TickInv'
    BY <1>5, <2>1 DEF HeadManifest, TickInv, Offers, InTick, world
  <2> QED
    BY <1>4, <2>1, <2>2, CopyInv DEF HeadManifest, world
<1>6. CASE tpc = "latest"
  <2>1. /\ next'.digest = next.digest /\ next'.latestTag = next.latestTag
        /\ tpc' = "publish"
    BY <1>6 DEF HeadManifest, TypeOK, Observation
  <2>2. TickInv'
    BY <1>6, <2>1 DEF HeadManifest, TickInv, Offers, InTick, world
  <2> QED
    BY <1>4, <2>1, <2>2, CopyInv DEF HeadManifest, world
<1> QED
  BY <1>5, <1>6 DEF HeadManifest

LEMMA ListInv == IInv /\ (ListPage \/ ListEnd) => IInv' /\ LastKnownGoodStep
<1> SUFFICES ASSUME IInv, ListPage \/ ListEnd PROVE IInv' /\ LastKnownGoodStep
  OBVIOUS
<1> USE DEF IInv
<1>1. CASE ListPage
  <2>1. listed' \subseteq Tags /\ url' \in Nat \cup {None}
    <3>1. CASE url' = None /\ UNCHANGED listed
      BY <3>1 DEF TypeOK
    <3>2. ASSUME NEW t \in Tags, listed' = listed \cup {t},
                 url' = IF After(t) = {} THEN None ELSE t + 1
          PROVE  listed' \subseteq Tags /\ url' \in Nat \cup {None}
      <4>1. t + 1 \in Nat
        BY TagAssumption
      <4> QED
        BY <3>2, <4>1 DEF TypeOK
    <3> QED
      BY <1>1, <3>1, <3>2 DEF ListPage
  <2>2. pages' \in Nat
    BY <1>1 DEF ListPage, TypeOK
  <2>3. TypeOK'
    BY <1>1, <2>1, <2>2 DEF ListPage, TypeOK, world, pull
  <2> QED
    BY <1>1, <2>3, ElsewhereInv DEF ListPage, world
<1>2. CASE ListEnd /\ Newer = {} /\ tpc' = "publish" /\ UNCHANGED next
  <2>1. TypeOK'
    BY <1>2 DEF ListEnd, TypeOK, world, pull
  <2>2. TickInv'
    BY <1>2 DEF ListEnd, TickInv, Offers, InTick, world
  <2> QED
    BY <1>2, <2>1, <2>2, CopyInv DEF ListEnd, world
<1>3. ASSUME ListEnd, NEW t \in Tags, Greatest(t, Newer), tpc' = "latest",
             next' = [next EXCEPT !.latestTag = t]
      PROVE  IInv' /\ LastKnownGoodStep
  <2>1. t \in Family /\ cfg.tag < t
    BY <1>3 DEF Greatest, Newer
  <2>2. /\ next' \in Observation /\ next'.latestTag = t
        /\ next'.digest = next.digest
    BY <1>3 DEF TypeOK, Observation
  <2>3. TypeOK'
    BY <1>3, <2>2 DEF ListEnd, TypeOK, world, pull
  <2>4. t # None
    BY TagAssumption, NoneAssumption
  <2>5. TickInv'
    BY <1>3, <2>1, <2>2, <2>4 DEF ListEnd, TickInv, Offers, InTick, world
  <2> QED
    BY <1>3, <2>3, <2>5, CopyInv DEF ListEnd, world
<1> QED
  BY <1>1, <1>2, <1>3 DEF ListEnd

LEMMA TickStepInv == IInv /\ Tick => IInv' /\ LastKnownGoodStep
<1> SUFFICES ASSUME IInv, Tick PROVE IInv' /\ LastKnownGoodStep
  OBVIOUS
<1> USE DEF IInv
<1>1. CASE BeginTick
  <2>1. next' \in Observation /\ next'.digest = state.digest
        /\ next'.latestTag = state.latestTag
    BY <1>1 DEF BeginTick, Snapshot, TypeOK, Status, Observation
  <2>2. TypeOK'
    BY <1>1, <2>1 DEF BeginTick, TypeOK, world, pull
  <2>3. TickInv'
    BY <1>1, <2>1 DEF BeginTick, TickInv, Offers, InTick, OfferIsUpgrade, world
  <2> QED
    BY <1>1, <2>2, <2>3, CopyInv DEF BeginTick, world
<1>2. CASE HeadManifest
  BY <1>2, HeadInv
<1>3. CASE Challenge
  <2>1. TypeOK'
    BY <1>3 DEF Challenge, TypeOK, world, pull
  <2> QED
    BY <1>3, <2>1, ElsewhereInv DEF Challenge, world
<1>4. CASE AnonymousBearer
  <2>1. TypeOK'
    BY <1>4 DEF AnonymousBearer, TypeOK, world, pull
  <2> QED
    BY <1>4, <2>1, ElsewhereInv DEF AnonymousBearer, world
<1>5. CASE CallFails
  <2>1. /\ state' \in Status /\ tpc' \in {"gauge", "publish"}
        /\ UpdateConsistent' /\ OfferIsUpgrade' /\ TickInv' /\ ReadyInv'
        /\ LastKnownGoodStep
    BY <1>5, FailedInv DEF CallFails, world
  <2>2. faults' \in Nat
    BY <1>5 DEF CallFails, Breaks, Fault, TypeOK
  <2>3. TypeOK'
    BY <1>5, <2>1, <2>2 DEF CallFails, TypeOK, world, pull
  <2> QED
    BY <2>1, <2>3
<1>6. CASE LocalDigest
  <2>1. /\ next' \in Observation /\ next'.digest = next.digest
        /\ next'.latestTag = next.latestTag
    BY <1>6 DEF LocalDigest, TypeOK, Observation
  <2>2. TypeOK'
    BY <1>6, <2>1 DEF LocalDigest, TypeOK, world, pull
  <2>3. TickInv'
    BY <1>6, <2>1 DEF LocalDigest, TickInv, Offers, InTick, world
  <2> QED
    BY <1>6, <2>2, <2>3, CopyInv DEF LocalDigest, world
<1>7. CASE ListPage \/ ListEnd
  BY <1>7, ListInv
<1>8. CASE Publish
  <2>1. next \in Observation /\ next.digest # None
    BY <1>8 DEF Publish, TypeOK, TickInv
  <2>2. state' = Observed(next, FALSE) /\ tpc' = "gauge"
    BY <1>8 DEF Publish
  <2>3. /\ state' \in Status /\ (state'.updateAvailable <=> Derived(state'))
        /\ state'.ready /\ state'.digest = next.digest
        /\ state'.latestTag = next.latestTag
    BY <2>1, <2>2, ObservedStatus
  <2>4. TypeOK'
    BY <1>8, <2>3 DEF Publish, TypeOK, world, pull
  <2>5. UpdateConsistent' /\ ReadyInv'
    BY <2>1, <2>2, <2>3 DEF UpdateConsistent, ReadyInv
  <2>6. OfferIsUpgrade' /\ TickInv'
    BY <1>8, <2>2, <2>3 DEF Publish, OfferIsUpgrade, TickInv, Offers, InTick, world
  <2>7. LastKnownGoodStep
    BY <1>8, <2>1, <2>3 DEF Publish, TickInv, InTick, LastKnownGoodStep
  <2> QED
    BY <2>4, <2>5, <2>6, <2>7
<1>9. CASE EndTick
  <2>1. /\ next' \in Observation /\ next'.latestTag = state.latestTag
        /\ gauge' = state.updateAvailable /\ gauge' \in BOOLEAN
        /\ tpc' \in {"stopped", "idle"}
    BY <1>9 DEF EndTick, GaugeValue, Snapshot, TypeOK, Status, Observation
  <2>2. TypeOK'
    BY <1>9, <2>1 DEF EndTick, TypeOK, world, pull
  <2>3. UpdateConsistent'
    BY <1>9, <2>1 DEF EndTick, UpdateConsistent, Derived
  <2>4. OfferIsUpgrade' /\ TickInv' /\ ReadyInv' /\ LastKnownGoodStep
    BY <1>9, <2>1 DEF EndTick, OfferIsUpgrade, TickInv, Offers, InTick, ReadyInv,
       LastKnownGoodStep, world
  <2> QED
    BY <2>2, <2>3, <2>4
<1> QED
  BY <1>1, <1>2, <1>3, <1>4, <1>5, <1>6, <1>7, <1>8, <1>9 DEF Tick

LEMMA EnvironmentInv == IInv /\ Environment => IInv' /\ LastKnownGoodStep
<1> SUFFICES ASSUME IInv, Environment PROVE IInv' /\ LastKnownGoodStep
  OBVIOUS
<1>1. UNCHANGED <<cfg, state, gauge, tpc, next>>
  BY DEF Environment, Push, Withdraw, Revoke, Prune, Cancel, Expire, world, tick
<1>2. TypeOK'
  <2> USE DEF IInv, TypeOK, world, tick, pull
  <2>1. ASSUME NEW t \in Tags, Push(t) PROVE TypeOK'
    <3>1. <<t, pushes + 1>> \in Digests
      BY DEF Digests
    <3> QED
      BY <2>1, <3>1 DEF Push
  <2>2. ASSUME NEW t \in Tags, Withdraw(t) PROVE TypeOK'
    BY <2>2 DEF Withdraw, Fault
  <2>3. CASE Revoke
    BY <2>3 DEF Revoke
  <2>4. CASE Prune
    BY <2>4 DEF Prune, Fault
  <2>5. CASE Cancel
    BY <2>5 DEF Cancel
  <2>6. CASE Expire
    BY <2>6 DEF Expire
  <2> QED
    BY <2>1, <2>2, <2>3, <2>4, <2>5, <2>6 DEF Environment
<1> QED
  BY <1>1, <1>2, ElsewhereInv DEF IInv

LEMMA PullInv ==
    ASSUME IInv, NEW g \in Pullers, Pull(g)
    PROVE  IInv' /\ LastKnownGoodStep
<1>1. UNCHANGED <<cfg, state, gauge, tpc, next>>
  BY DEF Pull, StartPull, ImagePull, Drain, world, tick
<1>2. faults' \in Nat
  BY DEF Pull, StartPull, ImagePull, Drain, Breaks, Fault, IInv, TypeOK
<1>3. TypeOK'
  <2> USE DEF IInv, TypeOK, world, tick
  <2>1. CASE StartPull(g)
    BY <1>2, <2>1 DEF StartPull
  <2>2. CASE ImagePull(g)
    BY <1>2, <2>2, ConfigTypes DEF ImagePull
  <2>3. CASE Drain(g)
    BY <1>2, <2>3 DEF Drain
  <2> QED
    BY <2>1, <2>2, <2>3 DEF Pull
<1> QED
  BY <1>1, <1>3, ElsewhereInv DEF IInv

LEMMA NextInv == IInv /\ [Next]_vars => IInv' /\ LastKnownGoodStep
<1> SUFFICES ASSUME IInv, [Next]_vars PROVE IInv' /\ LastKnownGoodStep
  OBVIOUS
<1>1. CASE StopPolling
  <2>1. TypeOK'
    BY <1>1 DEF IInv, TypeOK, StopPolling, world, pull
  <2>2. TickInv'
    BY <1>1 DEF IInv, TickInv, Offers, InTick, StopPolling, world
  <2> QED
    BY <1>1, <2>1, <2>2, CopyInv DEF IInv, StopPolling, world
<1>2. CASE StopRefreshing
  <2>1. TypeOK'
    BY <1>2, PullerAssumption DEF IInv, TypeOK, StopRefreshing, world, tick
  <2> QED
    BY <1>2, <2>1, ElsewhereInv DEF IInv, StopRefreshing, world, tick
<1>3. CASE UNCHANGED vars
  <2>1. TypeOK'
    BY <1>3 DEF IInv, TypeOK, vars, world, tick, pull
  <2> QED
    BY <1>3, <2>1, ElsewhereInv DEF IInv, vars, world, tick
<1> QED
  BY <1>1, <1>2, <1>3, TickStepInv, EnvironmentInv, PullInv DEF Next

LEMMA Invariant == Spec => []IInv
  BY InitInv, NextInv, PTL DEF Spec

-----------------------------------------------------------------------------
\* Type correctness of the poller (poller.go:30-44, 75-89).
THEOREM PollerTypes == Spec => []TypeOK
<1>1. IInv => TypeOK
  BY DEF IInv
<1> QED
  BY Invariant, <1>1, PTL

\* However a tick ended, the published flag says what the published fields say,
\* and the metric repeats it between ticks (poller.go:217, 280; main.go:184-189).
THEOREM FlagFollowsFields == Spec => []UpdateConsistent
<1>1. IInv => UpdateConsistent
  BY DEF IInv
<1> QED
  BY Invariant, <1>1, PTL

\* Whatever the registry lists, and whenever, only a newer version of the
\* configured family is offered (registry.go:326, poller.go:197-203).
THEOREM OffersAreUpgrades == Spec => []OfferIsUpgrade
<1>1. IInv => OfferIsUpgrade
  BY DEF IInv
<1> QED
  BY Invariant, <1>1, PTL

\* No sequence of failing ticks takes away what an earlier one has observed, and
\* Ready is never given without an observation (poller.go:239-293).
THEOREM KnownGoodIsKept == Spec => LastKnownGoodKept
<1>1. IInv /\ [Next]_vars => [LastKnownGoodStep]_vars
  BY NextInv
<1> QED
  BY Invariant, <1>1, PTL DEF Spec, LastKnownGoodKept, LastKnownGoodStep

-----------------------------------------------------------------------------
(* A tick in quiet times.  Nothing is pushed, withdrawn, revoked, pulled or     *)
(* cancelled any more, and no call fails for a reason of its own; the cached    *)
(* token may still expire, and the pullers may still find what is there.        *)

QuietNext == Next /\ UNCHANGED <<world, local, faults>>

\* Between two ticks, of a poller that has something to see and no token that
\* the realm has withdrawn.
Settled ==
    /\ tpc \in {"start", "idle"}
    /\ ~cancelled /\ remote[cfg.tag] # None /\ cache \in {None, epoch}

\* A bearer token is a local variable of one call, and is asked for once.
CallInv ==
    /\ tpc \notin {"head", "list", "latest"} => call = "http" /\ token = None
    /\ call = "token" => token = None

\* The requests of ListTags: one for each tag, and one that was challenged.
Challenged == IF call = "token" \/ token # None THEN 1 ELSE 0

ListingInv ==
    tpc = "list" =>
        /\ listed = {t \in Present : url = None \/ t < url}
        /\ url # None => \E t \in Present : url <= t
        /\ pages = Cardinality(listed) + Challenged

\* How much of the truth the tick has seen.
SeenInv ==
    /\ tpc \in {"local", "list", "latest", "publish"} =>
           next.digest = remote[cfg.tag]
    /\ tpc \in {"list", "latest", "publish"} => next.localDigest = local
    /\ tpc = "latest" =>
           /\ next.latestTag \in Present
           /\ ListComplete => Greatest(next.latestTag, Upgrades)
    /\ tpc = "publish" /\ Upgrades # {} /\ ListComplete =>
           /\ Greatest(next.latestTag, Upgrades)
           /\ next.latestDigest = remote[next.latestTag]
    /\ tpc = "gauge" => Truthful

QuietInv ==
    /\ ~cancelled /\ remote[cfg.tag] # None
    /\ cache \in {None, epoch} /\ token \in {None, epoch}
    /\ CallInv /\ ListingInv /\ SeenInv

LEMMA NoneIsNoNumber == \A n \in Nat : n # None
  BY NoneAssumption

LEMMA PresentFinite == IsFiniteSet(Present) /\ Present \subseteq Tags
<1>1. Present \subseteq Tags
  BY DEF Present
<1> QED
  BY <1>1, TagAssumption, FS_Subset

LEMMA CallInit == Init => CallInv
  BY DEF Init, CallInv

LEMMA CallStep == IInv /\ CallInv /\ [Next]_vars => CallInv'
<1> SUFFICES ASSUME IInv, CallInv, [Next]_vars PROVE CallInv'
  OBVIOUS
<1> USE DEF CallInv
<1>1. CASE Tick
  <2>1. CASE BeginTick
    BY <2>1 DEF BeginTick
  <2>2. CASE HeadManifest
    BY <2>2 DEF HeadManifest
  <2>3. CASE Challenge
    BY <2>3 DEF Challenge
  <2>4. CASE AnonymousBearer
    BY <2>4 DEF AnonymousBearer
  <2>5. CASE CallFails
    BY <2>5 DEF CallFails
  <2>6. CASE LocalDigest
    BY <2>6 DEF LocalDigest
  <2>7. CASE ListPage
    BY <2>7 DEF ListPage
  <2>8. CASE ListEnd
    BY <2>8 DEF ListEnd
  <2>9. CASE Publish
    BY <2>9 DEF Publish
  <2>10. CASE EndTick
    BY <2>10 DEF EndTick
  <2> QED
    BY <1>1, <2>1, <2>2, <2>3, <2>4, <2>5, <2>6, <2>7, <2>8, <2>9, <2>10 DEF Tick
<1>2. CASE StopPolling
  BY <1>2 DEF StopPolling
<1>3. CASE Environment \/ StopRefreshing \/ UNCHANGED vars
  BY <1>3 DEF Environment, Push, Withdraw, Revoke, Prune, Cancel, Expire,
     StopRefreshing, vars, tick
<1>4. ASSUME NEW g \in Pullers, Pull(g) PROVE CallInv'
  BY <1>4 DEF Pull, StartPull, ImagePull, Drain, tick
<1> QED
  BY <1>1, <1>2, <1>3, <1>4 DEF Next

\* No call of a quiet tick fails.
LEMMA QuietCalls == IInv /\ QuietInv /\ UNCHANGED faults => ~CallFails
<1> SUFFICES ASSUME IInv, QuietInv, UNCHANGED faults, CallFails PROVE FALSE
  OBVIOUS
<1>1. ~Fault /\ ~Breaks
  BY DEF Fault, Breaks, QuietInv, IInv, TypeOK
<1>2. tpc = "latest" => remote[next.latestTag] # None
  BY DEF QuietInv, SeenInv, Present
<1>3. remote[cfg.tag] # None /\ token \in {None, epoch}
  BY DEF QuietInv
<1> QED
  BY <1>1, <1>2, <1>3 DEF CallFails, HeadTag

\* What is seen of a registry that stays as it is.
LEMMA SameRegistry ==
    ASSUME UNCHANGED <<world, local, faults>>
    PROVE  /\ UNCHANGED <<cfg, cancelled, remote, epoch, local, faults>>
           /\ Present' = Present /\ Upgrades' = Upgrades
           /\ (ListComplete <=> ListComplete')
  BY DEF world, Present, Upgrades, ListComplete

\* A page brings the least of the tags not yet listed.
LEMMA PageInv ==
    ASSUME IInv, QuietInv, ListPage, UNCHANGED <<world, local, faults>>
    PROVE  ListingInv'
<1> DEFINE page == {t \in Present : url <= t}
<1>1. url \in Nat /\ url # None /\ tpc = "list" /\ call = "http"
  BY DEF ListPage, IInv, TypeOK
<1>2. /\ listed = {t \in Present : t < url}
      /\ \E t \in Present : url <= t
      /\ pages = Cardinality(listed) + Challenged
  BY <1>1 DEF QuietInv, ListingInv
<1>3. Present' = Present /\ pages' = pages + 1 /\ Challenged' = Challenged
  BY SameRegistry DEF ListPage, Challenged
<1>4. PICK t \in Tags : /\ Least(t, page) /\ listed' = listed \cup {t}
                        /\ url' = IF After(t) = {} THEN None ELSE t + 1
  BY <1>2 DEF ListPage
<1>5. t \in Present /\ url <= t /\ \A u \in Present : url <= u => t <= u
  BY <1>4 DEF Least
<1>6. t \in Nat /\ Present \subseteq Nat /\ t + 1 # None
  BY <1>4, TagAssumption, NoneIsNoNumber, PresentFinite
<1>7. listed' = {u \in Present : u <= t}
  <2>1. \A u \in Present : u < url \/ u = t <=> u <= t
    BY <1>1, <1>5, <1>6
  <2> QED
    BY <1>2, <1>4, <1>5, <2>1
<1>8. Cardinality(listed') = Cardinality(listed) + 1
  <2>1. t \notin listed
    BY <1>1, <1>2, <1>5, <1>6
  <2>2. IsFiniteSet(listed)
    BY <1>2, PresentFinite, FS_Subset
  <2> QED
    BY <1>4, <2>1, <2>2, FS_AddElement
<1>9. pages' = Cardinality(listed') + Challenged'
  <2>1. IsFiniteSet(listed)
    BY <1>2, PresentFinite, FS_Subset
  <2>2. Cardinality(listed) \in Nat
    BY <2>1, FS_CardinalityType
  <2> QED
    BY <1>2, <1>3, <1>8, <2>2 DEF Challenged
<1>10. CASE After(t) = {}
  <2>1. \A u \in Present : u <= t
    BY <1>6, <1>10 DEF After
  <2>2. url' = None
    BY <1>4, <1>10
  <2> QED
    BY <1>3, <1>7, <1>9, <2>1, <2>2 DEF ListingInv
<1>11. CASE After(t) # {}
  <2>1. url' = t + 1
    BY <1>4, <1>11
  <2>2. \E u \in Present : t + 1 <= u
    <3>1. PICK u \in Present : t < u
      BY <1>11 DEF After
    <3> QED
      BY <1>6, <3>1
  <2>3. \A u \in Present : u < t + 1 <=> u <= t
    BY <1>6
  <2> QED
    BY <1>3, <1>6, <1>7, <1>9, <2>1, <2>2, <2>3 DEF ListingInv
<1> QED
  BY <1>10, <1>11

\* When the requests are enough for the tags and one challenge, the list is whole.
LEMMA ListIsWhole ==
    ASSUME IInv, QuietInv, ListEnd, ListComplete
    PROVE  listed = Present
<1>1. /\ listed = {t \in Present : url = None \/ t < url}
      /\ url # None => \E t \in Present : url <= t
      /\ pages = Cardinality(listed) + Challenged
      /\ url = None \/ pages = PageLimit
  BY DEF ListEnd, QuietInv, ListingInv
<1>2. CASE url = None
  BY <1>1, <1>2
<1>3. ASSUME url # None PROVE FALSE
  <2>1. PICK t \in Present : url <= t
    BY <1>1, <1>3
  <2>2. url \in Nat /\ t \in Nat
    BY <1>3, PresentFinite, TagAssumption DEF IInv, TypeOK
  <2>3. t \notin listed /\ listed \subseteq Present
    BY <1>1, <1>3, <2>1, <2>2
  <2>4. /\ Cardinality(listed) \in Nat /\ Cardinality(Present) \in Nat
        /\ Cardinality(listed) < Cardinality(Present)
    BY <2>1, <2>3, PresentFinite, FS_Subset, FS_CardinalityType
  <2>5. pages = PageLimit /\ Challenged \in {0, 1}
    BY <1>1, <1>3 DEF Challenged
  <2> QED
    BY <1>1, <2>4, <2>5, PageAssumption DEF ListComplete
<1> QED
  BY <1>2, <1>3

\* The newest of a whole list is the newest there is.
LEMMA ListEndInv ==
    ASSUME IInv, QuietInv, ListEnd, UNCHANGED <<world, local, faults>>
    PROVE  SeenInv'
<1> USE SameRegistry
<1>1. /\ next.digest = remote[cfg.tag] /\ next.localDigest = local
      /\ cfg.tag \in Family /\ listed \subseteq Present
  BY DEF ListEnd, QuietInv, SeenInv, ListingInv, IInv, TickInv
<1>2. ListComplete => Upgrades = Newer
  BY <1>1, ListIsWhole DEF Upgrades, Newer
<1>3. CASE Newer = {} /\ tpc' = "publish" /\ UNCHANGED next
  BY <1>1, <1>2, <1>3 DEF SeenInv
<1>4. ASSUME NEW t \in Tags, Greatest(t, Newer), tpc' = "latest",
             next' = [next EXCEPT !.latestTag = t]
      PROVE  SeenInv'
  <2>1. /\ next'.latestTag = t /\ next'.digest = next.digest
        /\ next'.localDigest = next.localDigest
    BY <1>4 DEF IInv, TypeOK, Observation
  <2>2. t \in Present
    BY <1>1, <1>4 DEF Greatest, Newer
  <2>3. ListComplete => Greatest(t, Upgrades)
    BY <1>2, <1>4
  <2>4. ListComplete' => Greatest(next.latestTag, Upgrades)'
    BY <2>1, <2>3 DEF Greatest
  <2> QED
    BY <1>1, <1>4, <2>1, <2>2, <2>4 DEF SeenInv
<1> QED
  BY <1>3, <1>4 DEF ListEnd

LEMMA QuietTickInv ==
    ASSUME IInv, QuietInv, Tick, UNCHANGED <<world, local, faults>>
    PROVE  /\ cache' \in {None, epoch} /\ token' \in {None, epoch}
           /\ ListingInv' /\ SeenInv'
<1> USE SameRegistry
<1>1. next \in Observation /\ cache \in {None, epoch} /\ token \in {None, epoch}
  BY DEF IInv, TypeOK, QuietInv
<1>2. CASE BeginTick
  BY <1>1, <1>2 DEF BeginTick, ListingInv, SeenInv
<1>3. CASE HeadManifest
  <2>1. CASE tpc = "head"
    <3>1. next'.digest = remote[cfg.tag] /\ tpc' = "local"
      BY <1>1, <1>3, <2>1 DEF HeadManifest, HeadTag, Observation
    <3> QED
      BY <1>1, <1>3, <3>1 DEF HeadManifest, ListingInv, SeenInv
  <2>2. CASE tpc = "latest"
    <3>1. /\ tpc' = "publish" /\ next'.latestTag = next.latestTag
          /\ next'.digest = next.digest /\ next'.localDigest = next.localDigest
          /\ next'.latestDigest = remote[next.latestTag]
      BY <1>1, <1>3, <2>2 DEF HeadManifest, HeadTag, Observation
    <3>2. ListComplete => Greatest(next.latestTag, Upgrades)
      BY <2>2 DEF QuietInv, SeenInv
    <3>3. ListComplete' => Greatest(next.latestTag, Upgrades)'
      BY <3>1, <3>2 DEF Greatest
    <3>4. /\ next.digest = remote[cfg.tag] /\ next.localDigest = local
      BY <2>2 DEF QuietInv, SeenInv
    <3> QED
      BY <1>1, <1>3, <3>1, <3>3, <3>4 DEF HeadManifest, ListingInv, SeenInv
  <2> QED
    BY <1>3, <2>1, <2>2 DEF HeadManifest
<1>4. CASE Challenge \/ AnonymousBearer
  <2>1. tpc \in {"head", "list", "latest"}
    BY <1>4 DEF Challenge, AnonymousBearer, QuietInv, CallInv
  <2>2. UNCHANGED <<tpc, next, state, listed, url>>
    BY <1>4 DEF Challenge, AnonymousBearer
  <2>3. cache' \in {None, epoch} /\ token' \in {None, epoch}
    BY <1>1, <1>4 DEF Challenge, AnonymousBearer
  <2>4. SeenInv'
    BY <2>1, <2>2 DEF SeenInv, QuietInv, Greatest
  <2>5. ASSUME tpc = "list" PROVE pages' = Cardinality(listed') + Challenged'
    <3>1. Cardinality(listed) \in Nat
      BY TagAssumption, FS_Subset, FS_CardinalityType DEF IInv, TypeOK
    <3>2. pages = Cardinality(listed) + Challenged
      BY <2>5 DEF QuietInv, ListingInv
    <3>3. CASE Challenge
      BY <2>2, <2>5, <3>1, <3>2, <3>3 DEF Challenge, Challenged
    <3>4. CASE AnonymousBearer
      <4>1. token' # None
        BY <3>4, NoneIsNoNumber DEF AnonymousBearer, IInv, TypeOK
      <4> QED
        BY <2>2, <3>2, <3>4, <4>1 DEF AnonymousBearer, Challenged
    <3> QED
      BY <1>4, <3>3, <3>4
  <2>6. ListingInv'
    BY <2>2, <2>5 DEF ListingInv, QuietInv
  <2> QED
    BY <2>3, <2>4, <2>6
<1>5. CASE LocalDigest
  <2>1. /\ next'.digest = next.digest /\ next'.localDigest = local
        /\ next'.latestTag = next.latestTag
    BY <1>1, <1>5 DEF LocalDigest, Observation
  <2>2. next.digest = remote[cfg.tag] /\ call = "http" /\ token = None
    BY <1>5 DEF LocalDigest, QuietInv, SeenInv, CallInv
  <2>3. cfg.tag \notin Family => Upgrades = {}
    BY DEF Upgrades
  <2>4. SeenInv'
    BY <1>5, <2>1, <2>2, <2>3 DEF LocalDigest, SeenInv
  <2>5. listed' = {t \in Present : url' = None \/ t < url'}
    <3>1. \A t \in Present : t \in Nat
      BY PresentFinite, TagAssumption
    <3> QED
      BY <1>5, <3>1, NoneIsNoNumber DEF LocalDigest
  <2>6. \E t \in Present : url' <= t
    <3>1. cfg.tag \in Present /\ cfg.tag \in Nat
      BY ConfigTypes, TagAssumption DEF Present, QuietInv, IInv
    <3> QED
      BY <1>5, <3>1 DEF LocalDigest
  <2>7. pages' = Cardinality(listed') + Challenged'
    BY <1>5, <2>2, FS_EmptySet DEF LocalDigest, Challenged
  <2> QED
    BY <1>1, <1>5, <2>4, <2>5, <2>6, <2>7 DEF LocalDigest, ListingInv
<1>6. CASE ListPage
  BY <1>1, <1>6, PageInv DEF ListPage, SeenInv, QuietInv
<1>7. CASE ListEnd
  BY <1>1, <1>7, ListEndInv DEF ListEnd, ListingInv
<1>8. CASE Publish
  <2>1. state' = Observed(next, FALSE) /\ tpc' = "gauge"
    BY <1>8 DEF Publish
  <2>2. /\ state'.ready /\ state'.digest = next.digest
        /\ state'.localDigest = next.localDigest
        /\ state'.latestTag = next.latestTag
        /\ state'.latestDigest = next.latestDigest
    BY <2>1 DEF Observed
  <2>3. Truthful'
    BY <1>8, <2>2 DEF Publish, Truthful, QuietInv, SeenInv, Greatest
  <2> QED
    BY <1>1, <1>8, <2>1, <2>3 DEF Publish, ListingInv, SeenInv
<1>9. CASE EndTick
  BY <1>1, <1>9 DEF EndTick, ListingInv, SeenInv
<1> QED
  BY <1>2, <1>3, <1>4, <1>5, <1>6, <1>7, <1>8, <1>9, QuietCalls DEF Tick

\* A step that is no step of the tick.
LEMMA QuietElsewhere ==
    ASSUME QuietInv, UNCHANGED <<world, local, faults>>,
           UNCHANGED <<state, tick>>, cache' \in {None, cache}
    PROVE  /\ cache' \in {None, epoch} /\ token' \in {None, epoch}
           /\ ListingInv' /\ SeenInv'
<1> USE SameRegistry DEF QuietInv, tick
<1>1. ListingInv'
  BY DEF ListingInv, Challenged
<1>2. Truthful => Truthful'
  BY DEF Truthful, Greatest
<1>3. SeenInv'
  BY <1>2 DEF SeenInv, Greatest
<1> QED
  BY <1>1, <1>3

LEMMA QuietStep ==
    IInv /\ QuietInv /\ [Next]_vars /\ [QuietNext]_vars => QuietInv'
<1> SUFFICES ASSUME IInv, QuietInv, [Next]_vars, [QuietNext]_vars PROVE QuietInv'
  OBVIOUS
<1>1. UNCHANGED <<world, local, faults>>
  BY DEF QuietNext, vars
<1>2. CallInv'
  BY CallStep DEF QuietInv
<1>3. /\ cache' \in {None, epoch} /\ token' \in {None, epoch}
      /\ ListingInv' /\ SeenInv'
  <2>1. CASE Tick
    BY <1>1, <2>1, QuietTickInv
  <2>2. CASE StopPolling
    BY <1>1, <2>2 DEF StopPolling, QuietInv
  <2>3. CASE Environment
    BY <1>1, <2>3, QuietElsewhere DEF Environment, Push, Withdraw, Revoke, Prune,
       Cancel, Expire
  <2>4. CASE (\E g \in Pullers : Pull(g)) \/ StopRefreshing \/ UNCHANGED vars
    BY <1>1, <2>4, QuietElsewhere DEF Pull, StartPull, ImagePull, Drain,
       StopRefreshing, vars
  <2> QED
    BY <2>1, <2>2, <2>3, <2>4 DEF Next
<1> QED
  BY <1>1, <1>2, <1>3, SameRegistry DEF QuietInv

\* In quiet times what a tick ends with is the truth, and no later tick, nor one
\* that is under way, takes it back (poller.go:158-297, registry.go:105-254, 326): the
\* token is resolved once and accepted, the requests reach the last tag, the
\* newest of the family is the one whose digest is asked for, and no branch of
\* an earlier failure is left.  It is why EventuallyTruthful can hold: the ticks
\* that come need only end.
THEOREM QuietTicksAreTruthful ==
    Spec => [](Settled /\ [][QuietNext]_vars => [](tpc = "gauge" => []Truthful))
<1>1. CallInv /\ Settled => QuietInv
  BY DEF Settled, CallInv, QuietInv, ListingInv, SeenInv
<1>2. QuietInv /\ tpc = "gauge" => Truthful
  BY DEF QuietInv, SeenInv
<1>3. IInv /\ QuietInv /\ Truthful /\ [Next]_vars /\ [QuietNext]_vars => Truthful'
  <2> SUFFICES ASSUME IInv, QuietInv, Truthful, [Next]_vars, [QuietNext]_vars
               PROVE  Truthful'
    OBVIOUS
  <2>1. UNCHANGED <<world, local, faults>>
    BY DEF QuietNext, vars
  <2>2. CASE Publish
    <3>1. tpc' = "gauge"
      BY <2>2 DEF Publish
    <3> QED
      BY <3>1, QuietStep DEF QuietInv, SeenInv
  <2>3. CASE UNCHANGED state
    BY <2>1, <2>3, SameRegistry DEF Truthful, Greatest
  <2>4. UNCHANGED state \/ Publish \/ CallFails
    BY DEF Next, Tick, BeginTick, HeadManifest, Challenge, AnonymousBearer,
       LocalDigest, ListPage, ListEnd, EndTick, StopPolling, Environment, Push,
       Withdraw, Revoke, Prune, Cancel, Expire, Pull, StartPull, ImagePull, Drain,
       StopRefreshing, vars
  <2> QED
    BY <2>1, <2>2, <2>3, <2>4, QuietCalls
<1>4. Spec => []CallInv
  BY CallInit, CallStep, Invariant, PTL DEF Spec
<1> QED
  BY <1>1, <1>2, <1>3, <1>4, QuietStep, Invariant, PTL DEF Spec

-----------------------------------------------------------------------------
(* A tick is bounded *)

\* A call without a token, the request for one, the call with it.
CallLeft == IF token # None THEN 0 ELSE IF call = "token" THEN 1 ELSE 2

\* At most this many steps are left of the tick that is under way.
TickLeft ==
    CASE tpc = "head"    -> PageLimit + 10 + CallLeft
      [] tpc = "local"   -> PageLimit + 9
      [] tpc = "list"    -> PageLimit - pages + 6 + CallLeft
      [] tpc = "latest"  -> 3 + CallLeft
      [] tpc = "publish" -> 2
      [] tpc = "gauge"   -> 1
      [] OTHER           -> 0

PagesInv == tpc = "list" => pages <= PageLimit

LEMMA PagesStep == IInv /\ PagesInv /\ [Next]_vars => PagesInv'
<1> SUFFICES ASSUME IInv, PagesInv, [Next]_vars PROVE PagesInv'
  OBVIOUS
<1> USE PageAssumption DEF PagesInv, IInv, TypeOK
<1>1. CASE Tick
  <2>1. CASE BeginTick
    BY <2>1 DEF BeginTick
  <2>2. CASE HeadManifest
    BY <2>2 DEF HeadManifest
  <2>3. CASE Challenge
    BY <2>3 DEF Challenge
  <2>4. CASE AnonymousBearer
    BY <2>4 DEF AnonymousBearer
  <2>5. CASE CallFails
    BY <2>5 DEF CallFails, Failed, recordTotalFailure, recordPartialSuccess
  <2>6. CASE LocalDigest
    BY <2>6 DEF LocalDigest
  <2>7. CASE ListPage
    BY <2>7 DEF ListPage
  <2>8. CASE ListEnd \/ Publish \/ EndTick
    BY <2>8 DEF ListEnd, Publish, EndTick
  <2> QED
    BY <1>1, <2>1, <2>2, <2>3, <2>4, <2>5, <2>6, <2>7, <2>8 DEF Tick
<1>2. CASE StopPolling
  BY <1>2 DEF StopPolling
<1>3. CASE Environment \/ StopRefreshing \/ UNCHANGED vars
  BY <1>3 DEF Environment, Push, Withdraw, Revoke, Prune, Cancel, Expire,
     StopRefreshing, vars, tick
<1>4. ASSUME NEW g \in Pullers, Pull(g) PROVE PagesInv'
  BY <1>4 DEF Pull, StartPull, ImagePull, Drain, tick
<1> QED
  BY <1>1, <1>2, <1>3, <1>4 DEF Next

LEMMA TickFalls ==
    IInv /\ CallInv /\ PagesInv /\ Tick /\ ~BeginTick => TickLeft' < TickLeft
<1> SUFFICES ASSUME IInv, CallInv, PagesInv, Tick, ~BeginTick
             PROVE  TickLeft' < TickLeft
  OBVIOUS
<1> USE PageAssumption DEF TickLeft, CallLeft
<1>0. CallLeft \in 0..2 /\ CallLeft' \in 0..2
  OBVIOUS
<1>1. CASE HeadManifest
  BY <1>0, <1>1 DEF HeadManifest
<1>2. CASE Challenge
  BY <1>2 DEF Challenge, IInv, TypeOK
<1>3. CASE AnonymousBearer
  <2>1. token' # None /\ token = None /\ tpc \in {"head", "list", "latest"}
    BY <1>3, NoneIsNoNumber DEF AnonymousBearer, CallInv, IInv, TypeOK
  <2> QED
    BY <1>3, <2>1 DEF AnonymousBearer, IInv, TypeOK
<1>4. CASE CallFails
  <2>1. CASE tpc = "latest"
    BY <1>0, <1>4, <2>1 DEF CallFails, Failed
  <2>2. CASE tpc \in {"head", "local", "list"}
    <3>1. tpc' = "gauge"
      BY <1>4, <2>2 DEF CallFails, Failed, recordTotalFailure, recordPartialSuccess
    <3>2. tpc = "list" => PageLimit - pages \in Nat
      BY DEF PagesInv, IInv, TypeOK
    <3> QED
      BY <1>0, <2>2, <3>1, <3>2
  <2> QED
    BY <1>4, <2>1, <2>2 DEF CallFails
<1>5. CASE LocalDigest
  BY <1>0, <1>5 DEF LocalDigest
<1>6. CASE ListPage
  BY <1>0, <1>6 DEF ListPage, IInv, TypeOK
<1>7. CASE ListEnd
  BY <1>0, <1>7 DEF ListEnd, PagesInv, IInv, TypeOK
<1>8. CASE Publish
  BY <1>8 DEF Publish
<1>9. CASE EndTick
  <2>1. tpc = "gauge" /\ tpc' \in {"stopped", "idle"}
    BY <1>9 DEF EndTick
  <2> QED
    BY <2>1
<1> QED
  BY <1>1, <1>2, <1>3, <1>4, <1>5, <1>6, <1>7, <1>8, <1>9 DEF Tick

LEMMA TickElsewhere ==
    IInv /\ CallInv /\ [Next]_vars /\ ~Tick => TickLeft' = TickLeft
<1> SUFFICES ASSUME IInv, CallInv, [Next]_vars, ~Tick PROVE TickLeft' = TickLeft
  OBVIOUS
<1>1. CASE UNCHANGED <<tpc, call, token, pages>>
  BY <1>1 DEF TickLeft, CallLeft
<1>2. CASE StopPolling
  BY <1>2 DEF StopPolling, TickLeft
<1>3. CASE Environment \/ StopRefreshing \/ UNCHANGED vars
  BY <1>1, <1>3 DEF Environment, Push, Withdraw, Revoke, Prune, Cancel, Expire,
     StopRefreshing, vars, tick
<1>4. ASSUME NEW g \in Pullers, Pull(g) PROVE TickLeft' = TickLeft
  BY <1>1, <1>4 DEF Pull, StartPull, ImagePull, Drain, tick
<1> QED
  BY <1>2, <1>3, <1>4 DEF Next

\* Every tick is over after as many steps as TickLeft says when it begins,
\* whatever the registry does meanwhile: a challenge is answered once, ListTags
\* asks for no more than its limit of pages, however many tags are pushed, and a
\* failing call ends the tick or its branch (registry.go:105-254).  With steps
\* that are taken, which is the fairness, the loop comes back to its select.
THEOREM TicksAreBounded ==
    Spec => /\ [](TickLeft \in 0 .. PageLimit + 12)
            /\ [][/\ Tick /\ ~BeginTick => TickLeft' < TickLeft
                  /\ ~Tick => TickLeft' = TickLeft]_vars
<1>0. IInv /\ PagesInv => TickLeft \in 0 .. PageLimit + 12
  BY PageAssumption DEF TickLeft, CallLeft, PagesInv, IInv, TypeOK
<1>1. Init => CallInv /\ PagesInv
  BY CallInit DEF Init, PagesInv
<1>2. IInv /\ CallInv /\ PagesInv /\ [Next]_vars =>
        [/\ Tick /\ ~BeginTick => TickLeft' < TickLeft
         /\ ~Tick => TickLeft' = TickLeft]_vars
  BY TickFalls, TickElsewhere
<1> QED
  BY <1>0, <1>1, <1>2, CallStep, PagesStep, Invariant, PTL DEF Spec
===============================================================================
