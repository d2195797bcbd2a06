------------------------------ MODULE ImagePoller ------------------------------
(***************************************************************************)
(* The image-update poller, src/internal/imageupdate, with the supervised  *)
(* loops that drive it and the image refresher (src/internal/supervise,    *)
(* src/cmd/main.go) and the pulls that change the local image under it     *)
(* (src/internal/executor/refresher.go, pullImage).                        *)
(*                                                                         *)
(* One Tick makes up to three kinds of registry call and one daemon call;  *)
(* each is a step, so that the registry, the token realm, the local image  *)
(* and the shutdown can change between any two of them.                    *)
(*                                                                         *)
(* Tags are numbers.  Those in Family carry a version of the configured    *)
(* suffix family, ordered as their versions are; the others ("latest",     *)
(* other suffixes) do not parse or are of another family.  A digest is the *)
(* tag it was pushed under with the number of the push.                    *)
(***************************************************************************)
EXTENDS Integers, FiniteSets

CONSTANTS
    Tags,        \* the tags of the repository
    Family,      \* the tags parseSemverPrefix gives the configured suffix
    Configs,     \* the configurations an operator may be started with
    Pullers,     \* the goroutines that pull the image
    Refresher,   \* the one of them that RefreshImage's loop is
    None,        \* "", or a value not there
    PageLimit,   \* ListTags stops after that many requests: 100
    MaxPushes,   \* bound: pushes to the registry
    MaxRevokes,  \* bound: times the realm's tokens become invalid
    MaxFaults    \* bound: failing calls and withdrawn or pruned images

ASSUME TagAssumption ==
    Tags \subseteq Nat /\ IsFiniteSet(Tags) /\ Family \subseteq Tags
ASSUME ConfigAssumption ==
    Configs \subseteq [enabled : BOOLEAN, once : BOOLEAN, refresh : BOOLEAN,
                       guarded : BOOLEAN, tag : Tags,
                       policy : {"always", "if-not-present", "never"}]
ASSUME PullerAssumption == Refresher \in Pullers
ASSUME NoneAssumption == None \notin Nat \cup BOOLEAN \cup (Tags \X Nat)
ASSUME PageAssumption == PageLimit \in Nat \ {0}
ASSUME BoundAssumption ==
    MaxPushes \in Nat /\ MaxRevokes \in Nat /\ MaxFaults \in Nat

VARIABLES
    cfg,         \* the configuration of this process
    cancelled,   \* main has cancelled the context of the loops
    remote,      \* the registry: the digest of each tag
    local,       \* the daemon: the digest of the configured image
    epoch,       \* the realm: the token it hands out and accepts
    cache,       \* AnonymousAuth.cache: the unexpired token
    state,       \* Poller.state
    gauge,       \* renovate_operator_image_update_available
    tpc, call, token, next, url, listed, pages,   \* Tick's locals
    ppc, pdigest,                                  \* the pullers' locals
    pushes, faults                                 \* how much of a bound is used

world   == <<cfg, cancelled, remote, epoch, pushes>>
tick    == <<tpc, call, token, next, url, listed, pages>>
pull    == <<ppc, pdigest>>
vars    == <<world, local, cache, state, gauge, tick, pull, faults>>

Fault   == faults < MaxFaults /\ faults' = faults + 1
Digests == Tags \X Nat
Present == {t \in Tags : remote[t] # None}
After(t) == {u \in Present : t < u}
Least(t, S) == t \in S /\ \A u \in S : t <= u
Greatest(t, S) == t \in S /\ \A u \in S : u <= t

Observation == [digest : Digests \cup {None}, localDigest : Digests \cup {None},
                latestTag : Tags \cup {None}, latestDigest : Digests \cup {None}]

-----------------------------------------------------------------------------
(* The registry, its token realm and the daemon *)

\* A push creates the tag or moves it.
Push(t) ==
    /\ pushes < MaxPushes
    /\ pushes' = pushes + 1
    /\ remote' = [remote EXCEPT ![t] = <<t, pushes + 1>>]
    /\ UNCHANGED <<cfg, cancelled, epoch, local, cache, state, gauge, tick,
                   pull, faults>>

Withdraw(t) ==
    /\ remote[t] # None /\ Fault
    /\ remote' = [remote EXCEPT ![t] = None]
    /\ UNCHANGED <<cfg, cancelled, epoch, pushes, local, cache, state, gauge,
                   tick, pull>>

\* Tokens handed out so far are refused from now on.
Revoke ==
    /\ cfg.guarded /\ epoch <= MaxRevokes
    /\ epoch' = epoch + 1
    /\ UNCHANGED <<cfg, cancelled, remote, pushes, local, cache, state, gauge,
                   tick, pull, faults>>

\* The image is removed from the host.
Prune ==
    /\ local # None /\ Fault
    /\ local' = None
    /\ UNCHANGED <<world, cache, state, gauge, tick, pull>>

\* ctxCancel: every call on the context fails from now on.
Cancel ==
    /\ ~cancelled
    /\ cancelled' = TRUE
    /\ UNCHANGED <<cfg, remote, epoch, pushes, local, cache, state, gauge,
                   tick, pull, faults>>

\* tokenCacheTTL passes: the entry is not used any more.
Expire ==
    /\ cache # None
    /\ cache' = None
    /\ UNCHANGED <<world, local, state, gauge, tick, pull, faults>>

-----------------------------------------------------------------------------
(* What a tick publishes *)

Derived(o) ==
    \/ o.latestTag # None
    \/ /\ o.localDigest # None /\ o.digest # None
       /\ o.localDigest # o.digest

\* The Status a tick installs that got as far as the registry's digest.
Observed(o, failed) ==
    [ready |-> TRUE, lastError |-> failed, updateAvailable |-> Derived(o),
     digest |-> o.digest, localDigest |-> o.localDigest,
     latestTag |-> o.latestTag, latestDigest |-> o.latestDigest]

\* Snapshot, taken when the tick begins.
Snapshot == [digest |-> state.digest, localDigest |-> state.localDigest,
             latestTag |-> state.latestTag, latestDigest |-> state.latestDigest]

\* The branches the failing tick did not reach keep what was known.
WithPrior(o) ==
    IF o.latestTag = None /\ state.latestTag # None
      THEN [o EXCEPT !.latestTag = state.latestTag,
                     !.latestDigest = state.latestDigest]
      ELSE o

\* Mutant: the failure flips Ready.
ReadyOnFailure == [state EXCEPT !.lastError = TRUE, !.ready = TRUE]
TotalFailure == [state EXCEPT !.lastError = TRUE]

recordTotalFailure   == state' = TotalFailure /\ tpc' = "gauge"
recordPartialSuccess == state' = Observed(WithPrior(next), TRUE) /\ tpc' = "gauge"

\* What a failing call does to the tick: no digest, no tick; no local digest or
\* list, a partial one; the digest of the newest tag is not needed.
Failed ==
    \/ tpc = "head" /\ recordTotalFailure
    \/ tpc \in {"local", "list"} /\ recordPartialSuccess
    \/ tpc = "latest" /\ tpc' = "publish" /\ UNCHANGED state

\* Mutant: the calls are not given the context.
NoContext == Fault
\* A call fails because its context is cancelled, or for a reason of its own.
Breaks == IF cancelled THEN UNCHANGED faults ELSE Fault

-----------------------------------------------------------------------------
(* One Tick *)

\* supervise.Loop: one tick at once, then one whenever the ticker fires.
BeginTick ==
    /\ tpc \in {"start", "idle"}
    /\ next' = Snapshot
    /\ tpc' = "head" /\ call' = "http"
    /\ UNCHANGED <<world, local, cache, state, gauge, token, url, listed,
                   pages, pull, faults>>

Accepted == cfg.guarded => token = epoch
HeadTag  == IF tpc = "head" THEN cfg.tag ELSE next.latestTag

\* HeadManifest answers with the digest the tag has now.
HeadManifest ==
    /\ tpc \in {"head", "latest"} /\ call = "http"
    /\ ~cancelled /\ Accepted /\ remote[HeadTag] # None
    /\ IF tpc = "head"
         THEN next' = [next EXCEPT !.digest = remote[HeadTag]] /\ tpc' = "local"
         ELSE next' = [next EXCEPT !.latestDigest = remote[HeadTag]]
              /\ tpc' = "publish"
    /\ token' = None
    /\ UNCHANGED <<world, local, cache, state, gauge, call, url, listed, pages,
                   pull, faults>>

\* 401 with a challenge: the token is resolved once and the call repeated.  In
\* ListTags the repetition uses up one of the requests.
Challenge ==
    /\ tpc \in {"head", "list", "latest"} /\ call = "http"
    /\ tpc = "list" => url # None /\ pages < PageLimit
    /\ ~cancelled /\ cfg.guarded /\ token = None
    /\ call' = "token"
    /\ pages' = IF tpc = "list" THEN pages + 1 ELSE pages
    /\ UNCHANGED <<world, local, cache, state, gauge, tpc, token, next, url,
                   listed, pull, faults>>

\* AnonymousBearer: the cached token, or a new one, which is then cached.
AnonymousBearer ==
    /\ call = "token" /\ (cache = None => ~cancelled)
    /\ token' = IF cache = None THEN epoch ELSE cache
    /\ cache' = token'
    /\ call' = "http"
    /\ UNCHANGED <<world, local, state, gauge, tpc, next, url, listed, pages,
                   pull, faults>>

\* Any other answer, the second 401 included, or none.
CallFails ==
    /\ tpc \in {"head", "local", "list", "latest"}
    /\ tpc = "list" /\ call = "http" => url # None /\ pages < PageLimit
    /\ \/ call = "token" /\ cache # None /\ Fault
       \/ call = "token" /\ cache = None /\ Breaks
       \/ call = "http" /\ Breaks
       \/ /\ tpc # "local" /\ call = "http"
          /\ \/ cfg.guarded /\ token \notin {None, epoch}
             \/ tpc # "list" /\ Accepted /\ remote[HeadTag] = None
          /\ UNCHANGED faults
    /\ Failed
    /\ call' = "http" /\ token' = None
    /\ UNCHANGED <<world, local, cache, gauge, next, url, listed, pages, pull>>

\* LocalDigest; an image not pulled yet has none.  Only a version can be old.
LocalDigest ==
    /\ tpc = "local" /\ ~cancelled
    /\ next' = [next EXCEPT !.localDigest = local]
    /\ tpc' = IF cfg.tag \in Family THEN "list" ELSE "publish"
    /\ url' = 0 /\ listed' = {} /\ pages' = 0
    /\ UNCHANGED <<world, local, cache, state, gauge, call, token, pull, faults>>

\* getTagsPage: the tags from url on, one to a page, and the link to the rest.
ListPage ==
    /\ tpc = "list" /\ call = "http" /\ url # None /\ pages < PageLimit
    /\ ~cancelled /\ Accepted
    /\ LET page == {t \in Present : url <= t}
       IN \/ page = {} /\ url' = None /\ UNCHANGED listed
          \/ \E t \in Tags : /\ Least(t, page)
                             /\ listed' = listed \cup {t}
                             /\ url' = IF After(t) = {} THEN None ELSE t + 1
    /\ pages' = pages + 1
    /\ UNCHANGED <<world, local, cache, state, gauge, tpc, call, token, next,
                   pull, faults>>

\* Mutants: only the first update is looked for; other families count.
FirstOnly == IF state.latestTag = None
               THEN {t \in listed \cap Family : cfg.tag < t} ELSE {}
AnyFamily == {t \in listed : cfg.tag < t}
\* LatestSemverTag looks at the family alone, and only a newer one is reported.
Newer == {t \in listed \cap Family : cfg.tag < t}

\* ListTags is through, or has made its last request.
ListEnd ==
    /\ tpc = "list" /\ call = "http" /\ (url = None \/ pages = PageLimit)
    /\ \/ Newer = {} /\ tpc' = "publish" /\ UNCHANGED next
       \/ \E t \in Tags : /\ Greatest(t, Newer)
                          /\ tpc' = "latest"
                          /\ next' = [next EXCEPT !.latestTag = t]
    /\ token' = None
    /\ UNCHANGED <<world, local, cache, state, gauge, call, url, listed, pages,
                   pull, faults>>

Publish ==
    /\ tpc = "publish"
    /\ state' = Observed(next, FALSE)
    /\ tpc' = "gauge"
    /\ UNCHANGED <<world, local, cache, gauge, call, token, next, url, listed,
                   pages, pull, faults>>

\* Mutant: the gauge is only set by a tick without an error.
GaugeOnSuccess == IF state.lastError THEN gauge ELSE state.updateAvailable
GaugeValue == state.updateAvailable

\* pollTick sets the gauge from a second Snapshot, whatever Tick returned.
EndTick ==
    /\ tpc = "gauge"
    /\ gauge' = GaugeValue
    /\ tpc' = IF cfg.once THEN "stopped" ELSE "idle"
    /\ next' = Snapshot /\ url' = None /\ listed' = {} /\ pages' = 0
    /\ UNCHANGED <<world, local, cache, state, call, token, pull, faults>>

\* Loop's select sees the cancelled context.
StopPolling ==
    /\ tpc = "idle" /\ cancelled
    /\ tpc' = "stopped"
    /\ UNCHANGED <<world, local, cache, state, gauge, call, token, next, url,
                   listed, pages, pull, faults>>

-----------------------------------------------------------------------------
(* RefreshImage's loop, and pullImage before a container is created *)

\* The refresher pulls whatever is there; pullImage goes by the policy, and with
\* if-not-present pulls an image that is missing or that it fails to inspect.
StartPull(g) ==
    /\ ppc[g] = "idle"
    /\ \/ g = Refresher /\ ~cancelled /\ UNCHANGED faults
       \/ g # Refresher /\ cfg.policy = "always" /\ UNCHANGED faults
       \/ /\ g # Refresher /\ cfg.policy = "if-not-present"
          /\ IF local = None THEN UNCHANGED faults ELSE Breaks
    /\ ppc' = [ppc EXCEPT ![g] = "pull"]
    /\ UNCHANGED <<world, local, cache, state, gauge, tick, pdigest>>

\* The daemon asks the registry which manifest to fetch.
ImagePull(g) ==
    /\ ppc[g] = "pull"
    /\ \/ /\ ~cancelled /\ remote[cfg.tag] # None /\ UNCHANGED faults
          /\ ppc' = [ppc EXCEPT ![g] = "drain"]
          /\ pdigest' = [pdigest EXCEPT ![g] = remote[cfg.tag]]
       \/ /\ IF remote[cfg.tag] = None THEN UNCHANGED faults ELSE Breaks
          /\ ppc' = [ppc EXCEPT ![g] = "idle"] /\ UNCHANGED pdigest
    /\ UNCHANGED <<world, local, cache, state, gauge, tick>>

\* The stream is read to its end, or breaks before or after the image is there.
Drain(g) ==
    /\ ppc[g] = "drain"
    /\ \/ ~cancelled /\ local' = pdigest[g] /\ UNCHANGED faults
       \/ local' \in {local, pdigest[g]} /\ Breaks
    /\ ppc' = [ppc EXCEPT ![g] = "idle"]
    /\ pdigest' = [pdigest EXCEPT ![g] = None]
    /\ UNCHANGED <<world, cache, state, gauge, tick>>

StopRefreshing ==
    /\ ppc[Refresher] = "idle" /\ cancelled
    /\ ppc' = [ppc EXCEPT ![Refresher] = "stopped"]
    /\ UNCHANGED <<world, local, cache, state, gauge, tick, pdigest, faults>>

-----------------------------------------------------------------------------
\* New, MarkDisabled and the loops main starts; the host and the registry are
\* as earlier processes left them.
Init ==
    /\ cfg \in Configs
    /\ cancelled = FALSE
    /\ remote \in {[t \in Tags |-> IF t \in S THEN <<t, 0>> ELSE None] :
                     S \in SUBSET Tags}
    /\ local \in {None, <<cfg.tag, 0>>}
    /\ epoch = 1 /\ cache = None
    /\ state = [ready |-> ~cfg.enabled, lastError |-> FALSE,
                updateAvailable |-> FALSE, digest |-> None, localDigest |-> None,
                latestTag |-> None, latestDigest |-> None]
    /\ gauge = None
    /\ tpc = IF cfg.enabled THEN "start" ELSE "stopped"
    /\ call = "http" /\ token = None /\ url = None /\ listed = {} /\ pages = 0
    /\ next = Snapshot
    /\ ppc = [g \in Pullers |->
                IF g = Refresher /\ ~cfg.refresh THEN "stopped" ELSE "idle"]
    /\ pdigest = [g \in Pullers |-> None]
    /\ pushes = 0 /\ faults = 0

Tick ==
    \/ BeginTick \/ HeadManifest \/ Challenge \/ AnonymousBearer \/ CallFails
    \/ LocalDigest \/ ListPage \/ ListEnd \/ Publish \/ EndTick

Pull(g) == StartPull(g) \/ ImagePull(g) \/ Drain(g)

Environment ==
    \/ \E t \in Tags : Push(t) \/ Withdraw(t)
    \/ Revoke \/ Prune \/ Cancel \/ Expire

Next ==
    \/ Environment
    \/ Tick \/ StopPolling
    \/ \E g \in Pullers : Pull(g)
    \/ StopRefreshing

Spec == Init /\ [][Next]_vars

\* Calls return, each under a timeout; tickers fire; cached tokens expire; and
\* Go's select, which takes any of the cases that are ready, does not pass the
\* cancelled context over for ever.
Fairness ==
    /\ WF_vars(Tick) /\ SF_vars(StopPolling)
    /\ WF_vars(Expire)
    /\ WF_vars(Pull(Refresher)) /\ SF_vars(StopRefreshing)

FairSpec == Spec /\ Fairness

-----------------------------------------------------------------------------
(* Properties *)

Status == [ready : BOOLEAN, lastError : BOOLEAN, updateAvailable : BOOLEAN,
           digest : Digests \cup {None}, localDigest : Digests \cup {None},
           latestTag : Tags \cup {None}, latestDigest : Digests \cup {None}]

TypeOK ==
    /\ cfg \in Configs /\ cancelled \in BOOLEAN
    /\ remote \in [Tags -> Digests \cup {None}]
    /\ local \in Digests \cup {None}
    /\ epoch \in Nat /\ cache \in Nat \cup {None}
    /\ state \in Status /\ gauge \in BOOLEAN \cup {None}
    /\ tpc \in {"start", "idle", "head", "local", "list", "latest", "publish",
                "gauge", "stopped"}
    /\ call \in {"http", "token"} /\ token \in Nat \cup {None}
    /\ next \in Observation
    /\ url \in Nat \cup {None} /\ listed \subseteq Tags /\ pages \in Nat
    /\ ppc \in [Pullers -> {"idle", "pull", "drain", "stopped"}]
    /\ pdigest \in [Pullers -> Digests \cup {None}]
    /\ pushes \in Nat /\ faults \in Nat

\* Whichever way the ticks ended, the flag the UI shows says what the fields
\* next to it say, and the metric repeats it between ticks (poller.go:217, 280;
\* main.go:181-189): a tick that fails half way must not leave one behind.
UpdateConsistent ==
    /\ state.updateAvailable <=> Derived(state)
    /\ (tpc = "idle" => gauge = state.updateAvailable)

\* Ready says that the registry has been seen, however many ticks have failed
\* since or before (poller.go:251), and a later tick only adds: no sequence of
\* failures takes a digest or a newer tag away again.
LastKnownGoodKept ==
    [][/\ (state.ready => state'.ready)
       /\ (state.digest # None => state'.digest # None)
       /\ (state.latestTag # None => state'.latestTag # None)
       /\ (state'.ready /\ cfg.enabled => state'.digest # None)]_vars

\* A tag that is offered as an update is one the registry has carried, of the
\* family of the configured tag and newer than it; tags that were listed while
\* others came and went included.
OfferIsUpgrade ==
    state.latestTag # None =>
        /\ cfg.tag \in Family /\ state.latestTag \in Family
        /\ cfg.tag < state.latestTag

\* What the registry would say now to a poller that sees all of it.
Upgrades == {t \in Present \cap Family : cfg.tag \in Family /\ cfg.tag < t}
ListComplete == Cardinality(Present) + 1 <= PageLimit

Truthful ==
    /\ state.ready /\ state.digest = remote[cfg.tag] /\ state.localDigest = local
    /\ (Upgrades # {} /\ ListComplete) =>
           /\ Greatest(state.latestTag, Upgrades)
           /\ state.latestDigest = remote[state.latestTag]

\* Once registry, host and network stay as they are, a recurring poller comes to
\* show what is there and goes on showing it: revoked tokens in its cache,
\* digests read before a push or a pull, and ticks that ended half way are all
\* made good by later ticks.
EventuallyTruthful ==
    <>[](cancelled \/ ~cfg.enabled \/ cfg.once \/ remote[cfg.tag] = None \/ Truthful)

\* Once the context is cancelled both loops end, in the middle of a tick or not.
LoopsStop == cancelled ~> (tpc = "stopped" /\ ppc[Refresher] = "stopped")
=============================================================================
