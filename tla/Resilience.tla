------------------------------ MODULE Resilience ------------------------------
(***************************************************************************)
(* The resilience manager, src/internal/resilience/resilience.go: the      *)
(* circuit breaker, the per-project backoff, the manual bypass and the     *)
(* webhook replay queue.  Every exported method holds the manager's mutex  *)
(* from its first line to its last, so each is one step here; what callers *)
(* do between two calls is the subject of the modules that extend this     *)
(* one.                                                                    *)
(*                                                                         *)
(* Time is a counter; 0 is Go's zero time.  The slice of rapid failures is *)
(* a window on everything ever appended to it: the code only appends to    *)
(* the slice and cuts off its head.                                        *)
(***************************************************************************)
EXTENDS Integers, FiniteSets, Sequences

CONSTANTS
    Projects,            \* the projects the manager is asked about
    Sources,             \* the sources callers pass to AllowDispatch
    RapidFailWindow,     \* Config.RapidFailWindow, in ticks of the clock
    RapidFailThreshold,  \* Config.RapidFailThreshold
    BackoffBase,         \* Config.BackoffBase, in ticks
    BackoffMax,          \* Config.BackoffMax, in ticks
    ReplayQueueCap,      \* Config.ReplayQueueCap
    MaxNow,              \* bound: the last instant of the clock
    MaxFailures,         \* bound: reports of a failed run
    MaxMarks             \* bound: requests to bypass the gate

\* withDefaults replaces every value that is not positive.
ASSUME ConfigAssumption ==
    /\ RapidFailWindow \in Nat \ {0} /\ RapidFailThreshold \in Nat \ {0}
    /\ BackoffBase \in Nat \ {0} /\ BackoffMax \in Nat \ {0}
    /\ ReplayQueueCap \in Nat \ {0}
ASSUME ClockAssumption ==
    /\ MaxNow \in Nat \ {0} /\ MaxFailures \in Nat /\ MaxMarks \in Nat
ASSUME ProjectsAssumption == IsFiniteSet(Projects)

VARIABLES
    now,            \* the clock
    state,          \* the breaker: "closed" or "open"
    openSince,      \* when it tripped, 0 when closed
    log,            \* the instant of every rapid failure ever reported
    dropped,        \* rapidFails is log without its first entries
    failures,       \* consecutiveFailures of each project
    nextAllowed,    \* nextAllowedAt of each project
    lastReport,     \* lastReportAt of each project
    manual,         \* the projects with manualPending
    pendingReplay,  \* the replay queue, a set
    cleared,        \* history: how much of log Reset has seen
    overrides,      \* history: dispatches the bypass let through the gate
    marks,          \* history: calls of MarkManual for each project
    failed          \* how much of MaxFailures is used

window  == <<log, dropped, cleared>>
breaker == <<state, openSince>>
backoff == <<failures, nextAllowed, lastReport>>
bypass  == <<manual, overrides, marks>>
manager == <<now, breaker, window, backoff, bypass, pendingReplay, failed>>

-----------------------------------------------------------------------------
(* Report *)

\* base * 2^(n-1), capped.
Raw(n) == LET r == BackoffBase * 2^(n - 1) IN
          IF r > BackoffMax THEN BackoffMax ELSE r

\* Mutant: the cap is dropped.
UncappedBackoff(n) ==
    {d \in 0 .. 4 * BackoffMax :
        LET raw == BackoffBase * 2^(n - 1)
        IN  10 * (d + 1) > 8 * raw /\ 10 * d < 12 * raw}
\* computeBackoff: Raw times a random factor in [0.8, 1.2), truncated.
Backoff(n) ==
    {d \in 0 .. 2 * BackoffMax :
        \E raw \in 1 .. BackoffMax :
            raw = Raw(n) /\ 10 * (d + 1) > 8 * raw /\ 10 * d < 12 * raw}

\* trimWindow: k entries are dropped in all when the head that is cut off is
\* the longest one that is older than the window.
Trimmed(entries, from, k) ==
    /\ k \in from .. Len(entries)
    /\ \A i \in from + 1 .. k : entries[i] < now - RapidFailWindow
    /\ k < Len(entries) => entries[k + 1] >= now - RapidFailWindow

\* maybeTrip, after the window was trimmed.
MaybeTrip ==
    IF state = "closed" /\ Len(log') - dropped' >= RapidFailThreshold
      THEN state' = "open" /\ openSince' = now
      ELSE UNCHANGED breaker

Failed(p) ==
    /\ failed < MaxFailures /\ failed' = failed + 1
    /\ failures' = [failures EXCEPT ![p] = @ + 1]
    /\ \E d \in Backoff(failures[p] + 1) :
          nextAllowed' = [nextAllowed EXCEPT ![p] = now + d]

Succeeded(p) ==
    /\ failures' = [failures EXCEPT ![p] = 0]
    /\ nextAllowed' = [nextAllowed EXCEPT ![p] = 0]
    /\ UNCHANGED <<window, breaker, failed>>

\* Only rapid failures feed the window and the breaker.
RapidFail(p) ==
    /\ Failed(p)
    /\ log' = Append(log, now)
    /\ \E k \in 0 .. Len(log') : Trimmed(log', dropped, k) /\ dropped' = k
    /\ MaybeTrip
    /\ UNCHANGED cleared

SlowFail(p) == Failed(p) /\ UNCHANGED <<window, breaker>>

Report(p) ==
    /\ lastReport' = [lastReport EXCEPT ![p] = now]
    /\ Succeeded(p) \/ RapidFail(p) \/ SlowFail(p)
    /\ UNCHANGED <<now, bypass, pendingReplay>>

-----------------------------------------------------------------------------
(* The gate *)

BackingOff(p) == nextAllowed[p] # 0 /\ now < nextAllowed[p]
Gated(p, source) == (source # "manual" /\ state = "open") \/ BackingOff(p)
Denies(p, source) == p \notin manual /\ Gated(p, source)

\* Mutant: the flag is not consumed.
AllowAndKeepFlag(p, source) ==
    /\ ~Denies(p, source)
    /\ overrides' = IF Gated(p, source)
                      THEN [overrides EXCEPT ![p] = @ + 1] ELSE overrides
    /\ pendingReplay' = pendingReplay \ {p}
    /\ UNCHANGED <<now, breaker, window, backoff, manual, marks, failed>>
\* Mutant: the project stays in the replay queue.
AllowAndKeepEntry(p, source) ==
    /\ ~Denies(p, source)
    /\ manual' = manual \ {p}
    /\ overrides' = IF Gated(p, source)
                      THEN [overrides EXCEPT ![p] = @ + 1] ELSE overrides
    /\ UNCHANGED <<now, breaker, window, backoff, marks, pendingReplay, failed>>
\* AllowDispatch answers yes: a bypass flag is used up, needed or not, and the
\* project leaves the replay queue.  When it answers no it changes nothing.
Allow(p, source) ==
    /\ ~Denies(p, source)
    /\ manual' = manual \ {p}
    /\ overrides' = IF Gated(p, source)
                      THEN [overrides EXCEPT ![p] = @ + 1] ELSE overrides
    /\ pendingReplay' = pendingReplay \ {p}
    /\ UNCHANGED <<now, breaker, window, backoff, marks, failed>>

MarkManual(p) ==
    /\ marks[p] < MaxMarks
    /\ manual' = manual \cup {p}
    /\ marks' = [marks EXCEPT ![p] = @ + 1]
    /\ UNCHANGED <<now, breaker, window, backoff, overrides, pendingReplay,
                   failed>>

QueueFull(p) ==
    p \notin pendingReplay /\ Cardinality(pendingReplay) >= ReplayQueueCap

\* EnqueueWebhookReplay, when it does not return ErrReplayQueueFull.
Enqueue(p) ==
    /\ ~QueueFull(p)
    /\ pendingReplay' = pendingReplay \cup {p}
    /\ UNCHANGED <<now, breaker, window, backoff, bypass, failed>>

\* Mutant: the breaker closes and the slice of rapid failures survives.
ResetKeepsWindow ==
    /\ state' = "closed" /\ openSince' = 0
    /\ cleared' = Len(log)
    /\ failures' = [p \in Projects |-> 0]
    /\ nextAllowed' = [p \in Projects |-> 0]
    /\ lastReport' = [p \in Projects |-> 0]
    /\ manual' = {} /\ pendingReplay' = {}
    /\ UNCHANGED <<now, log, dropped, overrides, marks, failed>>
\* Reset: the map of projects is replaced, and with it every backoff and every
\* bypass flag.  The summary it returns holds pendingReplay.
Reset ==
    /\ state' = "closed" /\ openSince' = 0
    /\ dropped' = Len(log) /\ cleared' = Len(log)
    /\ failures' = [p \in Projects |-> 0]
    /\ nextAllowed' = [p \in Projects |-> 0]
    /\ lastReport' = [p \in Projects |-> 0]
    /\ manual' = {} /\ pendingReplay' = {}
    /\ UNCHANGED <<now, log, overrides, marks, failed>>

\* Snapshot reads under the mutex, but for rapidFailCount, which trims.
Snapshot ==
    /\ \E k \in 0 .. Len(log) : Trimmed(log, dropped, k) /\ dropped' = k
    /\ UNCHANGED <<now, breaker, log, cleared, backoff, bypass, pendingReplay,
                   failed>>

Tick ==
    /\ now < MaxNow
    /\ now' = now + 1
    /\ UNCHANGED <<breaker, window, backoff, bypass, pendingReplay, failed>>

\* New, at the first instant.
Init ==
    /\ now = 1
    /\ state = "closed" /\ openSince = 0
    /\ log = <<>> /\ dropped = 0 /\ cleared = 0
    /\ failures = [p \in Projects |-> 0]
    /\ nextAllowed = [p \in Projects |-> 0]
    /\ lastReport = [p \in Projects |-> 0]
    /\ manual = {} /\ pendingReplay = {}
    /\ overrides = [p \in Projects |-> 0] /\ marks = [p \in Projects |-> 0]
    /\ failed = 0

Next ==
    \/ \E p \in Projects :
          \/ Report(p) \/ MarkManual(p) \/ Enqueue(p)
          \/ \E s \in Sources : Allow(p, s)
    \/ Reset \/ Snapshot \/ Tick

\* The manager's promise to its callers: from New on, its state changes by
\* these calls and by nothing else (resilience.go:139-140).
Spec == Init /\ [][Next]_manager

-----------------------------------------------------------------------------
(* Properties *)

TypeOK ==
    /\ now \in Nat \ {0}
    /\ state \in {"closed", "open"} /\ openSince \in Nat
    /\ log \in Seq(Nat \ {0}) /\ dropped \in Nat /\ cleared \in Nat
    /\ failures \in [Projects -> Nat]
    /\ nextAllowed \in [Projects -> Nat]
    /\ lastReport \in [Projects -> Nat]
    /\ manual \subseteq Projects /\ pendingReplay \subseteq Projects
    /\ overrides \in [Projects -> Nat] /\ marks \in [Projects -> Nat]
    /\ failed \in Nat

\* The rapid failures since the last Reset that lie in the window ending now.
Recent(entries, seen) ==
    {i \in seen + 1 .. Len(entries) : entries[i] >= now - RapidFailWindow}

\* The breaker trips on exactly the rapid failure that makes it Threshold of
\* them within one window since the last Reset, however the slice was trimmed
\* before by other reports and by Snapshot; nothing else trips it.
TripExact ==
    [][state = "closed" =>
        (state' = "open" <=>
            /\ Len(log') > Len(log)
            /\ Cardinality(Recent(log', cleared)) >= RapidFailThreshold)]_manager

\* A project waits only because of a failure it reported since its last success
\* and the last Reset, and never longer after it than 1.2 times BackoffMax
\* (resilience_test.go:150-152), however many failures there have been.
BackoffBounded ==
    \A p \in Projects :
        /\ nextAllowed[p] # 0 <=> failures[p] > 0
        /\ lastReport[p] <= now
        /\ failures[p] > 0 => 10 * (nextAllowed[p] - lastReport[p]) < 12 * BackoffMax

\* The bypass is single-shot (README.md:245): the dispatches it has let through
\* a closed gate, and the one it may still let through, were each asked for.
BypassSingleShot ==
    \A p \in Projects :
        overrides[p] + (IF p \in manual THEN 1 ELSE 0) <= marks[p]
=============================================================================
