--------------------------- MODULE ResilienceProofs ---------------------------
(***************************************************************************)
(* What the resilience manager guarantees for every configuration.  The    *)
(* breaker's precision rests on WindowInv: the slice of rapid failures is  *)
(* a sorted window on all that was reported, and what has been cut off     *)
(* since the last Reset is older than the window.                          *)
(***************************************************************************)
EXTENDS Resilience, FiniteSetTheorems, TLAPS

WindowInv ==
    /\ cleared <= dropped /\ dropped <= Len(log)
    /\ \A i \in 1 .. Len(log) : log[i] <= now
    /\ \A i, j \in 1 .. Len(log) : i <= j => log[i] <= log[j]
    /\ \A i \in cleared + 1 .. dropped : log[i] < now - RapidFailWindow

\* The backoff after any number of failures is shorter than 1.2 BackoffMax.
LEMMA BackoffShort ==
    ASSUME NEW n, NEW d \in Backoff(n)
    PROVE  d \in Nat /\ 10 * d < 12 * BackoffMax
  BY ConfigAssumption, SMT DEF Backoff

LEMMA FailedTypes ==
    ASSUME TypeOK, NEW p \in Projects, Failed(p)
    PROVE  /\ failures' \in [Projects -> Nat]
           /\ nextAllowed' \in [Projects -> Nat]
           /\ failed' \in Nat
<1>1. PICK d \in Backoff(failures[p] + 1) :
          nextAllowed' = [nextAllowed EXCEPT ![p] = now + d]
  BY DEF Failed
<1>2. d \in Nat
  BY <1>1, BackoffShort
<1> QED
  BY <1>1, <1>2 DEF Failed, TypeOK

LEMMA InitTypes == Init => TypeOK
  BY DEF Init, TypeOK

LEMMA NextTypes == TypeOK /\ [Next]_manager => TypeOK'
<1> SUFFICES ASSUME TypeOK, [Next]_manager PROVE TypeOK'
  OBVIOUS
<1> USE DEF TypeOK
<1>1. ASSUME NEW p \in Projects, Report(p) PROVE TypeOK'
  <2> USE DEF window, breaker, bypass
  <2>0. /\ now' \in Nat \ {0} /\ lastReport' \in [Projects -> Nat]
        /\ manual' \subseteq Projects /\ pendingReplay' \subseteq Projects
        /\ overrides' \in [Projects -> Nat] /\ marks' \in [Projects -> Nat]
    BY <1>1 DEF Report
  <2>1. CASE Succeeded(p)
    BY <2>0, <2>1 DEF Succeeded
  <2>2. CASE RapidFail(p)
    <3>1. /\ failures' \in [Projects -> Nat]
          /\ nextAllowed' \in [Projects -> Nat]
          /\ failed' \in Nat
      BY <2>2, FailedTypes DEF RapidFail
    <3>2. log' \in Seq(Nat \ {0}) /\ dropped' \in Nat /\ cleared' \in Nat
      BY <2>2 DEF RapidFail
    <3>3. state' \in {"closed", "open"} /\ openSince' \in Nat
      BY <2>2 DEF RapidFail, MaybeTrip
    <3> QED
      BY <2>0, <3>1, <3>2, <3>3
  <2>3. CASE SlowFail(p)
    <3>1. /\ failures' \in [Projects -> Nat]
          /\ nextAllowed' \in [Projects -> Nat]
          /\ failed' \in Nat
      BY <2>3, FailedTypes DEF SlowFail
    <3> QED
      BY <2>0, <2>3, <3>1 DEF SlowFail
  <2> QED
    BY <1>1, <2>1, <2>2, <2>3 DEF Report
<1>2. ASSUME NEW p \in Projects, MarkManual(p) PROVE TypeOK'
  BY <1>2 DEF MarkManual, window, breaker, backoff
<1>3. ASSUME NEW p \in Projects, Enqueue(p) PROVE TypeOK'
  BY <1>3 DEF Enqueue, window, breaker, backoff, bypass
<1>4. ASSUME NEW p \in Projects, NEW s \in Sources, Allow(p, s) PROVE TypeOK'
  BY <1>4 DEF Allow, window, breaker, backoff
<1>5. CASE Reset
  BY <1>5 DEF Reset
<1>6. CASE Snapshot
  BY <1>6 DEF Snapshot, breaker, backoff, bypass
<1>7. CASE Tick
  BY <1>7 DEF Tick, window, breaker, backoff, bypass
<1>8. CASE UNCHANGED manager
  BY <1>8 DEF manager, window, breaker, backoff, bypass
<1> QED
  BY <1>1, <1>2, <1>3, <1>4, <1>5, <1>6, <1>7, <1>8 DEF Next

\* Type correctness of the manager (resilience.go:140-166).
THEOREM ManagerTypes == Spec => []TypeOK
  BY InitTypes, NextTypes, PTL DEF Spec

-----------------------------------------------------------------------------

LEMMA InitWindow == Init => WindowInv
  BY DEF Init, WindowInv

\* What trimWindow leaves is the failures inside the window, no more no less.
LEMMA TrimExact ==
    ASSUME TypeOK, NEW entries \in Seq(Nat \ {0}), NEW k \in Nat,
           cleared <= dropped, dropped <= Len(entries),
           \A i, j \in 1 .. Len(entries) : i <= j => entries[i] <= entries[j],
           \A i \in cleared + 1 .. dropped : entries[i] < now - RapidFailWindow,
           Trimmed(entries, dropped, k)
    PROVE  /\ k >= dropped /\ k <= Len(entries)
           /\ \A i \in cleared + 1 .. k : entries[i] < now - RapidFailWindow
           /\ Cardinality(Recent(entries, cleared)) = Len(entries) - k
<1> USE DEF TypeOK
<1>1. /\ k >= dropped /\ k <= Len(entries)
      /\ Len(entries) \in Nat
  BY DEF Trimmed
<1>2. \A i \in cleared + 1 .. k : entries[i] < now - RapidFailWindow
  <2> SUFFICES ASSUME NEW i \in cleared + 1 .. k
               PROVE  entries[i] < now - RapidFailWindow
    OBVIOUS
  <2>1. CASE i <= dropped
    BY <2>1, i \in cleared + 1 .. dropped
  <2>2. CASE i > dropped
    BY <2>2, i \in dropped + 1 .. k DEF Trimmed
  <2> QED
    BY <2>1, <2>2
<1>3. \A i \in k + 1 .. Len(entries) : entries[i] >= now - RapidFailWindow
  <2> SUFFICES ASSUME NEW i \in k + 1 .. Len(entries)
               PROVE  entries[i] >= now - RapidFailWindow
    OBVIOUS
  <2>1. entries[k + 1] >= now - RapidFailWindow
    BY <1>1 DEF Trimmed
  <2>2. entries[k + 1] <= entries[i]
    BY <1>1, k + 1 \in 1 .. Len(entries), i \in 1 .. Len(entries)
  <2>3. entries[k + 1] \in Nat /\ entries[i] \in Nat
    BY <1>1, k + 1 \in 1 .. Len(entries), i \in 1 .. Len(entries)
  <2> QED
    BY <2>1, <2>2, <2>3, ConfigAssumption
<1>4. Recent(entries, cleared) = k + 1 .. Len(entries)
  <2>1. ASSUME NEW i \in Recent(entries, cleared)
        PROVE  i \in k + 1 .. Len(entries)
    <3>1. i \in cleared + 1 .. Len(entries) /\ entries[i] >= now - RapidFailWindow
      BY <2>1 DEF Recent
    <3>2. entries[i] \in Nat
      BY <3>1, i \in 1 .. Len(entries)
    <3>3. i > k
      BY <1>1, <1>2, <3>1, <3>2, ConfigAssumption
    <3> QED
      BY <1>1, <3>1, <3>3
  <2>2. ASSUME NEW i \in k + 1 .. Len(entries)
        PROVE  i \in Recent(entries, cleared)
    BY <1>1, <1>3, <2>2 DEF Recent
  <2> QED
    BY <2>1, <2>2
<1>5. Cardinality(k + 1 .. Len(entries)) = Len(entries) - k
  <2>1. k + 1 \in Int /\ Len(entries) \in Int
    BY <1>1
  <2>2. Cardinality(k + 1 .. Len(entries)) =
          IF k + 1 > Len(entries) THEN 0 ELSE Len(entries) - (k + 1) + 1
    BY <2>1, FS_Interval, Zenon
  <2> QED
    BY <1>1, <2>2
<1> QED
  BY <1>1, <1>2, <1>4, <1>5

\* Appending the instant of a report keeps the log sorted and in the past.
LEMMA AppendSorted ==
    ASSUME TypeOK, WindowInv
    PROVE  LET longer == Append(log, now)
           IN  /\ longer \in Seq(Nat \ {0})
               /\ Len(longer) = Len(log) + 1
               /\ \A i \in 1 .. Len(longer) : longer[i] <= now
               /\ \A i, j \in 1 .. Len(longer) : i <= j => longer[i] <= longer[j]
               /\ \A i \in cleared + 1 .. dropped :
                      longer[i] < now - RapidFailWindow
<1> DEFINE longer == Append(log, now)
<1>1. /\ longer \in Seq(Nat \ {0})
      /\ Len(longer) = Len(log) + 1
      /\ \A i \in 1 .. Len(log) : longer[i] = log[i]
      /\ longer[Len(log) + 1] = now
      /\ Len(log) \in Nat
  BY DEF TypeOK
<1>2. \A i \in 1 .. Len(longer) : longer[i] <= now
  <2> SUFFICES ASSUME NEW i \in 1 .. Len(longer) PROVE longer[i] <= now
    OBVIOUS
  <2>1. CASE i = Len(log) + 1
    BY <1>1, <2>1 DEF TypeOK
  <2>2. CASE i \in 1 .. Len(log)
    BY <1>1, <2>2 DEF WindowInv
  <2> QED
    BY <1>1, <2>1, <2>2
<1>3. \A i, j \in 1 .. Len(longer) : i <= j => longer[i] <= longer[j]
  <2> SUFFICES ASSUME NEW i \in 1 .. Len(longer), NEW j \in 1 .. Len(longer),
                      i <= j
               PROVE  longer[i] <= longer[j]
    OBVIOUS
  <2>1. CASE j = Len(log) + 1
    BY <1>1, <1>2, <2>1
  <2>2. CASE j \in 1 .. Len(log)
    <3>1. i \in 1 .. Len(log)
      BY <1>1, <2>2
    <3> QED
      BY <1>1, <2>2, <3>1 DEF WindowInv
  <2> QED
    BY <1>1, <2>1, <2>2
<1>4. \A i \in cleared + 1 .. dropped : longer[i] < now - RapidFailWindow
  BY <1>1 DEF WindowInv, TypeOK
<1> QED
  BY <1>1, <1>2, <1>3, <1>4

\* One rapid failure: the invariant survives, and Len(log') - dropped' is the
\* number of rapid failures in the window.
LEMMA RapidFailWindowStep ==
    ASSUME TypeOK, WindowInv, NEW p \in Projects, RapidFail(p), now' = now
    PROVE  /\ WindowInv'
           /\ Len(log') = Len(log) + 1
           /\ Cardinality(Recent(log', cleared)) = Len(log') - dropped'
<1>1. /\ log' = Append(log, now)
      /\ cleared' = cleared
      /\ dropped' \in 0 .. Len(log') /\ Trimmed(log', dropped, dropped')
  BY DEF RapidFail
<1>2. /\ log' \in Seq(Nat \ {0})
      /\ Len(log') = Len(log) + 1
      /\ \A i \in 1 .. Len(log') : log'[i] <= now
      /\ \A i, j \in 1 .. Len(log') : i <= j => log'[i] <= log'[j]
      /\ \A i \in cleared + 1 .. dropped : log'[i] < now - RapidFailWindow
  BY <1>1, AppendSorted
<1>3. /\ cleared <= dropped /\ dropped <= Len(log')
      /\ dropped \in Nat /\ cleared \in Nat /\ dropped' \in Nat
  BY <1>1, <1>2 DEF WindowInv, TypeOK
<1>4. /\ dropped' >= dropped /\ dropped' <= Len(log')
      /\ \A i \in cleared + 1 .. dropped' : log'[i] < now - RapidFailWindow
      /\ Cardinality(Recent(log', cleared)) = Len(log') - dropped'
  BY <1>1, <1>2, <1>3, TrimExact
<1>5. WindowInv'
  <2>1. cleared' <= dropped'
    BY <1>1, <1>3, <1>4
  <2> QED
    BY <1>1, <1>2, <1>4, <2>1 DEF WindowInv
<1> QED
  BY <1>2, <1>4, <1>5

LEMMA NextWindow == TypeOK /\ WindowInv /\ [Next]_manager => WindowInv'
<1> SUFFICES ASSUME TypeOK, WindowInv, [Next]_manager PROVE WindowInv'
  OBVIOUS
<1>1. CASE UNCHANGED <<log, dropped, cleared, now>>
  BY <1>1 DEF WindowInv
<1>2. ASSUME NEW p \in Projects, Report(p) PROVE WindowInv'
  <2>1. now' = now
    BY <1>2 DEF Report
  <2>2. CASE RapidFail(p)
    BY <2>1, <2>2, RapidFailWindowStep
  <2>3. CASE Succeeded(p) \/ SlowFail(p)
    BY <1>1, <2>1, <2>3 DEF Succeeded, SlowFail, window
  <2> QED
    BY <1>2, <2>2, <2>3 DEF Report
<1>3. CASE Reset
  BY <1>3 DEF Reset, WindowInv, TypeOK
<1>4. CASE Snapshot
  <2>1. /\ UNCHANGED <<now, log, cleared>>
        /\ dropped' \in 0 .. Len(log) /\ Trimmed(log, dropped, dropped')
    BY <1>4 DEF Snapshot
  <2>2. /\ log \in Seq(Nat \ {0}) /\ dropped' \in Nat
        /\ cleared \in Nat /\ dropped \in Nat
    BY <2>1 DEF TypeOK
  <2>3. /\ cleared <= dropped /\ dropped <= Len(log)
        /\ \A i, j \in 1 .. Len(log) : i <= j => log[i] <= log[j]
        /\ \A i \in cleared + 1 .. dropped : log[i] < now - RapidFailWindow
    BY DEF WindowInv
  <2>4. /\ dropped' >= dropped /\ dropped' <= Len(log)
        /\ \A i \in cleared + 1 .. dropped' : log[i] < now - RapidFailWindow
    BY <2>1, <2>2, <2>3, TrimExact
  <2> QED
    BY <2>1, <2>2, <2>3, <2>4 DEF WindowInv
<1>5. CASE Tick
  <2>1. now' = now + 1 /\ UNCHANGED <<log, dropped, cleared>>
    BY <1>5 DEF Tick, window
  <2>2. \A i \in 1 .. Len(log) : log[i] \in Nat
    BY DEF TypeOK
  <2>3. dropped \in Nat /\ cleared \in Nat /\ now \in Nat /\ Len(log) \in Nat
    BY DEF TypeOK
  <2>4. \A i \in cleared + 1 .. dropped : i \in 1 .. Len(log)
    BY <2>3 DEF WindowInv
  <2> QED
    BY <2>1, <2>2, <2>3, <2>4, ConfigAssumption DEF WindowInv
<1> QED
  BY <1>1, <1>2, <1>3, <1>4, <1>5
  DEF Next, MarkManual, Enqueue, Allow, window, manager

LEMMA SpecWindow == Spec => [](TypeOK /\ WindowInv)
  BY InitTypes, NextTypes, InitWindow, NextWindow, PTL DEF Spec

\* The circuit breaker trips on exactly the rapid failure that makes it the
\* threshold within one window (resilience.go:293-319).
THEOREM TripIsExact == Spec => TripExact
<1> DEFINE Exact ==
      state = "closed" =>
        (state' = "open" <=>
            /\ Len(log') > Len(log)
            /\ Cardinality(Recent(log', cleared)) >= RapidFailThreshold)
<1>1. ASSUME TypeOK, WindowInv, [Next]_manager PROVE Exact
  <2> SUFFICES ASSUME state = "closed"
               PROVE  state' = "open" <=>
                        /\ Len(log') > Len(log)
                        /\ Cardinality(Recent(log', cleared)) >= RapidFailThreshold
    OBVIOUS
  <2>1. Len(log) \in Nat
    BY <1>1 DEF TypeOK
  <2>2. CASE state' = "closed" /\ log' = log
    BY <2>1, <2>2
  <2>3. ASSUME NEW p \in Projects, Report(p), RapidFail(p) PROVE Exact
    <3>1. /\ Len(log') = Len(log) + 1
          /\ Cardinality(Recent(log', cleared)) = Len(log') - dropped'
      BY <1>1, <2>3, RapidFailWindowStep DEF Report
    <3>2. state' = "open" <=> Len(log') - dropped' >= RapidFailThreshold
      BY <2>3 DEF RapidFail, MaybeTrip, breaker
    <3> QED
      BY <2>1, <3>1, <3>2
  <2>4. ASSUME NEW p \in Projects, Report(p), Succeeded(p) \/ SlowFail(p)
        PROVE  state' = "closed" /\ log' = log
    BY <2>4 DEF Succeeded, SlowFail, breaker, window
  <2>5. CASE Reset \/ Snapshot \/ Tick \/ UNCHANGED manager
    BY <2>2, <2>5 DEF Reset, Snapshot, Tick, manager, breaker, window
  <2>6. ASSUME NEW p \in Projects,
               MarkManual(p) \/ Enqueue(p) \/ \E s \in Sources : Allow(p, s)
        PROVE  state' = "closed" /\ log' = log
    BY <2>6 DEF MarkManual, Enqueue, Allow, breaker, window
  <2> QED
    BY <1>1, <2>2, <2>3, <2>4, <2>5, <2>6 DEF Next, Report
<1>2. TypeOK /\ WindowInv /\ [Next]_manager => [Exact]_manager
  BY <1>1
<1>3. TripExact <=> [][Exact]_manager
  BY DEF TripExact
<1> QED
  BY <1>2, <1>3, SpecWindow, PTL DEF Spec

-----------------------------------------------------------------------------

LEMMA InitBackoff == Init => BackoffBounded
  BY ConfigAssumption DEF Init, BackoffBounded

\* A failure sets one project's deadline to at most 1.2 BackoffMax from now.
LEMMA FailedBounded ==
    ASSUME TypeOK, BackoffBounded, NEW p \in Projects, Failed(p),
           now' = now, lastReport' = [lastReport EXCEPT ![p] = now]
    PROVE  BackoffBounded'
<1>1. PICK d \in Backoff(failures[p] + 1) :
          nextAllowed' = [nextAllowed EXCEPT ![p] = now + d]
  BY DEF Failed
<1>2. d \in Nat /\ 10 * d < 12 * BackoffMax
  BY <1>1, BackoffShort
<1> SUFFICES ASSUME NEW q \in Projects
             PROVE  /\ nextAllowed'[q] # 0 <=> failures'[q] > 0
                    /\ lastReport'[q] <= now
                    /\ failures'[q] > 0 =>
                          10 * (nextAllowed'[q] - lastReport'[q]) < 12 * BackoffMax
  BY DEF BackoffBounded
<1>3. CASE q = p
  <2>1. /\ nextAllowed'[q] = now + d /\ failures'[q] = failures[p] + 1
        /\ lastReport'[q] = now
    BY <1>1, <1>3 DEF Failed, TypeOK
  <2> QED
    BY <1>2, <2>1, ConfigAssumption DEF TypeOK
<1>4. CASE q # p
  BY <1>1, <1>4 DEF Failed, TypeOK, BackoffBounded
<1> QED
  BY <1>3, <1>4

LEMMA NextBackoff == TypeOK /\ BackoffBounded /\ [Next]_manager => BackoffBounded'
<1> SUFFICES ASSUME TypeOK, BackoffBounded, [Next]_manager
             PROVE  BackoffBounded'
  OBVIOUS
<1>1. CASE UNCHANGED <<backoff, now>>
  BY <1>1 DEF BackoffBounded, backoff
<1>2. ASSUME NEW p \in Projects, Report(p) PROVE BackoffBounded'
  <2>1. now' = now /\ lastReport' = [lastReport EXCEPT ![p] = now]
    BY <1>2 DEF Report
  <2>2. CASE Succeeded(p)
    BY <2>1, <2>2 DEF Succeeded, BackoffBounded, TypeOK
  <2>3. CASE Failed(p)
    BY <2>1, <2>3, FailedBounded
  <2> QED
    BY <1>2, <2>2, <2>3 DEF Report, RapidFail, SlowFail
<1>3. CASE Reset
  BY <1>3, ConfigAssumption DEF Reset, BackoffBounded, TypeOK
<1>4. CASE Tick
  BY <1>4 DEF Tick, BackoffBounded, TypeOK, backoff
<1> QED
  BY <1>1, <1>2, <1>3, <1>4
  DEF Next, MarkManual, Enqueue, Allow, Snapshot, manager

\* No project is ever held back for longer than 1.2 times BackoffMax after its
\* last failure, for every base, cap and number of failures
\* (resilience.go:266-278).
THEOREM BackoffIsBounded == Spec => []BackoffBounded
<1>1. TypeOK /\ BackoffBounded /\ [Next]_manager => (TypeOK /\ BackoffBounded)'
  BY NextTypes, NextBackoff
<1> QED
  BY <1>1, InitTypes, InitBackoff, PTL DEF Spec

-----------------------------------------------------------------------------

LEMMA NextBypass ==
    TypeOK /\ BypassSingleShot /\ [Next]_manager => BypassSingleShot'
<1> SUFFICES ASSUME TypeOK, BypassSingleShot, [Next]_manager
             PROVE  BypassSingleShot'
  OBVIOUS
<1>1. CASE UNCHANGED bypass
  BY <1>1 DEF BypassSingleShot, bypass
<1>2. ASSUME NEW p \in Projects, MarkManual(p) PROVE BypassSingleShot'
  BY <1>2 DEF MarkManual, BypassSingleShot, TypeOK
<1>3. ASSUME NEW p \in Projects, NEW s \in Sources, Allow(p, s)
      PROVE  BypassSingleShot'
  <2>1. Gated(p, s) => p \in manual
    BY <1>3 DEF Allow, Denies
  <2> QED
    BY <1>3, <2>1 DEF Allow, BypassSingleShot, TypeOK
<1>4. CASE Reset
  BY <1>4 DEF Reset, BypassSingleShot, TypeOK
<1> QED
  BY <1>1, <1>2, <1>3, <1>4
  DEF Next, Report, Enqueue, Snapshot, Tick, manager

\* Every dispatch let through a closed gate was asked for by a MarkManual of
\* its own (resilience.go:345-350, README.md:245).
THEOREM BypassIsSingleShot == Spec => []BypassSingleShot
<1>1. Init => BypassSingleShot
  BY DEF Init, BypassSingleShot
<1>2. TypeOK /\ BypassSingleShot /\ [Next]_manager
        => (TypeOK /\ BypassSingleShot)'
  BY NextTypes, NextBypass
<1> QED
  BY <1>1, <1>2, InitTypes, PTL DEF Spec
=============================================================================
