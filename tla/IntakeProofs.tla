----------------------------- MODULE IntakeProofs -----------------------------
(***************************************************************************)
(* Proofs about Intake, for any environments, secrets, old databases,      *)
(* projects, requests and bounds.                                          *)
(***************************************************************************)
EXTENDS Intake, TLAPS

USE DEF database, startup, hooks, opts, counts

\* Nothing is served before the start is through, and what each step of the
\* start relies on is there.
StartInv ==
    /\ StartTypeOK
    /\ pc \in {"override", "docker", "cron", "serving"} => secret # None
    /\ pc \in {"docker", "cron", "serving"} => tokens = Parts[secret]
    /\ pc \in {"seed", "generate", "override", "docker", "cron", "serving"} =>
         version = Migrations
    /\ pc \in {"generate", "override", "docker", "cron", "serving"} => job # None

ServeInv ==
    pc # "serving" =>
        /\ \A h \in Handlers : hpc[h] = "idle"
        /\ \A t \in Tabs : opc[t] = "idle"

IntakeTypes ==
    /\ listed \subseteq Projects
    /\ hpc \in [Handlers -> {"idle", "job", "rows", "gate", "write"}]
    /\ hreq \in [Handlers -> Hooks \cup {None}]
    /\ hjob \in [Handlers -> Jobs \cup {None}]
    /\ answer \in [Handlers -> {"none", "no such job", "disabled", "not discovered",
                                "unauthorized", "queued", "queue full", "scheduled",
                                "not found", "failed"}]
    /\ opc \in [Tabs -> {"idle", "debug", "webhook"}]
    /\ oreq \in [Tabs -> Options \cup {None}]
    /\ alone \subseteq Tabs /\ settled \in Options \cup {None}
    /\ requests \in Nat /\ changes \in Nat
    /\ \A h \in Handlers : hpc[h] # "idle" => hreq[h] \in Hooks
    /\ \A h \in Handlers : hpc[h] = "rows" => hjob[h] \in Jobs
    /\ \A t \in Tabs : opc[t] # "idle" => oreq[t] \in Options
    /\ \A t \in Tabs : opc[t] = "webhook" => oreq[t].webhook # None

HistoryTypes == granted \in [Handlers -> BOOLEAN] /\ denied \in [Handlers -> BOOLEAN]

Inv == StartInv /\ ServeInv /\ IntakeTypes /\ HistoryTypes

-----------------------------------------------------------------------------
(* Types *)

LEMMA StartKeeps == StartInv /\ (StartStep \/ Reconfigure \/ Dies) => StartInv'
<1> SUFFICES ASSUME StartInv, StartStep \/ Reconfigure \/ Dies PROVE StartInv'
    OBVIOUS
<1> USE DEF StartInv, StartTypeOK, Migrations
<1>1. CASE Boot \/ Reconfigure \/ CheckConfig \/ Connect \/ Serve \/ Dies
    BY <1>1 DEF Boot, Reconfigure, CheckConfig, Connect, Serve, Dies, Fault
<1>2. CASE Migrate
  <2>1. job' \in Jobs \cup {None}
    BY <1>2, SecretAssumption DEF Migrate, Jobs
  <2>2. version' \in 0..4
    BY <1>2 DEF Migrate
  <2> QED
    BY <1>2, <2>1, <2>2 DEF Migrate
<1>3. CASE Seed
  <2>1. env.webhook \in BOOLEAN
    BY EnvAssumption
  <2>2. job' \in Jobs
    BY <1>3, <2>1 DEF Seed, Jobs
  <2> QED
    BY <1>3, <2>2, SecretAssumption DEF Seed
<1>4. CASE Generate
    BY <1>4, SecretAssumption DEF Generate
<1>5. CASE Override
  <2>1. env.secret \in Secrets \cup {None}
    BY EnvAssumption
  <2>2. secret' \in Secrets
    BY <1>5, <2>1 DEF Override
  <2>3. Parts[secret'] \subseteq UNION {Parts[s] : s \in Secrets}
    BY <2>2
  <2> QED
    BY <1>5, <2>2, <2>3, SecretAssumption DEF Override
<1> QED
    BY <1>1, <1>2, <1>3, <1>4, <1>5 DEF StartStep

\* The parts of a step that Startup sees.
LEMMA JobKeepsStart ==
    ASSUME StartInv, NEW j \in Jobs, job # None, job' = j, UNCHANGED <<version, secret, env, pc, tokens, edits>>,
           faults' \in Nat
    PROVE  StartInv'
    BY SecretAssumption DEF StartInv, StartTypeOK

LEMMA FaultKeepsStart ==
    ASSUME StartInv, UNCHANGED <<database, env, pc, tokens, edits>>, faults' \in Nat
    PROVE  StartInv'
    BY DEF StartInv, StartTypeOK

LEMMA HistoryKept == HistoryTypes /\ [Next]_vars => HistoryTypes'
<1> SUFFICES ASSUME HistoryTypes, [Next]_vars PROVE HistoryTypes'
    OBVIOUS
<1> USE DEF HistoryTypes
<1>1. CASE UNCHANGED <<granted, denied>>
    BY <1>1
<1>2. ASSUME NEW j, JobBecomes(j) PROVE HistoryTypes'
    BY <1>2 DEF JobBecomes
<1>3. ASSUME NEW h \in Handlers, NEW r \in Hooks, Arrive(h, r) PROVE HistoryTypes'
  <2>1. Takes(job, r) \in BOOLEAN
    BY DEF Takes
  <2> QED
    BY <1>3, <2>1 DEF Arrive
<1>4. (\E t \in Tabs : SetDebug(t) \/ SetWebhook(t)) \/ EditAuth => \E j : JobBecomes(j)
    BY DEF SetDebug, SetWebhook, EditAuth
<1> QED
    BY <1>1, <1>2, <1>3, <1>4 DEF Next, vars, Starting, Crash, Reconcile, HookStep, ReadJob,
       Resolve, AskGate, Write, HookFails, OptionsStep, OptionsFail, Ask

LEMMA Counted ==
    /\ changes \in Nat /\ Change => changes' \in Nat
    /\ requests \in Nat /\ Request => requests' \in Nat
    BY DEF Change, Request

\* What an answer does to the types, and what a change of the state alone does.
LEMMA HookTyped ==
    ASSUME IntakeTypes, job \in Jobs, NEW h \in Handlers, HookStep(h)
    PROVE  IntakeTypes'
<1> DEFINE Rest == UNCHANGED <<listed, opc, oreq, alone, settled, requests, changes>>
           Known == {"no such job", "disabled", "not discovered", "unauthorized",
                     "queued", "queue full", "scheduled", "not found", "failed"}
<1>1. Rest
    BY DEF HookStep, ReadJob, Resolve, AskGate, Write, HookFails
<1>2. ASSUME NEW a \in Known, Answers(h, a) PROVE IntakeTypes'
    BY <1>1, <1>2 DEF Answers, IntakeTypes
<1>3. ASSUME NEW s \in {"gate", "write"}, hpc[h] # "idle", hpc' = [hpc EXCEPT ![h] = s],
             UNCHANGED <<answer, hreq, hjob>>
      PROVE  IntakeTypes'
    BY <1>1, <1>3 DEF IntakeTypes
<1>4. CASE ReadJob(h)
    BY <1>1, <1>4 DEF ReadJob, IntakeTypes
<1>5. CASE Resolve(h)
  <2>1. CASE \E a \in Known : Answers(h, a)
    BY <1>2, <2>1
  <2>2. CASE ~\E a \in Known : Answers(h, a)
    <3>1. \E s \in {"gate", "write"} :
             hpc' = [hpc EXCEPT ![h] = s] /\ UNCHANGED <<answer, hreq, hjob>>
      BY <1>5, <2>2 DEF Resolve
    <3> QED
      BY <1>3, <1>5, <3>1 DEF Resolve
  <2> QED
    BY <2>1, <2>2
<1>6. CASE AskGate(h)
  <2>1. \/ Answers(h, "queued") \/ Answers(h, "queue full")
        \/ hpc' = [hpc EXCEPT ![h] = "write"] /\ UNCHANGED <<answer, hreq, hjob>>
    BY <1>6 DEF AskGate
  <2>2. hpc[h] # "idle"
    BY <1>6 DEF AskGate
  <2>3. CASE hpc' = [hpc EXCEPT ![h] = "write"] /\ UNCHANGED <<answer, hreq, hjob>>
    BY <1>3, <2>2, <2>3
  <2>4. "queued" \in Known /\ "queue full" \in Known
    OBVIOUS
  <2> QED
    BY <1>2, <2>1, <2>3, <2>4
<1>7. CASE Write(h) \/ HookFails(h)
  <2>1. \E a \in Known : Answers(h, a)
    BY <1>7 DEF Write, HookFails
  <2> QED
    BY <1>2, <2>1
<1> QED
    BY <1>4, <1>5, <1>6, <1>7 DEF HookStep

LEMMA TypesKept == Inv /\ [Next]_vars => Inv'
<1> SUFFICES ASSUME Inv, [Next]_vars PROVE Inv'
    OBVIOUS
<1> USE DEF Inv
<1> DEFINE Rest == ServeInv /\ IntakeTypes
<1>0. /\ faults \in Nat /\ faults + 1 \in Nat
      /\ job # None => job \in Jobs
      /\ pc = "serving" => job \in Jobs
    BY DEF StartInv, StartTypeOK
<1>h. HistoryTypes'
    BY HistoryKept
<1>1. CASE Starting
  <2>1. StartInv'
    BY <1>1, StartKeeps DEF Starting
  <2>2. ServeInv'
    BY <1>1 DEF Starting, ServeInv, StartStep, Boot, Reconfigure, CheckConfig, Migrate, Seed,
       Generate, Override, Connect, Serve
  <2>3. IntakeTypes'
    BY <1>1 DEF Starting, IntakeTypes
  <2> QED
    BY <1>h, <2>1, <2>2, <2>3
<1>2. CASE Crash
  <2>1. StartInv'
    BY <1>2, StartKeeps DEF Crash
  <2>2. Rest'
    BY <1>2 DEF Crash, ServeInv, IntakeTypes
  <2> QED
    BY <1>h, <2>1, <2>2
<1>3. CASE Reconcile
  <2>1. StartInv'
    BY <1>0, <1>3, FaultKeepsStart DEF Reconcile
  <2>2. ServeInv'
    BY <1>3 DEF Reconcile, ServeInv
  <2>a. requests' \in Nat
    BY <1>3 DEF Reconcile, IntakeTypes
  <2>b. changes' \in Nat
    BY <1>3, Counted DEF Reconcile, IntakeTypes
  <2>c. listed' \subseteq Projects
    BY <1>3 DEF Reconcile
  <2>3. requests' \in Nat /\ changes' \in Nat /\ listed' \subseteq Projects
    BY <2>a, <2>b, <2>c
  <2>4. IntakeTypes'
    BY <1>3, <2>3 DEF Reconcile, IntakeTypes
  <2> QED
    BY <1>h, <2>1, <2>2, <2>4
<1>4. CASE EditAuth
  <2>1. PICK b \in BOOLEAN : JobBecomes([job EXCEPT !.auth = b])
    BY <1>4 DEF EditAuth
  <2>2. job' \in Jobs
    BY <1>0, <1>4, <2>1 DEF EditAuth, JobBecomes, Jobs
  <2>3. StartInv'
    BY <1>0, <1>4, <2>2, JobKeepsStart DEF EditAuth
  <2>4. UNCHANGED <<pc, listed, hpc, hreq, hjob, answer, opts, requests>> /\ Change
    BY <1>4 DEF EditAuth
  <2>5. changes \in Nat /\ changes' \in Nat
    BY <2>4, Counted DEF IntakeTypes
  <2>6. Rest'
    BY <2>4, <2>5 DEF ServeInv, IntakeTypes
  <2> QED
    BY <1>h, <2>3, <2>6
<1>5. ASSUME NEW h \in Handlers, NEW r \in Hooks, Arrive(h, r) PROVE Inv'
  <2>1. StartInv'
    BY <1>0, <1>5, FaultKeepsStart DEF Arrive
  <2>a. requests' \in Nat
    BY <1>5, Counted DEF Arrive, IntakeTypes
  <2>2. Rest'
    BY <1>5, <2>a DEF Arrive, ServeInv, IntakeTypes
  <2> QED
    BY <1>h, <2>1, <2>2
<1>6. ASSUME NEW h \in Handlers, HookStep(h) PROVE Inv'
  <2>1. /\ UNCHANGED <<version, job, secret, env, pc, tokens, edits>>
        /\ faults' = faults \/ faults' = faults + 1
    BY <1>6 DEF HookStep, ReadJob, Resolve, AskGate, Write, HookFails, Fault
  <2>2. StartInv'
    BY <1>0, <2>1, FaultKeepsStart
  <2>3. pc = "serving" /\ pc' = pc
    BY <1>6, <2>1 DEF HookStep, ReadJob, Resolve, AskGate, Write, HookFails, ServeInv
  <2>4. ServeInv'
    BY <2>3 DEF ServeInv
  <2>5. IntakeTypes'
    BY <1>0, <1>6, <2>3, HookTyped
  <2> QED
    BY <1>h, <2>2, <2>4, <2>5
<1>7. ASSUME NEW t \in Tabs, NEW o \in Options, Ask(t, o) PROVE Inv'
  <2>1. StartInv'
    BY <1>0, <1>7, FaultKeepsStart DEF Ask
  <2>a. requests' \in Nat
    BY <1>7, Counted DEF Ask, IntakeTypes
  <2>2. Rest'
    BY <1>7, <2>a DEF Ask, ServeInv, IntakeTypes
  <2> QED
    BY <1>h, <2>1, <2>2
<1>8. ASSUME NEW t \in Tabs, OptionsStep(t) PROVE Inv'
  <2>1. pc = "serving" /\ pc' = pc /\ oreq[t] \in Options /\ job \in Jobs
    BY <1>0, <1>8 DEF OptionsStep, SetDebug, SetWebhook, OptionsFail, ServeInv, IntakeTypes
  <2>w. opc[t] = "webhook" => oreq[t].webhook # None
    BY DEF IntakeTypes
  <2>2. oreq[t].debug \in BOOLEAN /\ oreq[t].webhook \in BOOLEAN \cup {None}
    BY <2>1, OptionAssumption
  <2>s. ServeInv'
    BY <2>1 DEF ServeInv
  <2>3. CASE OptionsFail(t)
    <3>1. UNCHANGED <<version, job, secret, env, pc, tokens, edits>> /\ faults' = faults + 1
      BY <2>3 DEF OptionsFail, Fault
    <3>2. StartInv'
      BY <1>0, <3>1, FaultKeepsStart
    <3>3. IntakeTypes'
      BY <2>3 DEF OptionsFail, IntakeTypes
    <3> QED
      BY <1>h, <2>s, <3>2, <3>3
  <2>4. CASE SetDebug(t)
    <3>1. job' \in Jobs
      BY <2>1, <2>2, <2>4 DEF SetDebug, JobBecomes, Jobs
    <3>2. StartInv'
      BY <1>0, <2>1, <2>4, <3>1, JobKeepsStart, SecretAssumption DEF SetDebug
    <3>3. IntakeTypes'
      BY <2>1, <2>4 DEF SetDebug, Confirmed, IntakeTypes
    <3> QED
      BY <1>h, <2>s, <3>2, <3>3
  <2>5. CASE SetWebhook(t)
    <3>1. oreq[t].webhook \in BOOLEAN
      BY <2>w, <2>2, <2>5 DEF SetWebhook
    <3>2. job' \in Jobs
      BY <2>1, <3>1, <2>5 DEF SetWebhook, JobBecomes, Jobs
    <3>3. StartInv'
      BY <1>0, <2>1, <2>5, <3>2, JobKeepsStart, SecretAssumption DEF SetWebhook
    <3>4. IntakeTypes'
      BY <2>1, <2>5 DEF SetWebhook, Confirmed, IntakeTypes
    <3> QED
      BY <1>h, <2>s, <3>3, <3>4
  <2> QED
    BY <1>8, <2>3, <2>4, <2>5 DEF OptionsStep
<1>9. CASE UNCHANGED vars
    BY <1>9, <1>h DEF vars, StartInv, StartTypeOK, ServeInv, IntakeTypes
<1> QED
    BY <1>1, <1>2, <1>3, <1>4, <1>5, <1>6, <1>7, <1>8, <1>9 DEF Next

LEMMA TypesStart == Init => Inv
<1> SUFFICES ASSUME Init PROVE Inv
    OBVIOUS
<1>1. StartInv
    BY OldAssumption DEF Init, StartInit, StartInv, StartTypeOK, Migrations
<1> QED
    BY <1>1 DEF Init, StartInit, Inv, ServeInv, IntakeTypes, HistoryTypes

LEMMA Typed == Spec => []Inv
    BY TypesStart, TypesKept, PTL DEF Spec

\* Every variable keeps its type.
THEOREM IntakeTypeCorrect == Spec => []IntakeTypeOK
<1>1. Inv => IntakeTypeOK
    BY DEF Inv, StartInv, IntakeTypes, HistoryTypes, IntakeTypeOK
<1> QED
    BY <1>1, Typed, PTL

\* A process that serves accepts the tokens of the secret in its database.
THEOREM SecretIsShown == Spec => []SecretShown
<1>1. Inv => SecretShown
    BY DEF Inv, StartInv, SecretShown
<1> QED
    BY <1>1, Typed, PTL

\* A stored secret gives way to nothing but the environment's.
THEOREM SecretIsStable == Spec => SecretStable
<1>1. [Next]_vars => [(secret # None /\ secret' # secret) => secret' = env.secret]_startup
  <2> SUFFICES ASSUME [Next]_vars, secret # None, secret' # secret
               PROVE  secret' = env.secret
      OBVIOUS
  <2>1. Generate \/ Override
      BY DEF Next, vars, Starting, StartStep, Boot, Reconfigure, CheckConfig, Migrate, Seed,
         Connect, Serve, Crash, Dies, Reconcile, EditAuth, HookStep, ReadJob, Resolve, AskGate,
         Write, HookFails, Arrive, OptionsStep, SetDebug, SetWebhook, OptionsFail, Ask
  <2> QED
      BY <2>1 DEF Generate, Override
<1> QED
    BY <1>1, PTL DEF Spec, SecretStable

-----------------------------------------------------------------------------
(* Decisions *)

\* What the histories have of a request that is being served, of the job as it
\* is and of the job as it was read.
Noted(h) ==
    /\ hpc[h] # "idle" =>
         (IF Takes(job, hreq[h]) THEN granted[h] ELSE denied[h])
    /\ hpc[h] = "rows" =>
         (IF Takes(hjob[h], hreq[h]) THEN granted[h] ELSE denied[h])
    /\ hpc[h] \in {"gate", "write"} => granted[h]
    /\ answer[h] \in {"scheduled", "queued"} => granted[h]
    /\ answer[h] \in {"disabled", "unauthorized"} => denied[h]
DecisionInv == \A h \in Handlers : Noted(h)

\* A step that leaves the request h alone, but may change the job.
LEMMA OthersNoted ==
    ASSUME NEW h \in Handlers, Noted(h), HistoryTypes,
           UNCHANGED <<hpc[h], hreq[h], hjob[h], answer[h]>>,
           \/ UNCHANGED <<job, secret, granted[h], denied[h]>>
           \/ UNCHANGED secret /\ JobBecomes(job')
           \/ hpc[h] = "idle" /\ UNCHANGED <<granted[h], denied[h]>>
    PROVE  Noted(h)'
<1>1. CASE UNCHANGED <<job, secret, granted[h], denied[h]>>
    BY <1>1 DEF Noted, Takes
<1>2. CASE UNCHANGED secret /\ JobBecomes(job')
    BY <1>2 DEF Noted, Takes, JobBecomes, HistoryTypes
<1>3. CASE hpc[h] = "idle" /\ UNCHANGED <<granted[h], denied[h]>>
    BY <1>3 DEF Noted
<1> QED
    BY <1>1, <1>2, <1>3

\* The step of the request itself.
LEMMA OwnNoted ==
    ASSUME Inv, NEW h \in Handlers, Noted(h), HookStep(h)
    PROVE  Noted(h)'
<1> USE DEF Inv, IntakeTypes
<1>1. hpc[h] # "idle" /\ pc = "serving" /\ tokens = Parts[secret] /\ job \in Jobs
      /\ UNCHANGED <<job, secret, granted, denied>>
    BY DEF HookStep, ReadJob, Resolve, AskGate, Write, HookFails, ServeInv, StartInv,
       StartTypeOK
<1>2. \A j, r : Takes(j, r)' <=> Takes(j, r)
    BY <1>1 DEF Takes
<1>3. ASSUME NEW a, Answers(h, a),
             a \in {"scheduled", "queued"} => granted[h],
             a \in {"disabled", "unauthorized"} => denied[h]
      PROVE  Noted(h)'
    BY <1>1, <1>3 DEF Answers, Noted
<1>4. ASSUME NEW s \in {"gate", "write"}, granted[h],
             hpc' = [hpc EXCEPT ![h] = s], UNCHANGED <<answer, hreq, hjob>>
      PROVE  Noted(h)'
    BY <1>1, <1>2, <1>4 DEF Noted
<1>5. CASE ReadJob(h)
    BY <1>1, <1>2, <1>5 DEF ReadJob, Noted
<1>6. CASE Resolve(h)
  <2> DEFINE r == hreq[h]
             j == hjob[h]
  <2>1. /\ hpc[h] = "rows" /\ j \in Jobs /\ None \notin Jobs
        /\ Takes(j, r) <=> (j.webhook /\ Unlocked(h))
    BY <1>1, <1>6, SecretAssumption DEF Resolve, Takes, Unlocked, Authenticated
  <2>2. /\ (j.webhook /\ Unlocked(h)) => granted[h]
        /\ ~(j.webhook /\ Unlocked(h)) => denied[h]
    BY <2>1 DEF Noted
  <2>3. CASE Answers(h, "no such job") \/ Answers(h, "not discovered")
    BY <1>3, <2>3
  <2>4. CASE ~j.webhook /\ Answers(h, "disabled")
    BY <1>3, <2>2, <2>4
  <2>5. CASE ~Unlocked(h) /\ Answers(h, "unauthorized")
    BY <1>3, <2>2, <2>5
  <2>6. CASE /\ j.webhook /\ Unlocked(h) /\ UNCHANGED <<answer, hreq, hjob>>
             /\ hpc' = [hpc EXCEPT ![h] = IF r.gated THEN "gate" ELSE "write"]
    <3>1. hpc' = [hpc EXCEPT ![h] = "gate"] \/ hpc' = [hpc EXCEPT ![h] = "write"]
      BY <2>6
    <3> QED
      BY <1>4, <2>2, <2>6, <3>1
  <2> QED
    BY <1>6, <2>3, <2>4, <2>5, <2>6 DEF Resolve
<1>7. CASE AskGate(h)
  <2>1. granted[h]
    BY <1>7 DEF AskGate, Noted
  <2>2. CASE Answers(h, "queued") \/ Answers(h, "queue full")
    BY <1>3, <2>1, <2>2
  <2>3. CASE hpc' = [hpc EXCEPT ![h] = "write"] /\ UNCHANGED <<answer, hreq, hjob>>
    BY <1>4, <2>1, <2>3
  <2> QED
    BY <1>7, <2>2, <2>3 DEF AskGate
<1>8. CASE Write(h)
  <2>1. granted[h]
    BY <1>8 DEF Write, Noted
  <2>2. Answers(h, "scheduled") \/ Answers(h, "not found")
    BY <1>8 DEF Write
  <2> QED
    BY <1>3, <2>1, <2>2
<1>9. CASE HookFails(h)
    BY <1>3, <1>9 DEF HookFails
<1> QED
    BY <1>5, <1>6, <1>7, <1>8, <1>9 DEF HookStep

LEMMA DecisionsKept == Inv /\ DecisionInv /\ [Next]_vars => DecisionInv'
<1> SUFFICES ASSUME Inv, DecisionInv, [Next]_vars, NEW h \in Handlers PROVE Noted(h)'
    BY DEF DecisionInv
<1>0. Noted(h) /\ HistoryTypes
    BY DEF DecisionInv, Inv
<1>1. CASE Starting
  <2>1. hpc[h] = "idle"
    BY <1>1 DEF Starting, StartStep, Boot, Reconfigure, CheckConfig, Migrate, Seed, Generate,
       Override, Connect, Serve, Inv, ServeInv
  <2> QED
    BY <1>0, <1>1, <2>1, OthersNoted DEF Starting
<1>2. CASE Crash
    BY <1>0, <1>2 DEF Crash, Noted
<1>3. CASE Reconcile
    BY <1>0, <1>3, OthersNoted DEF Reconcile
<1>4. CASE EditAuth
  <2>1. JobBecomes(job') /\ UNCHANGED <<secret, hpc, hreq, hjob, answer>>
    BY <1>4 DEF EditAuth, JobBecomes
  <2> QED
    BY <1>0, <2>1, OthersNoted
<1>5. ASSUME NEW g \in Handlers, NEW r \in Hooks, Arrive(g, r) PROVE Noted(h)'
  <2>1. CASE g = h
    <3>1. Takes(job, r)' <=> Takes(job, r)
      BY <1>5 DEF Arrive, Takes
    <3> QED
      BY <1>5, <2>1, <3>1 DEF Arrive, Noted, Inv, IntakeTypes, HistoryTypes
  <2>2. CASE g # h
    <3>1. UNCHANGED <<hpc[h], hreq[h], hjob[h], answer[h], granted[h], denied[h], job, secret>>
      BY <1>5, <2>2 DEF Arrive, Inv, IntakeTypes, HistoryTypes
    <3> QED
      BY <1>0, <3>1, OthersNoted
  <2> QED
    BY <2>1, <2>2
<1>6. ASSUME NEW g \in Handlers, HookStep(g) PROVE Noted(h)'
  <2>1. CASE g = h
    BY <1>0, <1>6, <2>1, OwnNoted
  <2>2. CASE g # h
    <3>1. UNCHANGED <<hpc[h], hreq[h], hjob[h], answer[h], granted[h], denied[h], job, secret>>
      <4> USE <2>2 DEF Inv, IntakeTypes
      <4>1. ASSUME NEW a, Answers(g, a)
            PROVE  UNCHANGED <<hpc[h], hreq[h], hjob[h], answer[h]>>
        BY <4>1 DEF Answers
      <4>2. UNCHANGED <<granted, denied, job, secret>>
        BY <1>6 DEF HookStep, ReadJob, Resolve, AskGate, Write, HookFails
      <4>3. CASE ReadJob(g)
        BY <4>2, <4>3 DEF ReadJob
      <4>4. CASE Resolve(g)
        BY <4>1, <4>2, <4>4 DEF Resolve
      <4>5. CASE AskGate(g)
        BY <4>1, <4>2, <4>5 DEF AskGate
      <4>6. CASE Write(g) \/ HookFails(g)
        BY <4>1, <4>2, <4>6 DEF Write, HookFails
      <4> QED
        BY <1>6, <4>3, <4>4, <4>5, <4>6 DEF HookStep
    <3> QED
      BY <1>0, <3>1, OthersNoted
  <2> QED
    BY <2>1, <2>2
<1>7. ASSUME NEW t \in Tabs, NEW o \in Options, Ask(t, o) PROVE Noted(h)'
    BY <1>0, <1>7, OthersNoted DEF Ask
<1>8. ASSUME NEW t \in Tabs, OptionsStep(t) PROVE Noted(h)'
  <2>1. CASE OptionsFail(t)
    BY <1>0, <2>1, OthersNoted DEF OptionsFail
  <2>2. CASE SetDebug(t) \/ SetWebhook(t)
    <3>1. JobBecomes(job') /\ UNCHANGED <<secret, hpc, hreq, hjob, answer>>
      BY <2>2 DEF SetDebug, SetWebhook, JobBecomes
    <3> QED
      BY <1>0, <3>1, OthersNoted
  <2> QED
    BY <1>8, <2>1, <2>2 DEF OptionsStep
<1>9. CASE UNCHANGED vars
    BY <1>0, <1>9, OthersNoted DEF vars
<1> QED
    BY <1>1, <1>2, <1>3, <1>4, <1>5, <1>6, <1>7, <1>8, <1>9 DEF Next

\* Webhooks are decided upon as the job stood at one moment of their being served.
THEOREM DecisionsAreFair == Spec => []DecisionsStand
<1>1. Init => DecisionInv
    BY DEF Init, DecisionInv, Noted
<1>2. DecisionInv => DecisionsStand
    BY DEF DecisionInv, Noted, DecisionsStand
<1> QED
    BY <1>1, <1>2, Typed, DecisionsKept, PTL DEF Spec

-----------------------------------------------------------------------------
(* Toggles *)

ToggleInv ==
    /\ TogglesHold
    /\ settled # None => version = Migrations /\ \A t \in Tabs : opc[t] = "idle"
    /\ \A t \in alone : opc[t] # "idle" => \A u \in Tabs \ {t} : opc[u] = "idle"
    /\ \A t \in alone : opc[t] = "webhook" => job.debug = oreq[t].debug

\* Steps of the start that find options settled leave them so.
LEMMA StartToggles ==
    ASSUME Inv, ToggleInv, StartStep \/ Reconfigure \/ Dies,
           UNCHANGED <<alone, settled>>,
           \/ UNCHANGED <<opc, oreq>>
           \/ opc' = [t \in Tabs |-> "idle"]
    PROVE  ToggleInv'
<1>1. pc # "serving" => \A t \in Tabs : opc[t] = "idle"
    BY DEF Inv, ServeInv
<1>2. CASE Boot \/ Reconfigure \/ CheckConfig \/ Generate \/ Override \/ Connect \/ Serve \/ Dies
  <2>1. UNCHANGED <<version, job>>
    BY <1>2 DEF Boot, Reconfigure, CheckConfig, Generate, Override, Connect, Serve, Dies
  <2>2. alone \subseteq Tabs
    BY DEF Inv, IntakeTypes
  <2> QED
    BY <2>1, <2>2 DEF ToggleInv, TogglesHold
<1>3. CASE Migrate \/ Seed
  <2>1. \A t \in Tabs : opc'[t] = "idle"
    BY <1>1, <1>3 DEF Migrate, Seed
  <2>2. settled # None => UNCHANGED <<version, job>>
    BY <1>3 DEF Migrate, Seed, ToggleInv, TogglesHold, Migrations
  <2>3. alone \subseteq Tabs
    BY DEF Inv, IntakeTypes
  <2> QED
    BY <2>1, <2>2, <2>3 DEF ToggleInv, TogglesHold
<1> QED
    BY <1>2, <1>3 DEF StartStep

\* A step that confirms the options of t, which the job then has.
LEMMA ConfirmToggles ==
    ASSUME Inv, ToggleInv, NEW t \in Tabs, opc[t] # "idle", Confirmed(t),
           UNCHANGED <<version, alone>>, job' \in Jobs,
           t \in alone => /\ job'.debug = oreq[t].debug
                          /\ oreq[t].webhook # None => job'.webhook = oreq[t].webhook
    PROVE  ToggleInv'
<1>1. version = Migrations /\ alone \subseteq Tabs /\ opc \in [Tabs -> {"idle", "debug", "webhook"}]
    BY DEF Inv, StartInv, ServeInv, IntakeTypes
<1>2. opc' = [opc EXCEPT ![t] = "idle"] /\ settled' = (IF t \in alone THEN oreq[t] ELSE None)
    BY DEF Confirmed
<1>3. CASE t \in alone
  <2>1. \A u \in Tabs : opc'[u] = "idle"
    BY <1>1, <1>2, <1>3 DEF ToggleInv
  <2>2. job' # None /\ settled' = oreq[t]
    BY <1>2, <1>3, SecretAssumption
  <2>3. TogglesHold'
    BY <1>3, <2>2 DEF TogglesHold
  <2>4. version' = Migrations /\ alone' = alone
    BY <1>1
  <2> QED
    BY <1>1, <2>1, <2>3, <2>4 DEF ToggleInv
<1>4. CASE t \notin alone
  <2>1. settled' = None
    BY <1>2, <1>4
  <2>2. \A u \in alone : opc[u] = "idle"
    BY <1>1, <1>4 DEF ToggleInv
  <2>3. \A u \in alone' : opc'[u] = "idle"
    BY <1>1, <1>2, <1>4, <2>2
  <2> QED
    BY <2>1, <2>3 DEF ToggleInv, TogglesHold
<1> QED
    BY <1>3, <1>4

LEMMA TogglesKept == Inv /\ ToggleInv /\ [Next]_vars => ToggleInv'
<1> SUFFICES ASSUME Inv, ToggleInv, [Next]_vars PROVE ToggleInv'
    OBVIOUS
<1>0. /\ alone \subseteq Tabs
      /\ opc \in [Tabs -> {"idle", "debug", "webhook"}]
      /\ oreq \in [Tabs -> Options \cup {None}]
      /\ pc = "serving" => job \in Jobs
    BY DEF Inv, StartInv, StartTypeOK, IntakeTypes
<1>1. CASE Starting
    BY <1>1, StartToggles DEF Starting
<1>2. CASE Crash
    BY <1>2, StartToggles DEF Crash
<1>3. CASE EditAuth
  <2>1. PICK b \in BOOLEAN : JobBecomes([job EXCEPT !.auth = b])
    BY <1>3 DEF EditAuth
  <2>2. job \in Jobs /\ None \notin Jobs
    BY <1>3, SecretAssumption DEF EditAuth, Inv, StartInv, StartTypeOK
  <2>3. /\ job' \in Jobs /\ job'.debug = job.debug /\ job'.webhook = job.webhook
    BY <2>1, <2>2 DEF JobBecomes, Jobs
  <2> QED
    BY <1>3, <2>2, <2>3 DEF EditAuth, ToggleInv, TogglesHold
<1>4. ASSUME NEW t \in Tabs, NEW o \in Options, Ask(t, o) PROVE ToggleInv'
  <2>1. settled' = None /\ alone' = (IF \A u \in Tabs : opc[u] = "idle" THEN {t} ELSE {})
    BY <1>4 DEF Ask
  <2>2. opc' = [opc EXCEPT ![t] = "debug"]
    BY <1>4 DEF Ask
  <2>3. \A u \in alone' : u = t /\ \A w \in Tabs \ {u} : opc'[w] = "idle"
    BY <1>0, <2>1, <2>2
  <2>4. opc'[t] = "debug"
    BY <1>0, <2>2
  <2> QED
    BY <2>1, <2>3, <2>4 DEF ToggleInv, TogglesHold
<1>5. ASSUME NEW t \in Tabs, OptionsFail(t) PROVE ToggleInv'
  <2>1. opc' = [opc EXCEPT ![t] = "idle"] /\ oreq' = [oreq EXCEPT ![t] = None]
        /\ UNCHANGED <<version, job, alone, settled>> /\ settled = None
    BY <1>5 DEF OptionsFail, ToggleInv
  <2>2. \A u \in Tabs : opc'[u] = "idle" \/ (UNCHANGED <<opc[u], oreq[u]>>)
    BY <1>0, <2>1
  <2> QED
    BY <1>0, <2>1, <2>2 DEF ToggleInv, TogglesHold
<1>6. ASSUME NEW t \in Tabs, SetDebug(t) PROVE ToggleInv'
  <2>1. /\ pc = "serving" /\ job \in Jobs /\ opc[t] = "debug"
        /\ oreq[t] \in Options /\ settled = None
    BY <1>0, <1>6 DEF SetDebug, Inv, ServeInv, IntakeTypes, ToggleInv
  <2>2. oreq[t].debug \in BOOLEAN
    BY <2>1, OptionAssumption
  <2>3. job' \in Jobs /\ job'.debug = oreq[t].debug
    BY <1>6, <2>1, <2>2 DEF SetDebug, JobBecomes, Jobs
  <2>4. CASE oreq[t].webhook = None
    BY <1>6, <2>1, <2>3, <2>4, ConfirmToggles DEF SetDebug
  <2>5. CASE oreq[t].webhook # None
    <3>1. opc' = [opc EXCEPT ![t] = "webhook"] /\ UNCHANGED <<alone, oreq, settled>>
      BY <1>6, <2>5 DEF SetDebug
    <3>2. \A u \in Tabs \ {t} : opc'[u] = opc[u]
      BY <1>0, <3>1
    <3>3. \A u \in alone \ {t} : opc[u] = "idle"
      BY <1>0, <2>1 DEF ToggleInv
    <3>4. t \in alone => \A u \in Tabs \ {t} : opc[u] = "idle"
      BY <2>1 DEF ToggleInv
    <3> QED
      BY <1>0, <2>1, <2>3, <3>1, <3>2, <3>3, <3>4 DEF ToggleInv, TogglesHold
  <2> QED
    BY <2>4, <2>5
<1>7. ASSUME NEW t \in Tabs, SetWebhook(t) PROVE ToggleInv'
  <2>1. /\ pc = "serving" /\ job \in Jobs /\ opc[t] = "webhook"
        /\ oreq[t] \in Options /\ oreq[t].webhook # None
    BY <1>0, <1>7 DEF SetWebhook, Inv, ServeInv, IntakeTypes
  <2>2. oreq[t].webhook \in BOOLEAN
    BY <2>1, OptionAssumption
  <2>3. job' \in Jobs /\ job'.debug = job.debug /\ job'.webhook = oreq[t].webhook
    BY <1>7, <2>1, <2>2 DEF SetWebhook, JobBecomes, Jobs
  <2>4. t \in alone => job.debug = oreq[t].debug
    BY <2>1 DEF ToggleInv
  <2> QED
    BY <1>7, <2>1, <2>3, <2>4, ConfirmToggles DEF SetWebhook
<1>8. CASE UNCHANGED <<version, job, opts>>
    BY <1>8 DEF ToggleInv, TogglesHold
<1> QED
    BY <1>1, <1>2, <1>3, <1>4, <1>5, <1>6, <1>7, <1>8 DEF Next, vars, Reconcile, HookStep,
       ReadJob, Resolve, AskGate, Write, HookFails, Arrive, OptionsStep

\* Confirmed options stay until others are asked for.
THEOREM TogglesAreKept == Spec => []TogglesHold
<1>1. Init => ToggleInv
    BY DEF Init, ToggleInv, TogglesHold
<1>2. ToggleInv => TogglesHold
    BY DEF ToggleInv
<1> QED
    BY <1>1, <1>2, Typed, TogglesKept, PTL DEF Spec

-----------------------------------------------------------------------------
(* Which starts succeed *)

\* The environment is looked at twice, and does not change under a process.
AdmittedInv ==
    /\ pc \notin {"down", "config"} => ~Refused(env)
    /\ pc = "serving" => env.cron

\* What Load, Validate, the label mode and AddFunc refuse is what the documents
\* say they do.
LEMMA RefusedIsDocumented ==
    ASSUME NEW e \in Envs
    PROVE  Documented(e) <=> ~Refused(e) /\ e.cron
<1>1. /\ e.required \in BOOLEAN /\ e.label \in BOOLEAN /\ e.cron \in BOOLEAN
      /\ e.poller \in BOOLEAN /\ e.ref \in BOOLEAN
    BY EnvAssumption
<1> QED
    BY <1>1 DEF Documented, Refused, TooShort

\* The steps that Startup does not know.
LEMMA ServingKeepsStart ==
    [Next]_vars /\ ~StartStep /\ ~Reconfigure /\ ~Dies => UNCHANGED <<pc, env, version, secret>>
    BY DEF Next, vars, Starting, Crash, Reconcile, EditAuth, HookStep, ReadJob, Resolve, AskGate,
       Write, HookFails, Arrive, OptionsStep, SetDebug, SetWebhook, OptionsFail, Ask

LEMMA AdmittedKept == Inv /\ AdmittedInv /\ [Next]_vars => AdmittedInv'
<1> SUFFICES ASSUME Inv, AdmittedInv, [Next]_vars PROVE AdmittedInv'
    OBVIOUS
<1>1. CASE StartStep
    BY <1>1 DEF StartStep, Boot, CheckConfig, Migrate, Seed, Generate, Override, Connect, Serve,
       AdmittedInv
<1>2. CASE Reconfigure \/ Dies
    BY <1>2 DEF Reconfigure, Dies, AdmittedInv
<1>3. CASE UNCHANGED <<pc, env>>
    BY <1>3 DEF AdmittedInv
<1> QED
    BY <1>1, <1>2, <1>3, ServingKeepsStart

\* Only an environment the documents allow is served with, and a process comes
\* down by itself only under one they rule out, or when it would log a secret
\* that is too short (config.go:102-255, 328-349; main.go:43-84, 197-214;
\* sqlite.go:170-207).  A start that was cut short is never the reason: whatever
\* it left in the database, the next one passes.
THEOREM StartsAreDecided ==
    Spec => /\ [](pc = "serving" => Documented(env))
            /\ [][(pc # "down" /\ pc' = "down" /\ ~Dies) => ~Documented(env) \/ Panics]_vars
<1>1. Init => AdmittedInv
    BY DEF Init, StartInit, AdmittedInv
<1>2. Inv => env \in Envs
    BY DEF Inv, StartInv, StartTypeOK
<1>3. Inv /\ AdmittedInv => (pc = "serving" => Documented(env))
    BY <1>2, RefusedIsDocumented DEF AdmittedInv
<1>4. Inv /\ AdmittedInv /\ [Next]_vars =>
        [(pc # "down" /\ pc' = "down" /\ ~Dies) => ~Documented(env) \/ Panics]_vars
  <2> SUFFICES ASSUME Inv, AdmittedInv, [Next]_vars, pc # "down", pc' = "down", ~Dies,
                      Documented(env)
               PROVE  Panics
      OBVIOUS
  <2>1. StartStep
      BY ServingKeepsStart DEF Reconfigure
  <2>2. ~Refused(env) /\ env.cron
      BY <1>2, RefusedIsDocumented
  <2> QED
      BY <2>1, <2>2 DEF StartStep, Boot, CheckConfig, Migrate, Seed, Generate, Override,
         Connect, Serve, Panics
<1> QED
    BY <1>1, <1>3, <1>4, Typed, AdmittedKept, PTL DEF Spec

\* The steps a start has still to take.
StartLeft ==
    CASE pc = "down"     -> Migrations + 8
      [] pc = "config"   -> Migrations + 7
      [] pc = "migrate"  -> Migrations - version + 6
      [] pc = "seed"     -> 5
      [] pc = "generate" -> 4
      [] pc = "override" -> 3
      [] pc = "docker"   -> 2
      [] pc = "cron"     -> 1
      [] OTHER           -> 0

\* A start that is neither refused nor killed comes nearer to serving with every
\* step, from whatever version the database has, and requests do not set it back.
THEOREM StartsAreBounded ==
    Spec => /\ [](StartLeft \in 0 .. Migrations + 8)
            /\ [][/\ StartStep /\ pc' # "down" => StartLeft' < StartLeft
                  /\ ~StartStep /\ ~Dies => StartLeft' = StartLeft]_vars
<1>1. Inv => StartLeft \in 0 .. Migrations + 8
    BY DEF Inv, StartInv, StartTypeOK, StartLeft, Migrations
<1>2. Inv /\ [Next]_vars =>
        [/\ StartStep /\ pc' # "down" => StartLeft' < StartLeft
         /\ ~StartStep /\ ~Dies => StartLeft' = StartLeft]_vars
  <2> SUFFICES ASSUME Inv, [Next]_vars
               PROVE  /\ StartStep /\ pc' # "down" => StartLeft' < StartLeft
                      /\ ~StartStep /\ ~Dies => StartLeft' = StartLeft
      OBVIOUS
  <2> USE DEF StartLeft, Migrations
  <2>1. version \in 0..4
      BY DEF Inv, StartInv, StartTypeOK
  <2>2. ASSUME StartStep, pc' # "down" PROVE StartLeft' < StartLeft
    <3>1. CASE Boot \/ CheckConfig \/ Seed \/ Generate \/ Override \/ Connect \/ Serve
        BY <2>1, <2>2, <3>1 DEF Boot, CheckConfig, Seed, Generate, Override, Connect, Serve
    <3>2. CASE Migrate
        BY <2>1, <3>2 DEF Migrate
    <3> QED
        BY <2>2, <3>1, <3>2 DEF StartStep
  <2>3. ASSUME ~StartStep, ~Dies PROVE StartLeft' = StartLeft
    <3>1. UNCHANGED <<pc, version>>
        BY <2>3, ServingKeepsStart DEF Reconfigure
    <3> QED
        BY <3>1
  <2> QED
      BY <2>2, <2>3
<1> QED
    BY <1>1, <1>2, Typed, PTL DEF Spec

===============================================================================
