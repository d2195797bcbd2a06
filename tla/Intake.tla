-------------------------------- MODULE Intake --------------------------------
(***************************************************************************)
(* The requests that come in once Startup has got the server to listen:    *)
(* the webhook handlers (src/internal/webhook/forgejo.go), which resolve   *)
(* and authenticate against what they read of the job and its rows, and    *)
(* the endpoint that sets the job's options (updateExecutionOptions), in   *)
(* between discoveries that add and remove rows and an administrator who   *)
(* edits the database as the handlers' error message and docs suggest.     *)
(*                                                                         *)
(* Each statement on the database is a step; the reads of one request are  *)
(* not one snapshot.  What a scheduled row leads to is the subject of Gate *)
(* and Executor.                                                           *)
(***************************************************************************)
EXTENDS Startup

CONSTANTS
    Projects,     \* the repositories of the provider
    Handlers,     \* webhook requests that are served at a time
    Hooks,        \* requests: records, see below
    Tabs,         \* options requests that are served at a time
    Options,      \* what they ask for
    Tokens,       \* what requests are signed with, or carry
    MaxRequests,  \* bound: requests
    MaxChanges    \* bound: reconciled discoveries and edits of the database

ASSUME HookAssumption ==
    Hooks \subseteq [gated : BOOLEAN,         \* /forgejo asks the manager, /schedule not
                     named : BOOLEAN,         \* the job parameter is absent or "default"
                     project : Projects,
                     creds : SUBSET Tokens]   \* one for each header it carries
ASSUME OptionAssumption ==
    Options \subseteq [debug : BOOLEAN, webhook : BOOLEAN \cup {None}]
ASSUME IntakeBoundAssumption ==
    /\ None \notin BOOLEAN /\ None \notin Hooks /\ None \notin Options
    /\ MaxRequests \in Nat /\ MaxChanges \in Nat

VARIABLES
    listed,     \* the projects that have a row
    hpc, hreq,  \* each webhook handler and its request
    hjob,       \* the job as findAndAuthenticateJob has read it
    answer,     \* what the handler has answered
    granted,    \* history: since it arrived, the job would have taken the request
    denied,     \* history: ... would not have taken it
    opc, oreq,  \* each options request
    alone,      \* history: the options requests no other one has overlapped
    settled,    \* history: the options last confirmed to such a request
    requests, changes

hooks   == <<hpc, hreq, hjob, answer, granted, denied>>
opts    == <<opc, oreq, alone, settled>>
counts  == <<requests, changes>>
vars    == <<startup, listed, hooks, opts, counts>>

Request == requests < MaxRequests /\ requests' = requests + 1
Change  == changes < MaxChanges /\ changes' = changes + 1

-----------------------------------------------------------------------------
(* The decision *)

\* What the job should do with a request, going by the database alone.
Takes(j, r) ==
    j # None /\ j.webhook /\ (j.auth => r.creds \cap Parts[secret] # {})

\* The job becomes j: what that means for the requests being served is noted.
JobBecomes(j) ==
    /\ job' = j
    /\ granted' = [h \in Handlers |->
                      granted[h] \/ (hpc[h] # "idle" /\ Takes(j, hreq[h]))]
    /\ denied' = [h \in Handlers |->
                      denied[h] \/ (hpc[h] # "idle" /\ ~Takes(j, hreq[h]))]

\* authenticate: one of the five headers is enough.
Authenticated(h) == hreq[h].creds \cap tokens # {}

\* Mutant: whether authentication is on is looked up when it is due.
UnlockedNow(h) == ~job.auth \/ Authenticated(h)
Unlocked(h)    == ~hjob[h].auth \/ Authenticated(h)

-----------------------------------------------------------------------------
(* HandleForgejo and HandleSchedule *)

Arrive(h, r) ==
    /\ pc = "serving" /\ hpc[h] = "idle" /\ Request
    /\ hpc' = [hpc EXCEPT ![h] = "job"]
    /\ hreq' = [hreq EXCEPT ![h] = r]
    /\ answer' = [answer EXCEPT ![h] = "none"]
    /\ granted' = [granted EXCEPT ![h] = Takes(job, r)]
    /\ denied' = [denied EXCEPT ![h] = ~Takes(job, r)]
    /\ UNCHANGED <<startup, listed, hjob, opts, changes>>

\* ListRenovateJobsFull: the jobs ...
ReadJob(h) ==
    /\ hpc[h] = "job"
    /\ hjob' = [hjob EXCEPT ![h] = job]
    /\ hpc' = [hpc EXCEPT ![h] = "rows"]
    /\ UNCHANGED <<startup, listed, hreq, answer, granted, denied, opts, counts>>

Answers(h, a) ==
    /\ answer' = [answer EXCEPT ![h] = a]
    /\ hpc' = [hpc EXCEPT ![h] = "idle"]
    /\ hreq' = [hreq EXCEPT ![h] = None]
    /\ hjob' = [hjob EXCEPT ![h] = None]

\* ... and their rows, with the decision of filterCandidates and authenticate
\* on the two.
Resolve(h) ==
    /\ hpc[h] = "rows"
    /\ LET r == hreq[h]
       IN \/ ~r.named /\ Answers(h, "no such job")
          \/ r.named /\ ~hjob[h].webhook /\ Answers(h, "disabled")
          \/ /\ r.named /\ hjob[h].webhook /\ r.project \notin listed
             /\ Answers(h, "not discovered")
          \/ /\ r.named /\ hjob[h].webhook /\ r.project \in listed
             /\ IF Unlocked(h)
                  THEN /\ hpc' = [hpc EXCEPT ![h] = IF r.gated THEN "gate" ELSE "write"]
                       /\ UNCHANGED <<answer, hreq, hjob>>
                  ELSE Answers(h, "unauthorized")
    /\ UNCHANGED <<startup, listed, granted, denied, opts, counts>>

\* AllowDispatch, and the replay queue when it denies: see Gate.
AskGate(h) ==
    /\ hpc[h] = "gate"
    /\ \/ hpc' = [hpc EXCEPT ![h] = "write"] /\ UNCHANGED <<answer, hreq, hjob>>
       \/ Answers(h, "queued")
       \/ Answers(h, "queue full")
    /\ UNCHANGED <<startup, listed, granted, denied, opts, counts>>

\* UpdateProjectStatus; no row affected means ErrProjectNotFound.
Write(h) ==
    /\ hpc[h] = "write"
    /\ Answers(h, IF hreq[h].project \in listed THEN "scheduled" ELSE "not found")
    /\ UNCHANGED <<startup, listed, granted, denied, opts, counts>>

\* A statement fails: 500.
HookFails(h) ==
    /\ hpc[h] \in {"job", "rows", "write"} /\ Fault
    /\ Answers(h, "failed")
    /\ UNCHANGED <<database, env, pc, tokens, edits, listed, granted, denied,
                   opts, counts>>

-----------------------------------------------------------------------------
(* updateExecutionOptions *)

Ask(t, o) ==
    /\ pc = "serving" /\ opc[t] = "idle" /\ Request
    /\ opc' = [opc EXCEPT ![t] = "debug"]
    /\ oreq' = [oreq EXCEPT ![t] = o]
    /\ alone' = IF \A u \in Tabs : opc[u] = "idle" THEN {t} ELSE {}
    /\ settled' = None
    /\ UNCHANGED <<startup, listed, hooks, changes>>

Confirmed(t) ==
    /\ opc' = [opc EXCEPT ![t] = "idle"]
    /\ oreq' = [oreq EXCEPT ![t] = None]
    /\ settled' = IF t \in alone THEN oreq[t] ELSE None

\* UpdateExecutionOptions; without webhookEnabled in the request that is all.
SetDebug(t) ==
    /\ opc[t] = "debug"
    /\ JobBecomes([job EXCEPT !.debug = oreq[t].debug])
    /\ IF oreq[t].webhook = None
         THEN Confirmed(t)
         ELSE opc' = [opc EXCEPT ![t] = "webhook"] /\ UNCHANGED <<oreq, settled>>
    /\ UNCHANGED <<version, secret, env, pc, tokens, faults, edits, listed,
                   hpc, hreq, hjob, answer, alone, counts>>

\* UpdateWebhookEnabled, a statement of its own.
SetWebhook(t) ==
    /\ opc[t] = "webhook"
    /\ JobBecomes([job EXCEPT !.webhook = oreq[t].webhook])
    /\ Confirmed(t)
    /\ UNCHANGED <<version, secret, env, pc, tokens, faults, edits, listed,
                   hpc, hreq, hjob, answer, alone, counts>>

\* Either statement fails: 500, and the first is not undone.
OptionsFail(t) ==
    /\ opc[t] # "idle" /\ Fault
    /\ opc' = [opc EXCEPT ![t] = "idle"]
    /\ oreq' = [oreq EXCEPT ![t] = None]
    /\ UNCHANGED <<database, env, pc, tokens, edits, listed, hooks, alone, settled, counts>>

-----------------------------------------------------------------------------
(* What goes on around them *)

\* A discovery's ReconcileProjects.
Reconcile ==
    /\ pc = "serving" /\ Change
    /\ listed' \in (SUBSET Projects) \ {listed}
    /\ UNCHANGED <<startup, hooks, opts, requests>>

\* webhook_auth_enabled has no endpoint: it is set in the database.
EditAuth ==
    /\ job # None /\ Change
    /\ \E b \in BOOLEAN : JobBecomes([job EXCEPT !.auth = b])
    /\ UNCHANGED <<version, secret, env, pc, tokens, faults, edits, listed,
                   hpc, hreq, hjob, answer, opts, requests>>

Starting ==
    /\ StartStep \/ Reconfigure
    /\ UNCHANGED <<listed, hooks, opts, counts>>

\* With the process go the requests it serves; they are not answered.
Crash ==
    /\ Dies
    /\ hpc' = [h \in Handlers |-> "idle"]
    /\ hreq' = [h \in Handlers |-> None]
    /\ hjob' = [h \in Handlers |-> None]
    /\ opc' = [t \in Tabs |-> "idle"]
    /\ oreq' = [t \in Tabs |-> None]
    /\ UNCHANGED <<listed, answer, granted, denied, alone, settled, counts>>

Init ==
    /\ StartInit
    /\ listed = {}
    /\ hpc = [h \in Handlers |-> "idle"] /\ hreq = [h \in Handlers |-> None]
    /\ hjob = [h \in Handlers |-> None] /\ answer = [h \in Handlers |-> "none"]
    /\ granted = [h \in Handlers |-> FALSE] /\ denied = [h \in Handlers |-> FALSE]
    /\ opc = [t \in Tabs |-> "idle"] /\ oreq = [t \in Tabs |-> None]
    /\ alone = {} /\ settled = None
    /\ requests = 0 /\ changes = 0

HookStep(h) ==
    ReadJob(h) \/ Resolve(h) \/ AskGate(h) \/ Write(h) \/ HookFails(h)
OptionsStep(t) == SetDebug(t) \/ SetWebhook(t) \/ OptionsFail(t)

Next ==
    \/ Starting \/ Crash \/ Reconcile \/ EditAuth
    \/ \E h \in Handlers : HookStep(h) \/ \E r \in Hooks : Arrive(h, r)
    \/ \E t \in Tabs : OptionsStep(t) \/ \E o \in Options : Ask(t, o)

\* The restart policy brings the process back, and run goes on.
Spec == Init /\ [][Next]_vars /\ WF_vars(Starting /\ StartStep)

-----------------------------------------------------------------------------
(* Properties *)

IntakeTypeOK ==
    /\ StartTypeOK
    /\ listed \subseteq Projects
    /\ hpc \in [Handlers -> {"idle", "job", "rows", "gate", "write"}]
    /\ hreq \in [Handlers -> Hooks \cup {None}]
    /\ hjob \in [Handlers -> Jobs \cup {None}]
    /\ answer \in [Handlers -> {"none", "no such job", "disabled", "not discovered",
                                "unauthorized", "queued", "queue full", "scheduled",
                                "not found", "failed"}]
    /\ granted \in [Handlers -> BOOLEAN] /\ denied \in [Handlers -> BOOLEAN]
    /\ opc \in [Tabs -> {"idle", "debug", "webhook"}]
    /\ oreq \in [Tabs -> Options \cup {None}]
    /\ alone \subseteq Tabs /\ settled \in Options \cup {None}
    /\ requests \in Nat /\ changes \in Nat

\* A webhook is decided upon as the job stood at one moment while it was served,
\* going by the secret in the database, whatever toggles, edits and rotations went
\* on around it: after a toggle off has been answered nothing that arrives is
\* scheduled or queued, and a request signed with any of the listed secrets is
\* not turned away (README.md:151).
DecisionsStand ==
    \A h \in Handlers :
        /\ answer[h] \in {"scheduled", "queued"} => granted[h]
        /\ answer[h] \in {"disabled", "unauthorized"} => denied[h]

\* Options that were confirmed to a request no other one overlapped stay, across
\* crashes, upgrades of the database and starts under another ROP_WEBHOOK_ENABLED,
\* until somebody asks for others.
TogglesHold ==
    settled # None =>
        /\ job # None /\ job.debug = settled.debug
        /\ settled.webhook # None => job.webhook = settled.webhook
===============================================================================
