-------------------------------- MODULE Startup --------------------------------
(***************************************************************************)
(* The start of the operator: run in src/cmd/main.go up to the moment the  *)
(* HTTP server listens, with what it does on the way to the environment    *)
(* (src/config) and to the database (statestore.New: migrations, the       *)
(* default job, the webhook secret).  A start may be refused, may fail or  *)
(* be killed between any two steps, and is then tried again by the         *)
(* container's restart policy, with the environment it had or another one. *)
(***************************************************************************)
EXTENDS Integers

CONSTANTS
    Envs,          \* environments: records of what the starts below look at
    Secrets,       \* values of webhook_secret and of ROP_WEBHOOK_SECRET
    Parts,         \* the tokens a secret lists, split at its commas
    Generated,     \* the secrets ensureWebhookSecret may generate
    Short,         \* the secrets of less than four bytes
    OldDatabases,  \* databases an earlier release may leave behind
    None,          \* no secret, no job
    MaxFaults,     \* bound: starts that fail, crashes, failing calls
    MaxEdits       \* bound: changes of the environment

Migrations == 4
Jobs == [webhook : BOOLEAN, auth : BOOLEAN, debug : BOOLEAN]
Durations == {"long", "short", "off"}

ASSUME EnvAssumption ==
    Envs \subseteq
        [required : BOOLEAN,   \* ROP_PLATFORM_ENDPOINT, RENOVATE_TOKEN, extra hosts
         poller : BOOLEAN,     \* ROP_CHECK_UPDATE_RUNNER_IMAGE
         ref : BOOLEAN,        \* ROP_IMAGE can be parsed
         ttl : Durations,      \* ROP_IMAGE_CACHE_TTL: short is below 15 minutes
         interval : Durations \cup {"unset"},  \* ROP_IMAGE_UPDATE_POLL_INTERVAL
         label : BOOLEAN,      \* ROP_METRICS_PROJECT_LABEL is one of its values
         cron : BOOLEAN,       \* ROP_CRON_SCHEDULE can be parsed
         webhook : BOOLEAN,    \* ROP_WEBHOOK_ENABLED
         secret : Secrets \cup {None}]
ASSUME SecretAssumption ==
    /\ None \notin Secrets /\ None \notin Jobs
    /\ Generated \subseteq Secrets \ Short
    /\ DOMAIN Parts = Secrets
ASSUME OldAssumption ==
    OldDatabases \subseteq
        [version : 1..Migrations, job : Jobs \cup {None}, secret : Secrets \cup {None}]
ASSUME StartBoundAssumption == MaxFaults \in Nat /\ MaxEdits \in Nat

VARIABLES
    version,   \* MAX(version) in schema_migrations
    job,       \* the row "default" of renovate_jobs
    secret,    \* webhook_secret in settings
    env,       \* the environment of the process
    pc,        \* how far run is
    tokens,    \* SQLiteStore.webhookTokens
    faults, edits

database == <<version, job, secret>>
startup  == <<database, env, pc, tokens, faults, edits>>

Fault == faults < MaxFaults /\ faults' = faults + 1

-----------------------------------------------------------------------------
(* Configuration *)

\* The interval defaults to the TTL of the image cache.
Interval(e) == IF e.interval = "unset" THEN e.ttl ELSE e.interval

\* Mutant: zero, which means one poll at the start, counts as too short.
NotLong(i)  == i # "long"
TooShort(i) == i = "short"

\* Load's required variables, Validate and ParseProjectLabelMode.
Refused(e) ==
    \/ ~e.required
    \/ e.poller /\ (~e.ref \/ TooShort(Interval(e)))
    \/ ~e.label

\* The restart policy starts the container again as it was, or it is created
\* anew with another environment.
Boot ==
    /\ pc = "down" /\ pc' = "config"
    /\ UNCHANGED <<database, env, tokens, faults, edits>>
Reconfigure ==
    /\ pc = "down"
    /\ edits < MaxEdits /\ edits' = edits + 1
    /\ env' \in Envs \ {env}
    /\ UNCHANGED <<database, pc, tokens, faults>>

CheckConfig ==
    /\ pc = "config"
    /\ pc' = IF Refused(env) THEN "down" ELSE "migrate"
    /\ UNCHANGED <<database, env, tokens, faults, edits>>

-----------------------------------------------------------------------------
(* statestore.New *)

\* Mutant: the transaction does not record what it applied.
MigrateForgetful ==
    /\ pc = "migrate"
    /\ job' = IF job # None THEN [job EXCEPT !.debug = TRUE] ELSE None
    /\ version' = Migrations /\ pc' = "seed"
    /\ UNCHANGED <<secret, env, tokens, faults, edits>>
\* One transaction each; the second turns debug logging on for the job.
Migrate ==
    /\ pc = "migrate"
    /\ IF version < Migrations
         THEN /\ version' = version + 1
              /\ job' = IF version' = 2 /\ job # None
                          THEN [job EXCEPT !.debug = TRUE] ELSE job
              /\ UNCHANGED pc
         ELSE pc' = "seed" /\ UNCHANGED <<version, job>>
    /\ UNCHANGED <<secret, env, tokens, faults, edits>>

\* The environment decides about webhooks only here, when there is no job yet.
Seed ==
    /\ pc = "seed" /\ pc' = "generate"
    /\ job' = IF job = None
                THEN [webhook |-> env.webhook, auth |-> FALSE, debug |-> TRUE]
                ELSE job
    /\ UNCHANGED <<version, secret, env, tokens, faults, edits>>

\* Mutant: a stored secret is not looked for.
GenerateAlways ==
    /\ pc = "generate" /\ pc' = "override"
    /\ secret' \in Generated
    /\ UNCHANGED <<version, job, env, tokens, faults, edits>>
Generate ==
    /\ pc = "generate" /\ pc' = "override"
    /\ IF secret = None THEN secret' \in Generated ELSE UNCHANGED secret
    /\ UNCHANGED <<version, job, env, tokens, faults, edits>>

\* Mutant: a secret of the environment is used and not stored.
OverrideInMemory ==
    /\ pc = "override" /\ pc' = "docker"
    /\ tokens' = Parts[IF env.secret = None THEN secret ELSE env.secret]
    /\ UNCHANGED <<database, env, faults, edits>>
\* The environment's secret is stored; the log line for a stored one slices off
\* its first four bytes, which panics when it has fewer.
Override ==
    /\ pc = "override"
    /\ secret' = IF env.secret = None THEN secret ELSE env.secret
    /\ IF env.secret = None /\ secret \in Short
         THEN pc' = "down" /\ UNCHANGED tokens
         ELSE pc' = "docker" /\ tokens' = Parts[secret']
    /\ UNCHANGED <<version, job, env, faults, edits>>

-----------------------------------------------------------------------------
(* The rest of run *)

\* executor.New, Ping and Start.
Connect ==
    /\ pc = "docker" /\ pc' = "cron"
    /\ UNCHANGED <<database, env, tokens, faults, edits>>

\* AddFunc: a schedule that cannot be parsed ends a process whose executor runs.
Serve ==
    /\ pc = "cron"
    /\ IF env.cron THEN pc' = "serving" /\ UNCHANGED tokens
                   ELSE pc' = "down" /\ tokens' = {}
    /\ UNCHANGED <<database, env, faults, edits>>

\* A call of the start fails, or the process is killed, at any point.
Dies ==
    /\ pc # "down" /\ Fault
    /\ pc' = "down" /\ tokens' = {}
    /\ UNCHANGED <<database, env, edits>>

StartInit ==
    /\ \/ version = 0 /\ job = None /\ secret = None
       \/ \E old \in OldDatabases :
             version = old.version /\ job = old.job /\ secret = old.secret
    /\ env \in Envs /\ pc = "down" /\ tokens = {}
    /\ faults = 0 /\ edits = 0

StartStep ==
    \/ Boot \/ CheckConfig \/ Migrate \/ Seed \/ Generate \/ Override \/ Connect
    \/ Serve

-----------------------------------------------------------------------------
(* Properties *)

StartTypeOK ==
    /\ version \in 0..Migrations
    /\ job \in Jobs \cup {None}
    /\ secret \in Secrets \cup {None}
    /\ env \in Envs
    /\ pc \in {"down", "config", "migrate", "seed", "generate", "override", "docker",
               "cron", "serving"}
    /\ tokens \subseteq UNION {Parts[s] : s \in Secrets}
    /\ faults \in Nat /\ edits \in Nat

\* What the README and the hint in the log let an administrator read from the
\* database is what the process accepts, however it came there: generated, stored
\* from an earlier environment, or from this one (README.md:194).
SecretShown == pc = "serving" => secret # None /\ tokens = Parts[secret]

\* A secret that Forgejo has been given is never replaced by one that nobody has
\* seen: crashes between its steps included, only the environment changes it.
SecretStable ==
    [][(secret # None /\ secret' # secret) => secret' = env.secret]_startup

\* The documents' conditions on an environment, and the one they do not have.
Documented(e) ==
    /\ e.required /\ e.label /\ e.cron
    /\ e.poller => e.ref /\ Interval(e) # "short"
Panics == secret \in Short /\ env.secret = None

\* However often starts fail and whatever they leave in the database, the operator
\* serves in the end, unless its environment is one that the documents rule out
\* or the stored secret is too short to be logged.
EventuallyServes == <>[](pc = "serving" \/ ~Documented(env) \/ Panics)
===============================================================================
