--------------------------------- MODULE Rollout ---------------------------------
(***************************************************************************)
(* How the rows of the table reminders come to be there.  A release adds   *)
(* some: its migrations copy them into a table that is seeded already, and *)
(* its process inserts the whole set on first boot into an empty one.  The *)
(* deployment migrates first and then starts the new revision, while the   *)
(* old one runs on until the new one is healthy, so the two ways meet.     *)
(***************************************************************************)
EXTENDS Naturals

CONSTANTS
    Target,        \* channels and roles the secrets may name
    Nowhere,       \* a secret, the guild, the channel or the role is missing
    NoRow,
    MaxDeploys,    \* bound: deployments
    MaxFaults      \* bound: stops, failing jobs, changes of the channel

FirstRows == {"Hydra", "Chimera"}
TankWeekRows == {"Hydra Tank Week Heads-up", "Hydra Tank Week End"}
SiegeRows == {"Siege 48h Heads-up", "Siege 24h Heads-up"}

\* The rows each release adds; the third release is this repository.
Release == 1 .. 3
Adds == <<FirstRows, TankWeekRows, SiegeRows>>
Name == FirstRows \cup TankWeekRows \cup SiegeRows

ASSUME RolloutAssumption ==
    /\ MaxDeploys \in Nat /\ MaxFaults \in Nat
    /\ NoRow \notin Target /\ Nowhere \notin Target

VARIABLES
    row,        \* reminders: the target of each row
    schema,     \* the release up to which migrations are committed
    named,      \* what the secrets name in the guild
    pipeline,   \* the deployment under way
    process,    \* the container of each revision
    active,     \* the newest revision
    staged,     \* what a session that adds rows by hand is about to commit
    late,       \* history: a process seeded after the migrations of a later one
    deploys, faults

vars == <<row, schema, named, pipeline, process, active, staged, late, deploys, faults>>

ProcessState == {"off", "boot", "counted", "running", "failed"}

TypeOK ==
    /\ row \in [Name -> Target \cup {NoRow}]
    /\ schema \in 0 .. 3
    /\ named \in Target \cup {Nowhere}
    /\ pipeline \in [at : {"idle", "migrate", "update", "wait"}, release : 0 .. 3]
    /\ process \in [Release -> ProcessState]
    /\ active \in 0 .. 3
    /\ staged \subseteq Name
    /\ late \in BOOLEAN
    /\ deploys \in 0 .. MaxDeploys /\ faults \in 0 .. MaxFaults

\* What _maybe_seed_reminders of a release inserts.
Seeds(r) == UNION {Adds[i] : i \in 1 .. r}

Rows == {n \in Name : row[n] # NoRow}

Idle == [at |-> "idle", release |-> 0]

Init ==
    /\ row = [n \in Name |-> NoRow]
    /\ schema = 0
    /\ named \in Target \cup {Nowhere}
    /\ pipeline = Idle
    /\ process = [r \in Release |-> "off"]
    /\ active = 0
    /\ staged = {}
    /\ late = FALSE
    /\ deploys = 0 /\ faults = 0

SpendFault == faults < MaxFaults /\ faults' = faults + 1

--------------------------------------------------------------------------------
(* The workflow: migrations job, update of the app, wait for readiness.    *)

\* Any commit may be deployed, an older one too.
Deploy(r) ==
    /\ pipeline = Idle /\ deploys < MaxDeploys
    /\ pipeline' = [at |-> "migrate", release |-> r]
    /\ deploys' = deploys + 1
    /\ UNCHANGED <<row, schema, named, process, active, staged, late, faults>>

Filled(target, first, last) ==
    [n \in Name |-> IF row[n] = NoRow /\ \E i \in first .. last : n \in Adds[i]
                      THEN target ELSE row[n]]

\* Mutants of Copied: the target is looked up again; only the rows of the
\* newest release are inserted.
CopiedFromSecrets(first, last) ==
    IF row["Hydra"] = NoRow \/ named = Nowhere THEN row ELSE Filled(named, first, last)
CopiedLast(first, last) == IF row["Hydra"] = NoRow THEN row ELSE Filled(row["Hydra"], last, last)

\* What the data migrations of releases first .. last leave: copies of Hydra's
\* target, each unless there is a row of that name; without Hydra nothing.
Copied(first, last) == IF row["Hydra"] = NoRow THEN row ELSE Filled(row["Hydra"], first, last)

\* ALTER TABLE waits for whoever has read the table in a transaction.
NoReader == staged = {} /\ \A q \in Release : process[q] # "counted"

\* alembic upgrade head: all pending revisions in one transaction.
Migrate ==
    /\ pipeline.at = "migrate" /\ schema <= pipeline.release
    /\ NoReader
    /\ row' = Copied(schema + 1, pipeline.release)
    /\ schema' = pipeline.release
    /\ pipeline' = [pipeline EXCEPT !.at = "update"]
    /\ UNCHANGED <<named, process, active, staged, late, deploys, faults>>

\* The job fails and ends the workflow: a revision of the database that the
\* image does not know, or any error; the transaction is rolled back.
MigrateFails ==
    /\ pipeline.at = "migrate"
    /\ IF schema > pipeline.release THEN UNCHANGED faults ELSE SpendFault
    /\ pipeline' = Idle
    /\ UNCHANGED <<row, schema, named, process, active, staged, late, deploys>>

\* The new revision starts next to the old one.
Update ==
    /\ pipeline.at = "update"
    /\ pipeline' = [pipeline EXCEPT !.at = "wait"]
    /\ active' = pipeline.release
    /\ process' = IF process[active'] = "off" THEN [process EXCEPT ![active'] = "boot"] ELSE process
    /\ UNCHANGED <<row, schema, named, staged, late, deploys, faults>>

\* Healthy, or ten minutes have passed; nothing is rolled back.
Waited ==
    /\ pipeline.at = "wait"
    /\ pipeline' = Idle
    /\ UNCHANGED <<row, schema, named, process, active, staged, late, deploys, faults>>

\* The platform stops the older revisions once the new one is healthy.
Retire(q) ==
    /\ q # active /\ process[q] # "off" /\ process[active] = "running"
    /\ process' = [process EXCEPT ![q] = "off"]
    /\ UNCHANGED <<row, schema, named, pipeline, active, staged, late, deploys, faults>>

--------------------------------------------------------------------------------
(* The process of a revision: _start_reminders_after_ready.                *)

Goes(r, pc) == process' = [process EXCEPT ![r] = pc]

\* The secrets are there, and the guild, the channel and the role they name.
Resolved == named # Nowhere

\* Mutant of MustSeed: rows of this release are missing.
MustComplete(r) == ~(Seeds(r) \subseteq Rows)

MustSeed(r) == Rows = {}

\* SELECT count(*); the transaction stays open while secrets are loaded.
Count(r) ==
    /\ process[r] = "boot"
    /\ Goes(r, IF MustSeed(r) THEN "counted" ELSE "running")
    /\ UNCHANGED <<row, schema, named, pipeline, active, staged, late, deploys, faults>>

\* ConfigError: the task of the reminders ends.
Unresolved(r) ==
    /\ process[r] = "counted" /\ ~Resolved
    /\ Goes(r, "failed")
    /\ UNCHANGED <<row, schema, named, pipeline, active, staged, late, deploys, faults>>

\* The rows of the release in one commit, or UNIQUE(name) refuses them all.
Insert(r) ==
    /\ process[r] = "counted" /\ Resolved
    /\ IF Rows \cap Seeds(r) = {}
         THEN /\ row' = [n \in Name |-> IF n \in Seeds(r) THEN named ELSE row[n]]
              /\ late' = (late \/ schema > r)
              /\ Goes(r, "running")
         ELSE Goes(r, "failed") /\ UNCHANGED <<row, late>>
    /\ UNCHANGED <<schema, named, pipeline, active, staged, deploys, faults>>

\* No heartbeat: the liveness probe has the container restarted.
Restart(r) ==
    /\ process[r] = "failed"
    /\ Goes(r, "boot")
    /\ UNCHANGED <<row, schema, named, pipeline, active, staged, late, deploys, faults>>

\* A process stops, between its statements too; the platform starts it again.
Crash(r) ==
    /\ process[r] \in {"counted", "running"} /\ SpendFault
    /\ Goes(r, "boot")
    /\ UNCHANGED <<row, schema, named, pipeline, active, staged, late, deploys>>

\* seed_tank_week_reminders and seed_siege_reminders, called by hand: what is
\* missing of a release's rows, if Hydra is there to copy from.
Missing(r) == {n \in Adds[r] : row["Hydra"] # NoRow /\ row[n] = NoRow}

Stage(r) ==
    /\ staged = {} /\ r \in 2 .. schema
    /\ staged' = Missing(r)
    /\ UNCHANGED <<row, schema, named, pipeline, process, active, late, deploys, faults>>

\* Mutant of Committed: one commit for each row.
CommittedOne == {{n} : n \in staged}

Committed == {staged}

\* One commit, or the session is lost.
CommitStaged ==
    /\ staged # {}
    /\ \/ /\ \E names \in Committed :
             /\ row' = [n \in Name |-> IF n \in names THEN row["Hydra"] ELSE row[n]]
             /\ staged' = staged \ names
          /\ UNCHANGED faults
       \/ SpendFault /\ staged' = {} /\ UNCHANGED row
    /\ UNCHANGED <<schema, named, pipeline, process, active, late, deploys>>

\* The channel or the role is renamed, deleted, or made again.
Rename(t) ==
    /\ t # named /\ SpendFault
    /\ named' = t
    /\ UNCHANGED <<row, schema, pipeline, process, active, staged, late, deploys>>

Next ==
    \/ \E r \in Release : Deploy(r)
    \/ Migrate
    \/ MigrateFails
    \/ Update
    \/ Waited
    \/ \E q \in Release : Retire(q)
    \/ \E r \in Release : Count(r)
    \/ \E r \in Release : Unresolved(r)
    \/ \E r \in Release : Insert(r)
    \/ \E r \in Release : Restart(r)
    \/ \E r \in Release : Crash(r)
    \/ \E r \in Release : Stage(r)
    \/ CommitStaged
    \/ \E t \in Target \cup {Nowhere} : Rename(t)

Spec == Init /\ [][Next]_vars

\* Everything waits at most for a synchronous step, a probe or a timeout; the
\* operator deploys, renames and stops at will.
FairSpec ==
    /\ Spec
    /\ WF_vars(CommitStaged) /\ WF_vars(Migrate) /\ WF_vars(Update) /\ WF_vars(Waited)
    /\ \A r \in Release : /\ WF_vars(Count(r)) /\ WF_vars(Unresolved(r))
                          /\ WF_vars(Insert(r)) /\ WF_vars(Restart(r))

--------------------------------------------------------------------------------
(* Properties.                                                             *)

\* Two first boots, or a first boot and a migration, leave no half of a set:
\* rows that one release adds are there together, Hydra's with any others,
\* and all of them name one channel and one role, wherever that has moved
\* between the statements.
RowsBelongTogether ==
    /\ \A m, n \in Rows : row[m] = row[n]
    /\ \A r \in Release : Adds[r] \subseteq Rows \/ Adds[r] \cap Rows = {}
    /\ Rows # {} => "Hydra" \in Rows

\* A process that runs finds every reminder its release knows of, whichever
\* way a row was to come, unless an older release seeded after the migrations
\* (which then had no Hydra to copy from).
ReleaseIsComplete ==
    ~late => \A r \in Release : process[r] = "running" => Seeds(r) \subseteq Rows

\* A process that lost the race for the first boot, or could not resolve the
\* channel, starts again and comes to run once the secrets name something.
ServesAgain ==
    <>[](named # Nowhere /\ active # 0) => []<>(active # 0 /\ process[active] = "running")
================================================================================
