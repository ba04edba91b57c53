-------------------------- MODULE PostgresMigration --------------------------
(***************************************************************************)
(* The migration of one service from SQLite to PostgreSQL                  *)
(* (utils/arr_postgres_migration.py): the admission of a job, the thread   *)
(* that carries it out, its automatic rollback, the rollback an operator   *)
(* asks for, and what a restart of DUMB makes of a job it interrupts.      *)
(*                                                                         *)
(* Three kinds of service are treated differently:                         *)
(*   "infinidysk"  guarded: a rehearsal first, a private copy of the       *)
(*                 settings for the schema, a durable authorization that   *)
(*                 every start consults, lifecycle requests refused;       *)
(*   "arr"         keeps its database in a config.xml of its own, which    *)
(*                 DUMB writes only when PostgreSQL is enabled and adopts  *)
(*                 when it boots;                                          *)
(*   "plain"       has its own settings rewritten from DUMB's whenever it  *)
(*                 is started.                                             *)
(***************************************************************************)
EXTENDS Naturals, FiniteSets

CONSTANTS
  Kinds,       \* the kinds of service of which one is migrated
  Jobs,        \* identifiers of jobs, 1..n, handed out in order
  OpenKinds,   \* kinds whose settings and process others touch during a job
  CrashKinds,  \* kinds with which DUMB is killed
  FaultAt,     \* for each kind the steps that may raise
  MaxFaults, MaxCrashes, MaxUpgrades

ASSUME PostgresAssumption ==
  /\ Kinds \subseteq {"infinidysk", "arr", "plain"} /\ Kinds # {}
  /\ OpenKinds \subseteq Kinds /\ CrashKinds \subseteq Kinds
  /\ MaxFaults \in Nat /\ MaxCrashes \in Nat /\ MaxUpgrades \in Nat
  /\ IsFiniteSet(Jobs) /\ Jobs = 1..Cardinality(Jobs)

VARIABLES
  kind,     \* which kind of service this is
  disk,     \* the database dumb_config.json selects
  mem,      \* the database the configuration in memory selects
  app,      \* the database the service's own settings select
  target,   \* what the service's database in PostgreSQL holds
  stage,    \* the jobs whose staging databases exist
  marker,   \* the durable authorization of a completed cutover
  up,       \* the database the running service uses, "down" when it does not run
  job,      \* the record of each job
  latest,   \* the job saved last
  bk,       \* what each job has in its backup directory
  pc,       \* where the thread of each job is
  loc,      \* what that thread remembers
  busy,     \* _active_processes holds the service
  late,     \* where a worker is that had not ended when its job's rollback was
  kept,     \* reserved, and the record it has still to save
  ns,       \* a namespace migration is active
  binding,  \* installed version, launch settings and schema
  fresh,    \* jobs whose snapshot holds all that SQLite holds
  slips,    \* what went wrong that no step notices (history, read by no step)
  faults, crashes

world == <<disk, mem, app, target, stage, marker, up>>
records == <<job, latest, bk>>
tail == <<late, kept, slips>>
bounds == <<faults, crashes>>
vars == <<kind, world, records, pc, loc, busy, tail, ns, binding, fresh, bounds>>

\* A database of PostgreSQL: not there, with tables, without rows; then with fewer rows
\* than were read, with as many but not the same, or with the same.
Contents == {"none", "schema", "empty", "short", "changed", "whole"}
Databases == {"sqlite", "stage", "postgres"}
Active == {"queued", "running", "finalizing", "rolling_back"}
Statuses == Active \cup {"none", "completed", "failed", "failed_rolled_back",
                         "rolled_back", "interrupted", "rollback_failed"}
Forward == {"begin", "config_backup", "stop", "snapshot", "checkpoint", "stage",
            "schema", "schema_done", "switch", "prepare", "rows", "sequences", "counts",
            "digests", "foreign_keys", "catalog", "validate", "drop", "apply", "start",
            "healthy", "finalize", "marker", "complete"}
Restore == {"r_stop", "r_data", "r_config", "r_entries", "r_marker", "r_start",
            "r_healthy"}
\* The record says that the job is over, and the thread saves it once more and ends.
Leaving == {"resave", "end"}
PCs == {"idle", "except", "report"} \cup Leaving \cup Forward \cup Restore

Guarded == kind = "infinidysk"
NoJob == [status |-> "none", mode |-> "none", avail |-> FALSE, ckpt |-> FALSE, bind |-> 0]
NoLocals == [was |-> FALSE, stopped |-> FALSE, mut |-> FALSE, by |-> "auto",
             restored |-> FALSE, rows |-> "schema"]

Init ==
  /\ kind \in Kinds
  /\ disk = "sqlite" /\ mem = "sqlite" /\ app = "sqlite"
  /\ target = "none" /\ stage = {} /\ marker = FALSE /\ up = "sqlite"
  /\ job = [j \in Jobs |-> NoJob] /\ latest = 0 /\ bk = [j \in Jobs |-> "none"]
  /\ pc = [j \in Jobs |-> "idle"] /\ loc = [j \in Jobs |-> NoLocals]
  /\ late = [j \in Jobs |-> "none"] /\ kept = [j \in Jobs |-> NoJob] /\ slips = {}
  /\ busy = FALSE /\ ns = FALSE /\ binding = 0 /\ fresh = {}
  /\ faults = 0 /\ crashes = 0

-----------------------------------------------------------------------------
(* What admission asks of the records.                                      *)

\* A job that is at work, or that left a rollback nobody has used.
Pending(r) ==
  r.status = "rollback_failed" \/ (r.status \in {"failed", "interrupted"} /\ r.avail)
Unresolved(r) == r.status \in Active \/ Pending(r)

Has_active_infinidysk_job == Guarded /\ \E j \in Jobs : Unresolved(job[j])
Has_infinidysk_recovery_pending_job == Guarded /\ \E j \in Jobs : Pending(job[j])
Has_namespace_conflicting_job == \E j \in Jobs : Unresolved(job[j])

Matching_rehearsal(b) ==
  \E j \in Jobs : /\ job[j].status = "completed" /\ job[j].mode = "rehearsal"
                  /\ job[j].bind = b

\* build_arr_postgres_preflight: the configuration says SQLite and, where that can be
\* asked, InfiniDysk is healthy if it runs.  What it finds of the files, the space and
\* the server is not the migration's doing.
Sqlite_mode     == mem = "sqlite"
Running_healthy == Guarded => up \in {"down", "sqlite"}
Preflight == Sqlite_mode /\ Running_healthy

Application_healthy == up = "sqlite"

\* Whether start_process lets the service run on database d: nothing to recover, and
\* InfiniDysk on PostgreSQL only with an authorization, on SQLite only without.
StartAllowed(d, authorized) ==
  Guarded =>
    /\ ~Has_infinidysk_recovery_pending_job
    /\ IF d = "sqlite" THEN ~marker ELSE authorized \/ marker

\* The database a started service opens. Its setup writes DUMB's choice into its own
\* settings, for Sonarr and its kin only when that choice is PostgreSQL. A service
\* that runs already is left alone, and start_process calls that a success.
Selected == IF kind = "arr" /\ mem = "sqlite" THEN app ELSE mem
Started(d) == app' = d /\ up' = IF up = "down" THEN d ELSE up

-----------------------------------------------------------------------------
(* The job of one service.                                                  *)

Save(j, r) == job' = [job EXCEPT ![j] = r] /\ latest' = j
Goto(j, p) == pc' = [pc EXCEPT ![j] = p]
At(j, p) == pc[j] = p
Cutover(j) == job[j].mode = "cutover"

\* A new record under an identifier nobody used.
New_job(j) == job[j].status = "none" /\ \A i \in Jobs : i < j => job[i].status # "none"

\* create_job and _create_job_admitted.
Create_job(j, mode) ==
  /\ New_job(j)
  /\ ~ns
  /\ ~Has_active_infinidysk_job
  /\ Preflight
  /\ Guarded /\ mode = "cutover" => Application_healthy /\ Matching_rehearsal(binding)
  /\ ~busy /\ (latest # 0 => job[latest].status \notin Active)
  /\ busy' = TRUE
  /\ Save(j, [NoJob EXCEPT !.status = "queued", !.mode = mode, !.bind = binding])
  /\ Goto(j, "begin")
  /\ loc' = [loc EXCEPT ![j] = NoLocals]
  /\ UNCHANGED <<kind, world, bk, ns, tail, binding, fresh, bounds>>

\* The thread starts: what it found, and for InfiniDysk once more what the preflight saw.
Begin(j) ==
  /\ At(j, "begin")
  /\ Save(j, [job[j] EXCEPT !.status = "running"])
  /\ loc' = [loc EXCEPT ![j].was = (up # "down")]
  /\ Goto(j, IF Guarded /\ (job[j].bind # binding \/ (Cutover(j) /\ ~Application_healthy))
               THEN "except" ELSE "config_backup")
  /\ UNCHANGED <<kind, world, bk, busy, ns, tail, binding, fresh, bounds>>

Config_backup(j) ==
  /\ At(j, "config_backup")
  /\ bk' = [bk EXCEPT ![j] = "config"]
  /\ Goto(j, IF Cutover(j) /\ loc[j].was THEN "stop" ELSE "snapshot")
  /\ UNCHANGED <<kind, world, job, latest, loc, busy, ns, tail, binding, fresh, bounds>>

\* The cold backup of a cutover needs the service stopped; InfiniDysk must be healthy
\* to the last, so that what is stopped is what was examined. From then on a stop was
\* attempted, whatever comes of it.
Stop_BugForRehearsalOnly(j) ==
  /\ At(j, "stop")
  /\ loc' = [loc EXCEPT ![j].stopped = TRUE] /\ Goto(j, "snapshot")
  /\ UNCHANGED <<kind, world, records, busy, ns, tail, binding, fresh, bounds>>
Stop(j) ==
  /\ At(j, "stop")
  /\ IF Guarded /\ ~Application_healthy
       THEN Goto(j, "except") /\ UNCHANGED <<up, loc>>
       ELSE /\ up' = "down" /\ Goto(j, "snapshot")
            /\ loc' = [loc EXCEPT ![j].stopped = TRUE]
  /\ UNCHANGED <<kind, disk, mem, app, target, stage, marker, records, busy, ns, tail,
                 binding, fresh, bounds>>

Backup_sqlite(j) ==
  /\ At(j, "snapshot")
  /\ bk' = [bk EXCEPT ![j] = "full"] /\ fresh' = fresh \cup {j}
  /\ Goto(j, IF Cutover(j) THEN "checkpoint" ELSE "stage")
  /\ UNCHANGED <<kind, world, job, latest, loc, busy, ns, tail, binding, bounds>>

Checkpoint(j) ==
  /\ At(j, "checkpoint")
  /\ Save(j, [job[j] EXCEPT !.avail = TRUE, !.ckpt = TRUE])
  /\ Goto(j, "stage")
  /\ UNCHANGED <<kind, world, bk, loc, busy, ns, tail, binding, fresh, bounds>>

Initialize_stage(j) ==
  /\ At(j, "stage")
  /\ stage' = stage \cup {j} /\ Goto(j, "schema")
  /\ UNCHANGED <<kind, disk, mem, app, target, marker, up, records, loc, busy, ns,
                 tail, binding, fresh, bounds>>

\* The schema is made by the service itself, started on the staging databases with the
\* settings in memory and its own settings changed; InfiniDysk has a helper of its own
\* that works on a copy. A service that runs on makes no tables: the wait for them fails.
Prepare_service_schema(j) ==
  /\ At(j, "schema")
  /\ \/ Guarded /\ Goto(j, "schema_done") /\ UNCHANGED <<mem, app, up>>
     \/ ~Guarded /\ mem' = "stage" /\ app' = "stage"
        /\ \/ (Cutover(j) => up = "down") /\ up' = "stage" /\ Goto(j, "schema_done")
           \/ Cutover(j) /\ up # "down" /\ UNCHANGED up /\ Goto(j, "except")
  /\ UNCHANGED <<kind, disk, target, stage, marker, records, loc, busy, ns, tail,
                 binding, fresh, bounds>>

\* The service is stopped and both settings are put back as they were.
Schema_done_BugKeepsSettings(j) ==
  /\ At(j, "schema_done") /\ Goto(j, "switch")
  /\ IF Guarded THEN UNCHANGED up ELSE up' = "down"
  /\ UNCHANGED <<kind, disk, mem, app, target, stage, marker, records, loc, busy, ns,
                 tail, binding, fresh, bounds>>
Schema_done(j) ==
  /\ At(j, "schema_done") /\ Goto(j, "switch")
  /\ IF Guarded THEN UNCHANGED <<mem, app, up>>
                ELSE mem' = "sqlite" /\ app' = "sqlite" /\ up' = "down"
  /\ UNCHANGED <<kind, disk, target, stage, marker, records, loc, busy, ns, tail,
                 binding, fresh, bounds>>

Set_database_entries == disk' = mem
Clone_database == target' = "schema"

\* A rehearsal goes back to SQLite; a cutover registers its database, which saves the
\* whole configuration, and clones the staging database into it.
Switch(j) ==
  /\ At(j, "switch") /\ Goto(j, "prepare")
  /\ \/ /\ ~Cutover(j)
        /\ IF ~Guarded /\ loc[j].was THEN Started(Selected) ELSE UNCHANGED <<up, app>>
        /\ loc' = [loc EXCEPT ![j].restored = TRUE]
        /\ UNCHANGED <<disk, target>>
     \/ /\ Cutover(j)
        /\ Set_database_entries /\ Clone_database
        /\ UNCHANGED <<app, up, loc>>
  /\ UNCHANGED <<kind, mem, stage, marker, records, busy, ns, tail, binding, fresh,
                 bounds>>

\* import_sqlite_to_postgres, into the staging database for a rehearsal and into the
\* cloned one for a cutover: the tables are emptied, the rows converted and inserted in
\* batches that are committed one by one, and the sequences set. Nothing is undone when
\* it ends half-way.
Imported(j, rows) ==
  /\ loc' = [loc EXCEPT ![j].rows = rows]
  /\ target' = IF Cutover(j) THEN rows ELSE target
  /\ UNCHANGED <<kind, disk, mem, app, stage, marker, up, records, busy, ns, tail,
                 binding, fresh, bounds>>
Prepare_target_for_import(j) ==
  At(j, "prepare") /\ Goto(j, "rows") /\ Imported(j, "empty")
Converted_import_batches(j) ==
  /\ At(j, "rows") /\ Goto(j, "sequences")
  /\ \E rows \in {"short", "changed", "whole"} : Imported(j, rows)
Reset_postgres_sequences(j) ==
  At(j, "sequences") /\ Goto(j, "counts") /\ Imported(j, loc[j].rows)

\* What is then compared: the number of rows of each table, and for InfiniDysk also the
\* digests of keys and of whole rows, the foreign keys and the catalog.
Compare(j, from, to, ok) ==
  /\ At(j, from) /\ Goto(j, IF ok THEN to ELSE "except")
  /\ UNCHANGED <<kind, world, records, loc, busy, ns, tail, binding, fresh, bounds>>
Validate_row_counts(j) ==
  Compare(j, "counts", IF Guarded THEN "digests" ELSE "validate", loc[j].rows # "short")
Validate_digests_BugCountsOnly(j) ==
  Compare(j, "digests", "foreign_keys", loc[j].rows # "short")
Validate_digests(j) == Compare(j, "digests", "foreign_keys", loc[j].rows = "whole")
Validate_postgres_foreign_keys(j) == Compare(j, "foreign_keys", "catalog", TRUE)
Validate_infinidysk_postgres_schema(j) == Compare(j, "catalog", "validate", TRUE)
Validate(j) == Compare(j, "validate", "drop", TRUE)

\* The staging databases go; a rehearsal is then complete.
Drop_stage(j) ==
  /\ At(j, "drop")
  /\ stage' = stage \ {j}
  /\ \/ Cutover(j) /\ Goto(j, "apply") /\ UNCHANGED records
     \/ /\ ~Cutover(j) /\ Goto(j, "resave")
        /\ Save(j, [job[j] EXCEPT !.status = "completed"]) /\ UNCHANGED bk
  /\ UNCHANGED <<kind, disk, mem, app, target, marker, up, loc, busy, ns, tail, binding,
                 fresh, bounds>>

Apply_database_config(j) ==
  /\ At(j, "apply")
  /\ mem' = "postgres" /\ disk' = "postgres" /\ app' = "postgres"
  /\ Goto(j, IF Guarded /\ ~loc[j].was THEN "except"
             ELSE IF loc[j].was THEN "start" ELSE "finalize")
  /\ UNCHANGED <<kind, target, stage, marker, up, records, loc, busy, ns, tail, binding,
                 fresh, bounds>>

\* Started in the one context that is authorized to run InfiniDysk on PostgreSQL, and
\* watched until it is healthy or a minute is over.
Start_postgres(j) ==
  /\ At(j, "start")
  /\ IF StartAllowed(Selected, TRUE)
       THEN Started(Selected) /\ Goto(j, "healthy")
       ELSE Goto(j, "except") /\ UNCHANGED <<up, app>>
  /\ UNCHANGED <<kind, disk, mem, target, stage, marker, records, loc, busy, ns, tail,
                 binding, fresh, bounds>>
Wait_for_running_service(j) ==
  /\ At(j, "healthy") /\ \E p \in {"finalize", "except"} : Goto(j, p)
  /\ UNCHANGED <<kind, world, records, loc, busy, ns, tail, binding, fresh, bounds>>

\* InfiniDysk's job stays active until its authorization is durable.
Finalize(j) ==
  /\ At(j, "finalize")
  /\ Save(j, [job[j] EXCEPT !.status = IF Guarded THEN "finalizing" ELSE "completed",
                            !.avail = TRUE])
  /\ Goto(j, IF Guarded THEN "marker" ELSE "resave")
  /\ UNCHANGED <<kind, world, bk, loc, busy, ns, tail, binding, fresh, bounds>>
Record_completion(j) ==
  /\ At(j, "marker")
  /\ marker' = TRUE /\ Goto(j, "complete")
  /\ UNCHANGED <<kind, disk, mem, app, target, stage, up, records, loc, busy, ns, tail,
                 binding, fresh, bounds>>
Complete(j) ==
  /\ At(j, "complete")
  /\ Save(j, [job[j] EXCEPT !.status = "completed"]) /\ Goto(j, "resave")
  /\ UNCHANGED <<kind, world, bk, loc, busy, ns, tail, binding, fresh, bounds>>

\* The same record is saved again with the time it was finished; then the thread drops
\* what is left of its staging databases and leaves _active_processes.
Resave(j) ==
  /\ At(j, "resave") /\ Save(j, job[j]) /\ Goto(j, "end")
  /\ UNCHANGED <<kind, world, bk, loc, busy, ns, tail, binding, fresh, bounds>>
Drops(j) == stage' = IF loc[j].by = "auto" THEN stage \ {j} ELSE stage
End(j) ==
  /\ At(j, "end") /\ Goto(j, "idle") /\ Drops(j)
  /\ busy' = FALSE /\ loc' = [loc EXCEPT ![j] = NoLocals]
  /\ UNCHANGED <<kind, disk, mem, app, target, marker, up, records, ns, tail, binding,
                 fresh, bounds>>

-----------------------------------------------------------------------------
(* Failure and the way back to SQLite.                                      *)

\* The handler of _run_job: with a backup of the configuration there is something to
\* go back to; InfiniDysk that was not touched stays as it is.
Except(j) ==
  /\ At(j, "except")
  /\ \/ /\ bk[j] = "none" /\ Goto(j, "report") /\ UNCHANGED <<mem, records, loc>>
     \/ /\ bk[j] # "none"
        /\ Save(j, [job[j] EXCEPT !.status = "rolling_back"]) /\ UNCHANGED bk
        /\ IF Guarded /\ (~Cutover(j) \/ (~loc[j].stopped /\ ~job[j].ckpt))
             THEN /\ loc' = [loc EXCEPT ![j].restored = TRUE]
                  /\ Goto(j, "report") /\ UNCHANGED mem
             ELSE /\ mem' = "sqlite" /\ Goto(j, "r_stop")
                  /\ loc' = [loc EXCEPT ![j].restored = FALSE]
  /\ UNCHANGED <<kind, disk, app, target, stage, marker, up, busy, ns, tail, binding,
                 fresh, bounds>>

\* _restore_sqlite_runtime, for the handler above and for an operator's rollback.
R_stop(j) ==
  /\ At(j, "r_stop") /\ up' = "down" /\ Goto(j, "r_data")
  /\ UNCHANGED <<kind, disk, mem, app, target, stage, marker, records, loc, busy, ns,
                 tail, binding, fresh, bounds>>

\* InfiniDysk's verified snapshot replaces the database in one rename; before the
\* snapshot was verified the database was not touched.
R_data(j) ==
  /\ At(j, "r_data") /\ Goto(j, "r_config")
  /\ IF Guarded /\ job[j].ckpt
       THEN /\ loc' = [loc EXCEPT ![j].mut = TRUE]
            /\ fresh' = fresh \cup {j}
       ELSE UNCHANGED <<loc, fresh>>
  /\ UNCHANGED <<kind, world, records, busy, ns, tail, binding, bounds>>

R_config(j) ==
  /\ At(j, "r_config") /\ Goto(j, "r_entries")
  /\ loc' = [loc EXCEPT ![j].mut = TRUE]
  /\ mem' = "sqlite" /\ disk' = "sqlite" /\ app' = "sqlite"
  /\ UNCHANGED <<kind, target, stage, marker, up, records, busy, ns, tail, binding,
                 fresh, bounds>>
Restore_database_entries(j) ==
  /\ At(j, "r_entries") /\ disk' = mem
  /\ Goto(j, IF Guarded THEN "r_marker" ELSE IF loc[j].was THEN "r_start" ELSE "report")
  /\ loc' = [loc EXCEPT ![j].restored = ~Guarded /\ ~loc[j].was]
  /\ UNCHANGED <<kind, mem, app, target, stage, marker, up, records, busy, ns, tail,
                 binding, fresh, bounds>>
Clear_authorization_BugKeeps(j) ==
  /\ At(j, "r_marker")
  /\ Goto(j, IF loc[j].was THEN "r_start" ELSE "report")
  /\ loc' = [loc EXCEPT ![j].restored = ~loc[j].was]
  /\ UNCHANGED <<kind, world, records, busy, ns, tail, binding, fresh, bounds>>
Clear_authorization(j) ==
  /\ At(j, "r_marker") /\ marker' = FALSE
  /\ Goto(j, IF loc[j].was THEN "r_start" ELSE "report")
  /\ loc' = [loc EXCEPT ![j].restored = ~loc[j].was]
  /\ UNCHANGED <<kind, disk, mem, app, target, stage, up, records, busy, ns, tail,
                 binding, fresh, bounds>>
R_start(j) ==
  /\ At(j, "r_start")
  /\ IF StartAllowed(Selected, FALSE)
       THEN Started(Selected) /\ Goto(j, "r_healthy")
       ELSE UNCHANGED <<up, app>> /\ Goto(j, "report")
  /\ UNCHANGED <<kind, disk, mem, target, stage, marker, records, loc, busy, ns, tail,
                 binding, fresh, bounds>>
R_healthy(j) ==
  /\ At(j, "r_healthy") /\ Goto(j, "report")
  /\ loc' = [loc EXCEPT ![j].restored = TRUE]
  /\ UNCHANGED <<kind, world, records, busy, ns, tail, binding, fresh, bounds>>

\* The configuration and the snapshot are in the private backup directory.
Valid_backup(j) == bk[j] = "full"

\* The end of the handler, or of rollback_job, which saves a failure only once.
Reported(j) ==
  IF loc[j].by = "operator"
    THEN [job[j] EXCEPT !.status = IF loc[j].restored THEN "rolled_back"
                                                      ELSE "rollback_failed",
                        !.avail = ~loc[j].restored /\ ~loc[j].mut]
    ELSE [job[j] EXCEPT !.status = IF loc[j].restored /\ bk[j] # "none"
                                     THEN "failed_rolled_back" ELSE "failed",
                        !.avail = /\ Cutover(j) /\ ~loc[j].restored /\ Valid_backup(j)
                                  /\ Guarded => job[j].ckpt]
Reports(j, r) ==
  /\ At(j, "report")
  /\ Save(j, r)
  /\ Goto(j, IF loc[j].by = "operator" /\ ~loc[j].restored THEN "end" ELSE "resave")
  /\ UNCHANGED <<kind, world, bk, loc, busy, ns, tail, binding, fresh, bounds>>
Report_BugForgetsRollback(j) == Reports(j, [Reported(j) EXCEPT !.avail = FALSE])
Report(j) == Reports(j, Reported(j))

\* _reserve_rollback: a cutover that is over and whose rollback nobody has used. For a
\* service other than InfiniDysk nothing asks whether another job or a namespace
\* migration is at work.
Reserve_rollback(j) ==
  /\ Cutover(j) /\ job[j].avail /\ (Guarded => job[j].ckpt) /\ Valid_backup(j)
  /\ job[j].status \in {"completed", "failed", "interrupted", "rollback_failed"}
  /\ Guarded => ~ns
  /\ Guarded \/ kind \in OpenKinds \/ (~busy /\ ~ns)
  /\ Save(j, [job[j] EXCEPT !.status = "rolling_back"])

\* rollback_job: an operator's way back, in a thread of its own. _reserve_rollback does
\* not ask _active_processes: the job's worker, or the thread of an earlier rollback, may
\* have its record still to save and itself to leave. (One such thread of a job is
\* followed, and no reservation between a failed second save and the handler.)
Rollback_job(j) ==
  /\ Reserve_rollback(j) /\ UNCHANGED <<bk, slips>>
  /\ \/ pc[j] = "idle" /\ UNCHANGED <<late, kept>>
     \/ /\ pc[j] \in Leaving /\ late[j] = "none"
        /\ late' = [late EXCEPT ![j] = pc[j]]
        /\ kept' = [kept EXCEPT ![j] = job[j]]
  /\ busy' = TRUE /\ Goto(j, "r_stop")
  /\ loc' = [loc EXCEPT ![j] = [NoLocals EXCEPT !.was = (up # "down"), !.by = "operator"]]
  /\ UNCHANGED <<kind, world, ns, binding, fresh, bounds>>

\* The second save of such a thread puts the record back over the rollback's, which for
\* everybody is then over while it goes on; and its end removes the rollback's entry.
Late_save(j) ==
  /\ late[j] = "resave" /\ late' = [late EXCEPT ![j] = "end"]
  /\ Save(j, kept[j]) /\ kept' = [kept EXCEPT ![j] = NoJob]
  /\ slips' = slips \cup {"reopened"}
  /\ UNCHANGED <<kind, world, bk, pc, loc, busy, ns, binding, fresh, bounds>>
Late_end(j) ==
  /\ late[j] = "end" /\ late' = [late EXCEPT ![j] = "none"]
  /\ kept' = [kept EXCEPT ![j] = NoJob]
  /\ stage' = stage \ {j} /\ busy' = FALSE
  /\ UNCHANGED <<kind, disk, mem, app, target, marker, up, records, pc, loc, slips, ns,
                 binding, fresh, bounds>>

\* A step raises. Before the handler it is caught there, inside the way back it ends
\* that; in the handler itself it ends the thread with the record as it was last saved.
\* What _run_job does before its try ends the thread alone: the record stays active and
\* _active_processes keeps the service until DUMB is restarted. A second save of a
\* completed job that fails takes the handler to a job that is over.
Completed(j) == job[j].status = "completed"
Raise(j) ==
  \/ /\ pc[j] \in Forward /\ Goto(j, "except")
     /\ IF pc[j] = "stop" /\ Guarded
          THEN /\ up' \in {up, "down"}
               /\ \E b \in BOOLEAN : loc' = [loc EXCEPT ![j].stopped = b]
          ELSE UNCHANGED <<up, loc>>
     /\ UNCHANGED slips
  \/ /\ pc[j] = "begin" /\ Goto(j, "idle") /\ UNCHANGED <<up, loc, slips>>
  \/ /\ pc[j] \in Restore /\ (pc[j] \in {"r_stop", "r_data"} => Guarded)
     /\ Goto(j, "report") /\ loc' = [loc EXCEPT ![j].restored = FALSE,
                                                ![j].mut = @ \/ pc[j] = "r_config"]
     /\ up' \in (IF pc[j] = "r_stop" THEN {up, "down"} ELSE {up}) /\ UNCHANGED slips
  \/ /\ pc[j] \in {"except", "report", "resave"} /\ ~(pc[j] = "resave" /\ Completed(j))
     /\ Goto(j, "end") /\ UNCHANGED <<up, loc, slips>>
  \/ /\ pc[j] = "resave" /\ Completed(j) /\ Goto(j, "except")
     /\ slips' = slips \cup {"reopened"} /\ UNCHANGED <<up, loc>>
Fault(j) ==
  /\ faults < MaxFaults /\ pc[j] \in FaultAt[kind]
  /\ faults' = faults + 1
  /\ Raise(j)
  /\ UNCHANGED <<kind, disk, mem, app, target, stage, marker, records, busy, late, kept,
                 ns, binding, fresh, crashes>>

\* A service other than InfiniDysk that does not stop: stop_process logs the error and
\* returns, and the way back would not mind an exception either. It runs on.
Swallowed_stop(j) ==
  /\ ~Guarded /\ up # "down" /\ faults < MaxFaults /\ pc[j] \in FaultAt[kind]
  /\ \/ At(j, "stop") /\ Goto(j, "snapshot") /\ UNCHANGED <<mem, app>>
     \/ At(j, "schema_done") /\ Goto(j, "switch") /\ mem' = "sqlite" /\ app' = "sqlite"
     \/ At(j, "r_stop") /\ Goto(j, "r_data") /\ UNCHANGED <<mem, app>>
  /\ faults' = faults + 1 /\ slips' = slips \cup {"unstopped"}
  /\ UNCHANGED <<kind, disk, target, stage, marker, up, records, loc, busy, late, kept,
                 ns, binding, fresh, crashes>>

JobStep(j) ==
  \/ Begin(j) \/ Config_backup(j) \/ Stop(j) \/ Backup_sqlite(j) \/ Checkpoint(j)
  \/ Initialize_stage(j) \/ Prepare_service_schema(j) \/ Schema_done(j) \/ Switch(j)
  \/ Prepare_target_for_import(j) \/ Converted_import_batches(j)
  \/ Reset_postgres_sequences(j) \/ Validate_row_counts(j) \/ Validate_digests(j)
  \/ Validate_postgres_foreign_keys(j) \/ Validate_infinidysk_postgres_schema(j)
  \/ Validate(j) \/ Drop_stage(j)
  \/ Apply_database_config(j) \/ Start_postgres(j) \/ Wait_for_running_service(j)
  \/ Finalize(j) \/ Record_completion(j) \/ Complete(j)
RestoreStep(j) ==
  \/ Except(j) \/ R_stop(j) \/ R_data(j) \/ R_config(j) \/ Restore_database_entries(j)
  \/ Clear_authorization(j) \/ R_start(j) \/ R_healthy(j) \/ Report(j)
LeaveStep(j) == Resave(j) \/ End(j) \/ Late_save(j) \/ Late_end(j)

-----------------------------------------------------------------------------
(* Everybody else.                                                          *)

\* Requests to start and stop the service: refused for InfiniDysk while a job of its
\* is unresolved, for other services not.
Lifecycle ==
  /\ IF Guarded THEN ~Has_active_infinidysk_job ELSE kind \in OpenKinds \/ ~busy
  /\ ~ns
  /\ \/ up = "down" /\ StartAllowed(Selected, FALSE) /\ Started(Selected)
     \/ up # "down" /\ up' = "down" /\ UNCHANGED app
  /\ UNCHANGED <<kind, disk, mem, target, stage, marker, records, pc, loc, busy, ns,
                 tail, binding, fresh, bounds>>

\* Any other part of DUMB saves the whole configuration.
Save_config ==
  /\ kind \in OpenKinds \/ Guarded
  /\ disk # mem /\ disk' = mem
  /\ UNCHANGED <<kind, mem, app, target, stage, marker, up, records, pc, loc, busy, ns,
                 tail, binding, fresh, bounds>>

\* The service writes to its database.
Write ==
  /\ up = "sqlite" /\ fresh # {} /\ fresh' = {}
  /\ UNCHANGED <<kind, world, records, pc, loc, busy, ns, tail, binding, bounds>>

\* An update or new launch settings; InfiniDysk's are refused while a job is unresolved.
Upgrade ==
  /\ Guarded /\ binding < MaxUpgrades /\ ~Has_active_infinidysk_job
  /\ binding' = binding + 1
  /\ UNCHANGED <<kind, world, records, pc, loc, busy, ns, tail, fresh, bounds>>

\* A namespace migration comes and goes.
Namespace ==
  /\ IF ns THEN ns' = FALSE ELSE ~Has_namespace_conflicting_job /\ ns' = TRUE
  /\ UNCHANGED <<kind, world, records, pc, loc, busy, tail, binding, fresh, bounds>>

\* DUMB is killed and boots: threads and memory are gone, get_job finds the jobs of the
\* old worker and calls them interrupted, configure_arr_postgres_runtime adopts a
\* config.xml that names a PostgreSQL database, and the service is started.
Adopted == IF kind = "arr" /\ disk = "sqlite" THEN app ELSE disk
Seen_BugUnknownStatus(r) ==
  IF r.status \in Active THEN [r EXCEPT !.status = "orphaned"] ELSE r
Seen(r) == IF r.status \in Active THEN [r EXCEPT !.status = "interrupted"] ELSE r
Restart ==
  /\ kind \in CrashKinds /\ crashes < MaxCrashes /\ crashes' = crashes + 1
  /\ job' = [j \in Jobs |-> Seen(job[j])]
  /\ pc' = [j \in Jobs |-> "idle"] /\ loc' = [j \in Jobs |-> NoLocals]
  /\ late' = [j \in Jobs |-> "none"] /\ kept' = [j \in Jobs |-> NoJob]
  /\ busy' = FALSE /\ ns' = FALSE
  /\ disk' = Adopted /\ mem' = Adopted
  /\ IF Guarded /\ \/ \E j \in Jobs : Pending(Seen(job[j]))
                   \/ (Adopted = "sqlite") = marker
       THEN up' = "down" /\ UNCHANGED app
       ELSE up' = Adopted /\ app' = Adopted
  /\ UNCHANGED <<kind, target, stage, marker, latest, bk, slips, binding, fresh,
                 faults>>

Next ==
  \/ \E j \in Jobs : \/ \E m \in {"rehearsal", "cutover"} : Create_job(j, m)
                     \/ JobStep(j) \/ RestoreStep(j) \/ LeaveStep(j)
                     \/ Rollback_job(j) \/ Fault(j) \/ Swallowed_stop(j)
  \/ Lifecycle \/ Save_config \/ Write \/ Upgrade \/ Namespace \/ Restart

Spec == Init /\ [][Next]_vars

-----------------------------------------------------------------------------
JobRecord == [status : Statuses, mode : {"none", "rehearsal", "cutover"},
              avail : BOOLEAN, ckpt : BOOLEAN, bind : 0..MaxUpgrades]
Locals == [was : BOOLEAN, stopped : BOOLEAN, mut : BOOLEAN,
           by : {"auto", "operator"}, restored : BOOLEAN, rows : Contents]

\* Every variable has its type.
TypeOK ==
  /\ kind \in Kinds /\ {disk, mem, app} \subseteq Databases
  /\ target \in Contents /\ stage \subseteq Jobs
  /\ marker \in BOOLEAN /\ up \in Databases \cup {"down"}
  /\ job \in [Jobs -> JobRecord] /\ loc \in [Jobs -> Locals] /\ pc \in [Jobs -> PCs]
  /\ latest \in Jobs \cup {0} /\ bk \in [Jobs -> {"none", "config", "full"}]
  /\ late \in [Jobs -> {"none"} \cup Leaving] /\ kept \in [Jobs -> JobRecord]
  /\ slips \subseteq {"reopened", "unstopped"}
  /\ busy \in BOOLEAN /\ ns \in BOOLEAN /\ binding \in 0..MaxUpgrades
  /\ fresh \subseteq Jobs /\ faults \in 0..MaxFaults /\ crashes \in 0..MaxCrashes

\* The kinds of service of which the properties below hold: InfiniDysk, whatever fails;
\* the others when nobody touches them during a job, the handler's own saves do not fail,
\* and one with a config.xml is not killed, nor that file's copy in the way back refused.
Sheltered(k) ==
  \/ k = "infinidysk"
  \/ /\ k \notin OpenKinds
     /\ FaultAt[k] \cap {"except", "report"} = {}
     /\ k = "arr" => k \notin CrashKinds /\ "r_config" \notin FaultAt[k]

\* And how long: until a worker goes on with a job whose record had said it is over (its
\* second save overwrites a rollback's reservation, or fails), or a service other than
\* InfiniDysk runs on although it was stopped.
Sound == slips = {}

\* The database in PostgreSQL has what was read from SQLite: for InfiniDysk row by row,
\* for other services as far as their import compares it.
Trusted == target \in (IF Guarded THEN {"whole"} ELSE {"changed", "whole"})

\* Wherever DUMB is killed, it boots on the service's data: the configuration it loads
\* and adopts never selects a staging database, and selects PostgreSQL only once the
\* import into it was validated. (save_config in _run_job comes after the import; the
\* schema phase works on unsaved settings.)
BootsOnItsData ==
  [][Sound /\ crashes' # crashes =>
       disk' # "stage" /\ (disk' = "postgres" => Trusted)]_vars

\* The service never runs on the wrong one of its two databases: on PostgreSQL only with
\* its data imported, on a staging database only while its job makes the schema, and
\* InfiniDysk never on the old SQLite file while a durable authorization says that
\* PostgreSQL holds newer writes.
NoSplitBrain ==
  Sound =>
    /\ up = "postgres" => Trusted
    /\ up = "stage" => \E j \in Jobs : pc[j] \in {"schema_done", "except", "r_stop"}
    /\ Guarded /\ up = "sqlite" => ~marker

\* A thread that has more to do than to save a finished record again and to end.
Works(j) == pc[j] \notin {"idle"} \cup Leaving

\* InfiniDysk has one worker: two jobs, or a job and the rollback of another, never act at
\* once, none acts beside a namespace migration, and one that is interrupted or half
\* rolled back keeps others out until it is resolved (has_active_infinidysk_job), even if
\* a rollback is reserved while the job's worker has yet to end; until, that is, such a
\* worker's second save (4373, 4482) overwrites the reservation, or fails.
OneWorker ==
  Guarded /\ Sound =>
    /\ \A i, j \in Jobs : Works(i) /\ Works(j) => i = j
    /\ \A j \in Jobs : Works(j) => ~ns /\ job[j].status \in Active
    /\ disk = "postgres" /\ ~marker => Has_active_infinidysk_job

\* A cutover takes every write along: when the configuration is switched to PostgreSQL
\* what was imported is all that SQLite holds, and InfiniDysk's switch was rehearsed with
\* the version, settings and schema it has now.
CutoverKeepsWrites ==
  [][Sound /\ disk # "postgres" /\ disk' = "postgres" =>
       \E j \in Jobs : /\ pc[j] = "apply" /\ j \in fresh /\ job[j].mode = "cutover"
                       /\ Guarded =>
                            \E i \in Jobs : /\ job[i].status = "completed"
                                            /\ job[i].mode = "rehearsal"
                                            /\ job[i].bind = binding]_vars

\* A job that reports that SQLite was restored has restored it, in the saved settings, in
\* memory and in the service's own, and has withdrawn the authorization; if the service
\* runs, it runs on SQLite. (Of a service other than InfiniDysk whose stop failed unseen
\* nothing is said: it runs on on PostgreSQL and the job reports it rolled back all the
\* same, which Sound excludes.)
RolledBackIsSqlite ==
  [][\A j \in Jobs :
       /\ Sound /\ job[j].status # job'[j].status
       /\ job'[j].status \in {"failed_rolled_back", "rolled_back"}
       => disk = "sqlite" /\ mem = "sqlite" /\ app = "sqlite" /\ ~marker
          /\ up \in {"sqlite", "down"}]_vars
=============================================================================
