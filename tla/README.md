# Models and proofs for DUMB

DUMB is one Python process, the main process of a container, that installs,
configures, starts, watches, updates and stops some thirty third-party services
(media servers, Arr applications, rclone mounts, PostgreSQL, Traefik ...) and
serves an HTTP API about them. This directory holds TLA+ specifications of the
parts of it that are hard to test, the TLC configurations that check them on small
instances, and TLAPS proofs of what holds on all of them. `PROJECT.json` lists the
components, runs, mutants, findings, hazards and theorems, and maps every
definition to the lines it models.

## 1. Inventory

Threads of the program: the main thread (start-up, then sleeping; Python runs every
signal handler here), FastAPI worker threads, the start-up executor, one daemon thread
per pending restart, the auto-restart monitor, the media-protection monitor, the
update scheduler, migration workers, two log readers per child. They share the
objects below without an event queue between them.

| Component | State | Operations | Interacts with |
|---|---|---|---|
| Process supervision, `utils/processes.py` | `processes`, `process_names`, `_intentional_stop_pids`, `auto_restart_state`, `shutting_down`, startup phase | `start_process`, `stop_process`, `reap_zombies` (SIGCHLD), `_maybe_schedule_restart`/`do_restart`, monitor, `shutdown` (SIGTERM) | everything that has a lifecycle; notifications and media protection by callback |
| Migration admission, `utils/infinidysk_migration_admission.py` | one reentrant lock, lifecycle reservations | reserve, release, check | held by API lifecycles, restarts, media protection and the migrations' start |
| Release transaction, `utils/transactional_install.py` | candidate, previous, staging directories and a journal file per attempt; an in-memory flag; what a deferred clear moved aside; snapshots of a runtime | `prepare` (with `recover_incomplete`), `activate`, `rollback`, `commit`, `abandon`; also `RuntimeRollbackSnapshot`, `DeferredClearTransaction` | driven by automatic updates and by setup |
| Automatic updates, `utils/auto_update.py` | job table, `updating` lock, queue of manual updates, downtime timers | schedule, check, update transactionally or with a snapshot, start at boot | supervision, release transaction, media protection, install cache |
| Start-up, `main.py`, `utils/startup.py` | pending/in-progress/completed sets, port table | reserve ports, install in parallel, start in dependency order, report readiness | supervision, configuration |
| Media protection, `utils/media_protection.py` | incidents (a JSON file), per media server: guard snapshot, `stopped_by_dumb` | `begin_planned`, `begin_unplanned`, `complete_planned`, monitor, recover | SIGCHLD handler, API, updates, admission lock |
| Namespace migration, `utils/infinidysk_migration.py` | job record with phases, journals, backups | plan, start, apply, verify, roll back, resume after restart | admission, supervision, configuration, media servers |
| Arr PostgreSQL migration, `utils/arr_postgres_migration.py` | job record, backups | preflight, start, copy, verify, cut over, roll back | supervision, PostgreSQL |
| Install cache, `utils/install_cache.py` | SQLite rows of operations, artifacts on disk | begin, update, publish, restore, evict | updates, setup |
| Service reset, `utils/service_reset.py` | plan, quarantined paths | preview, reset, roll back | supervision, configuration |
| Notifications, `utils/notifications.py` | SQLite outbox, rule state | queue, deduplicate, deliver, retry | called from everywhere |
| Configuration, `utils/config_loader.py` | the in-memory tree, `dumb_config.json` | load, merge, save whole or one section | everything |
| Connection manager, `api/connection_manager.py` | set of sockets, a lock per socket | connect, send, broadcast, disconnect, shut down | log, status and metrics streams |
| Metrics, health, authentication, logging, AI diagnostics, rclone optimizer | caches and stores of their own | sampling, reporting, tokens | HTTP |
| Installers and settings writers, `utils/setup.py`, `utils/download.py`, `utils/versions.py` and some forty modules | sources, runtime and version marker of each service, the directories an update moved aside, the recorded branch commits | `setup_project`, `install_project`, `configure_project`: fetch, clear, patch, build, mark, activate; edits of other programs' settings | updates, start-up and API starts call them |

What is hard here:

* the SIGCHLD handler does real work (table updates, restart decisions, taking a
  process-wide lock) between any two bytecodes of the main thread, and may nest;
* the same child is reaped by whoever polls first: handler, stopper or a reader;
* a service is started from six kinds of thread, with different locks held;
* restarts are decided at one time, by one thread, and made later by another;
* a swap of a release directory may be cut by a crash or a failing call anywhere, and
  what is on disk then is all the next attempt has to go by;
* incidents, migrations and resets survive a restart of DUMB and resume half-done;
* an update holds one or two locks for minutes while its inputs, the operator's
  selection and what upstream publishes, go on changing;
* an installer decides what to skip by version markers and by the presence of files,
  which failures, kills and restored directories put out of step with each other.

What makes the parts correct: a service runs at most once and every live child can be
stopped; an asked-for exit is silent and an unasked one is not; nothing touches a
service during a migration; a restart is carried out or given up; the runtime on
disk is always one whole release, never older than before; a guard that was put on a
media server comes off, and not early; a migration ends whole, or undone, or is marked
as neither until somebody deals with it; a pinned service stays on its version and a
failed update leaves what was there; two services never share a port.

## 2. The modules

```
ProcessSupervisor ------ MCProcessSupervisor (runs)
        \--------------- ProcessSupervisor_proofs
AtomicInstall <--refines-- ReleaseTransaction ------ MCReleaseTransaction (runs)
                                   \---------------- ReleaseTransaction_proofs
MediaProtection -------- MCMediaProtection (runs)
        \--------------- MediaProtection_proofs
NamespaceMigration ----- MCNamespaceMigration (run)
        \--------------- NamespaceMigration_proofs
MigrationAdmission <--refine-- ProcessSupervisor, MediaProtection, NamespaceMigration
PostgresMigration ------ MCPostgresMigration (runs)
        \--------------- PostgresMigration_proofs
ServiceInstallers <--- ServiceSetup <--- SetupPaths <--- PinnedSetups ------ MCServiceSetup (run)
                                                               \------------- ServiceSetup_proofs
ServiceUpdates --------- MCServiceUpdates (run)
        \--------------- ServiceUpdates_proofs
```

Each module keeps what another one details as the least its own properties need: the namespace job is
one status with its admission in ProcessSupervisor and MediaProtection, and has its phases in
NamespaceMigration; a setup is two steps in ServiceUpdates and a program of some twenty in ServiceSetup;
a candidate release is three steps in ServiceUpdates and one per system call in ReleaseTransaction.

Definitions with `_Bug` in their name are plausible mistakes in the definition that
follows them. No specification uses them; with one put in place the property that
`PROJECT.json` names under "mutants" is violated.

### ProcessSupervisor

State: the tables of `ProcessHandler` under their own names; the kernel's view of each
child (`os`: none, running, zombie, reaped; `owner`, `doomed`, a pending `sigchld`); the
admission lock, the reservations and the state of a namespace job; the restart
policy's fields per service; and for each thread a control point and its locals
(`pc`, `nm` the service, `pd` the process, `op` the request). `frames` is the stack of
`reap_zombies` calls suspended by a nested one.

One action is the code between two points where another thread or a handler can
interfere. `start_process` is Admit, ResetPolicy, CheckRunning, WaitMounts, Launch,
Settle, Track, Publish; `stop_process` is Lookup, DisableRestart, SignalGroup,
AwaitDeath, Untrack, ClearMark; `reap_zombies` is HandlerEnter (HandlerNested when it
interrupts itself), Visit per tracked pid, HandlerReturn; `_maybe_schedule_restart` is
Consider, AskMigration, Unpend, EnterRecord, Record, Spawn; `do_restart` is
WakeRestart, Decide, RecordAttempt, then the stop and start actions, FinishRestart.
Requests of API threads take the admission lock first (`_run_migration_lifecycle_admitted`),
start-up workers only a reservation (`Update.auto_update`), shutdown workers neither.
PollTracked is any of the `poll()` calls that collect an exit status on the side.

Left out: setup, environment, command lines, log readers, notification texts.
Setup may fail (CheckRunning gives up); it does not raise. Time is a choice: a
back-off may end at any moment, entries may leave the restart window at any moment.
A dependency's mount is there while the service that provides it runs.

### MigrationAdmission

What those who change managed state and a namespace job promise one another. A *party* takes the admission lock, or leaves
a token in `_EXTERNAL_MUTATIONS` and gives the lock back; either way it begins to work only while no job blocks. A job begins only
while the lock is free and there is no token. Nobody looks at what the others do, and a party that works does not ask again: that
they are never at work together is the theorem `JobsUndisturbed`. Three modules are its parties, each mapped by an
`INSTANCE` named `Admission` and each shown to implement it (`AdmissionHonoured`):

| Module | Parties | Lock and tokens | Working | Blocking |
|---|---|---|---|---|
| ProcessSupervisor | API, start-up and restart threads | as in the module | inside a lifecycle (`LifecyclePCs`) | the job's status |
| MediaProtection | all its threads | the lock; no tokens | acting on media servers, or a request that has begun | the job's status |
| NamespaceMigration | one, for all other changes | a token for as long as it works; the lock is free between the job's steps | with the token | `has_blocking_job()`, or a worker at any of its control points |

So the first two show that nobody works beside a job, given how a job is admitted, and the third that a job is admitted so
and blocks from its admission to its end, in its record, whatever fails or dies in between. The workers of shutdown stop services
without asking and are not parties.

### ReleaseTransaction and AtomicInstall

State: for each attempt the directories `candidate`, `previous`, `staging` and the
`state` field of its journal; the `target`; the attempt's `activated` flag. A directory
is represented by the release it holds, `Torn` while a copy or removal of it is under
way or was cut short, or `Absent`. `lower` says that the target is in the lower layer
of an overlay, where `rename` fails with EXDEV and the code copies instead.

One action is one call that changes the disk. A call can raise OSError (Fault, at the
control points in `FaultAt`), which leads where the code's handlers lead, including the
caller's `except` (roll back) and `finally` (abandon); the process can die between any two
calls (Crash); copies and removals can be caught half-way (Tear). Recovery of the journals
of earlier attempts (`recover_incomplete`) is part of the next attempt and can itself be cut.
The installer's work is one action that fills the candidate, fails or raises; configuring,
starting and watching the new release is one that succeeds or not.

AtomicInstall is what this promises: there is an installed release, which changes only
to a newer one that passed its health check. The refinement mapping takes `installed`
to be what is, or what recovery will put, in place (`Survivor`).

A journal write is atomic (temporary file, fsync, rename). Removals with `ignore_errors`
are taken to succeed. One attempt runs at a time.

### MediaProtection

State: `incidents` as the dictionary and the state file hold them (every change is saved
under the manager's lock, so the two are equal); which storage services are healthy
(`up`), which media servers run, whose scans DUMB has switched off (`guarded`); the admission
lock and the namespace job; per thread a control point and its locals. `held` (down because
protection stopped it) and `out` (failed, and the failure dealt with) only serve the
properties.

`begin_planned` is Plan and `begin_unplanned` is Report, both followed by Guard, Record, StopServer for
each media server, in the order of the code: incident saved, guard entered, entry saved, server
stopped. Operate, StartAgain, Complete are the operation and `complete_planned`: API
requests hold the admission lock throughout, updates only while protection begins.
The monitor is Look, then IdleStop and IdleMark for the servers of an outage, Stable or NotYet
(`_ready_for_recovery`, without the lock), Recover, and Revive, RestoreGuard for each server, Settle.
A namespace job is queued (StartMigration), repeats its preflight (RepeatPreflight), works and ends.
Crash is a kill and a restart of DUMB, with `_load`.

Left out: time (a stabilisation period may take any time, a server may be idle or busy
at any time), policies, mount paths. A media server's scan settings are one Boolean. `CrashAt`
and `PartialGuards` restrict where DUMB may be killed and how `enter_scan_guard` may fail: see section 4.

### NamespaceMigration

State: where each managed path is (`at`), the configuration, the symlinks' targets, InfiniDysk's
database and each external reference, as "old", "new" or "mixed"; the scheduled health checks, the scan
guards, what runs; the queues and viewers the drain waits for; on disk the job record, the
migration's own record (`state`), the stored preflight, the recovery bundle (`backup`) and what it has
of guards and pauses (`saved`); the worker's control point and lists of what it has done, by which it
undoes it.

The worker saves the stage of the step that follows (`progress`), so every control point is a place where
the record names the work about to be done. Preflight, admission and the job's own second check are
PreflightCheck, PreflightRun, Start_full_namespace_job, Acquire, Validate, Recheck, Reload; then Backup, the
drain (RecordGuard to StopAll, with QuiesceTimeout and an operator who asks for playback to be stopped), the
cut-over (MovePath to RestoreHealthChecks, Complete), and the rollback, whose steps collect errors and go on.
Crash kills the container at any of them, Boot asks `has_recovery_pending_job` before it starts anything.
Beside the worker: reminders, the brand cutover, the two-step cleanup (its preview, then bundle, records,
marker), another reserved change of services (Reserve, Release), an update that takes the updater's lock.

Left out: what a rewrite does inside a file, a database or an API (it succeeds or raises, and leaves
"mixed" where it is not atomic), the contents of the inventories, percentages and messages.

### PostgresMigration

State: which database is selected in the saved configuration (`disk`), in memory, and in the service's
own settings (`app`), and which one a running service uses; what the target in PostgreSQL holds, from no
tables to the same rows; the staging databases; InfiniDysk's durable authorization (`marker`); the records of all
jobs; each job thread's control point and locals. `kind` is one of three ways a service is treated
(the module's header); one behaviour has one service.

The worker's phases are one action each, from Begin to Complete, and so are the parts of `import_sqlite_to_postgres`
and of `_restore_sqlite_runtime`, which the handler of a failed job (Except) and an operator's
Rollback_job share. Fault raises in any step in `FaultAt`, Restart is a kill and a boot, with
`get_job` calling the jobs of the dead worker interrupted and `configure_arr_postgres_runtime` adopting what an
Arr's config.xml says. Beside the jobs: start and stop requests, full saves of the configuration, writes, updates of
InfiniDysk, namespace migrations.

Left out: SQL. A table's conversion yields fewer rows, changed rows or the same ones; counts, digests,
foreign keys and catalog each see what they compare. The PostgreSQL server itself is taken to run.

### ServiceSetup and ServiceInstallers

ServiceInstallers writes every installer of `setup.py` as a program: a sequence of calls that may fail, steps
that change what is installed, and tests that choose between programs. ServiceSetup runs one of them,
one step, or one test, per action. State: the sources, the runtime and the version marker on disk, each of one version,
Nothing or Torn; the patches the sources have and those the runtime was made with; the commit recorded in
`/config`; the cached archive of a branch; what a deferred clear moved aside; the phase, the entry
(`setup_project`, `install_project`, `configure_project`) and what is left of the program; the setup tracker.

A failing step ends the program (Stop) or is only warned about, as the installer has it, and ends in Give_up, which
puts back what was moved aside, or half of it. Kill may take any step half-way. Tests answer from the
files as the code does: `Found` and `Reports` cannot tell a torn directory from a whole one. An unpacked archive is
merged transactionally (download.py); the packages of Plex, Jellyfin and Emby and the archives of the Arr services
are unpacked in place; a build writes where it runs until its last step.

Left out: the settings a service is given, environment variables, ports, credentials, ownership; what the package
managers do inside; two setups of one service at once, which `_get_install_lock` excludes.

### ServiceUpdates

State: the admission lock and the lock `updating`; per thread (scheduler, API request, starter) a control
point and its locals; each service's selection (latest, prerelease, release, pinned version, branch, commit), its
automatic mode, installed and running version, rollback snapshot and data; the scheduler's jobs; the starter's
sets. `chosen` and `written` are ghosts: what the operator saved last, and the writes made.

A scheduled, manual or boot update is: due or asked for, the admission lock, the check that judges again under it,
`updating`, a temporary selection where one is asked for (Select_source), the variant of `update_check` for the
service's family, then a candidate release (Build, Activate, health, commit) or snapshot, stop, set up, start,
wait for health, and the undoing of either; the locks go back in the order of the code's `finally` blocks.
Operators save selections in between, upstream publishes, services write.

Left out: times of day, the API's own update check beyond its job, downtime metrics, the branches of Plex and
Jellyfin for "not installed yet", symlink backups. The named release channels of InfiniDysk behave like
"prerelease" and are not told apart from it. Fields of the selection are one value, so a save changes all of them.

## 3. Runs

| Run | Question | Result |
|---|---|---|
| `supervisor_steady` | Two API threads, two restart threads, the monitor, the handler, three children, a crash, a migration: can tables, restarts and children get out of step? | `TypeOK`, `ChildrenTracked`, `StoppedStaysStopped`, `RestartBudget`, `PlannedExitNotReported` hold |
| `supervisor_boot` | Start-up worker with a reservation, API thread, restart, shutdown and a migration | `AdmissionHonoured` holds: the supervisor implements MigrationAdmission |
| `supervisor_live` | Consumer and provider of a mount, crash, restart, migration, SIGTERM, fair scheduling | `ThreadsFinish`, `ShutdownReleasesLock` hold |
| `supervisor_deadlock` | Can a wait for a mount starve the provider, as the docstring of `start_process` fears? | yes: finding 1 |
| `release_safe` | Three attempts, three failing calls, three crashes anywhere | `KnownGoodRecoverable`, `BackupsJournaled`, `RecoveredBeforeWork`, `RolledBackMeansRestored` and the refinement of AtomicInstall hold |
| `media_protection` | An update, an outage, a media server that stops, the monitor, a job, a failing call, a restart of DUMB; two storage services with one reader | `ProtectionRemembered`, `AdmissionHonoured`, `MigrationOwnsMedia`, `RecoveryWaitsForOperation` hold |
| `media_recovery` | The same with API requests, one storage service and fair scheduling | `EventuallyRecovered` holds |
| `namespace` | Two jobs, any step raising, a kill anywhere, preflights, reminders, cleanup, another change of services | `UnsafeIsFrozen`, `RecoveryHasBundle`, `PauseIsRecorded`, `AdmissionHonoured`, `CutoverIsQuiet`, `CleanRollbackRestores`, `CompletionIsWhole` hold |
| `postgres` | Three jobs of a service of each kind: rehearsals, cutovers, rollbacks, a step raising, two kills | `NoSplitBrain`, `OneWorker`, `BootsOnItsData`, `CutoverKeepsWrites`, `RolledBackIsSqlite` hold |
| `postgres_rehearsal` | And an Arr service that is killed? | `BootsOnItsData` is violated: finding 2 |
| `setup` | Three setups of each of seventeen services, in every mode, one failing call and one kill | `RestoredIsBefore`, `PinIsInstalled`, `PatchesAreBuilt` hold |
| `updates` | Scheduled, manual and boot updates, restarts and starts of a service with a candidate release, one with a snapshot, an Arr service and Emby, against a save, a release, a failing call | `OverrideIsTemporary`, `PinnedNotUpdated`, `FailedUpdateKeepsService` hold |

Bounds. The supervisor's races need two threads that work on one service, one that
restarts it, and a child that dies twice at most, so one service, three children and
two requests show them; a second service is there where one waits for the other.
`MaxRestarts` is 1, so the limit is met. Pids and restart threads are
interchangeable and reduced by symmetry in the runs without liveness. For releases three attempts
are one that fails or is cut, one that recovers it, perhaps cut again, and one after that; three
faults and three crashes allow a failing call in activate, in its handler's caller
and in a later attempt, each followed by a crash. For media protection two incidents on one media server are what it takes
for them to overlap, on different storage services or one after the other; one fault makes any one
call of either fail, one restart cuts any step.

The namespace migration has one service of each role, so that each loop over services has a first and a last
iteration only where the paths are (two of them, to be caught between); one fault starts a rollback and the
rollback's own steps may then raise too; two preflights and two requests are a job, or a reservation, and
a second one against what the first left. For PostgreSQL three jobs are a rehearsal, a cutover and one that competes with
either, two kills interrupt a job and its rollback; one upgrade makes a rehearsal stale. A setup has two versions,
so that what is there, what is pinned and what upstream has can all differ pairwise over time; three
setups are one that fails or is killed, one that restores or repairs, and one that relies on what it finds. The
seventeen services have between them every path of `_setup_project_inner` and every kind of installer; for the others, neutarr,
seerr, pulsarr, phalanx_db, dumb_frontend, zilean, jellyfin, plex, cloudflared and rclone, the same run evaluates the
hypotheses of the theorems (`ProgramsCharted`, `SetupsSighted`). An update has one enabled service per behaviour, one save, one request, one write, one
release and one failing call: every property is about one update and one thing that comes between. The families without a
snapshot besides Emby (`jellyfin`, `plex`, `oci`), and two requests and two faults, were checked with fewer services at a time, with the
same properties.

All runs are exhaustive; the larger ones have between three and eight million states. Deadlock is not checked: with
its counters used up each model may stop, as the program may with no requests.

Fairness (`supervisor_live`, `media_recovery`): threads that can run do
(the interpreter's and the kernel's scheduler); a waiter for the admission lock that is
free again and again gets it (strong fairness on the two places that wait for it in a
loop of other users, in MediaProtection for the monitor and the outage threads); a process group that was sent SIGKILL dies. The media monitor
comes round to every incident, as its loop over all of them does, and finds a storage service
that is up again and again stable at some time; the property only asks for recovery when
storage stays up, where the code's stabilisation period does end. Nothing is assumed of
clients, crashes, health checks or migrations. The liveness properties exclude the
self-deadlock of the nested handler and a start that waits for a mount nobody
provides, which section 4 describes. NamespaceMigration states the fairness of its worker, its deadline and the boot as part
of its specification; no run uses it: a worker that waits for an operator or a drain has nothing to promise.

## 4. What the code does not promise

Two findings contradict what the repository says and have a run of their own:

1. `supervisor_deadlock`: an API start, or an automatic restart, waits for a mount with
   the admission lock held; the provider's restart needs that lock. The docstring of
   `start_process` (utils/processes.py:355-357) explains why that must not happen.
2. `postgres_rehearsal`: while an Arr service makes its schema, its config.xml names the empty staging
   databases. Killed then, DUMB adopts them at the next boot, although the job was a rehearsal
   ("the service remains on SQLite", arr_postgres_migration.py:4275).

The rest of this section is what the properties and theorems leave out, each met while modelling: the constants
or conditions named show it when they are widened.

Supervision. When a `poll()` elsewhere takes the exit status first, the handler gets ChildProcessError and skips the
exit (processes.py:1023): the dead entry stays, nothing restarts. A second SIGCHLD inside the `auto_restart_lock`
block of the first blocks the main thread for good (1798). The handler also takes the status of a tracked build command (1034). A start-up worker holds a
reservation where a request holds the admission lock: an API start of the same service passes the same test (400) before either has
entered its process, and both launch (`ChildrenTracked` with `BootThreads`, thirteen states).

Releases. The theorems assume that only calls in `Survivable` fail. The others are: the write of "activated" after the
swap (rollback deletes the release that the handler of `activate` has just put back, and reports success,
transactional_install.py:213); `rmtree(previous)` and the journal write after it in `commit` (the caller rolls back, deletes
the healthy new release and restores a torn one or none); the write of
"replacing_overlay_target" followed by a crash (recovery discards the only whole copy); the
removal and rename in the handler of `activate` (abandon then deletes the journal of a failed
rollback); and the calls of `recover_incomplete` (skipped with a warning, and new work begins).

Media protection. DUMB is not killed between `enter_scan_guard` and the save after it (`SafeCrash`), and
`enter_scan_guard` raises before it has changed anything (`PartialGuards = FALSE`); otherwise a guard stays that
nothing takes off. Two incidents on one media server share its guard: the first that recovers lifts it. The monitor judges a
storage service healthy without the admission lock, so an outage reported meanwhile joins an incident that is
then recovered (media_protection.py:1152).

Namespace migration. `remind_later` (2774-2797) reads the record, waits for the manager's lock and writes "snoozed" over a
"rollback_attention_required" that was written meanwhile (`RemindAt` is the idle worker's control point). The writes
of the records do not fail: a failed one inside the rollback abandons it, and `_save_state` (379-444) swallows an OSError
at its end. A service that `_stop_processes` fails to restart is not among the rollback's errors. A moved link that is removed and cannot be made again is
neither in the list of moves nor among the errors. The worker's
`_load_preflight` at 4832 may pick up a preflight that an operator has just repeated.

PostgreSQL migration. For services other than InfiniDysk (`OpenKinds = {}`): requests may start and stop the service during its
job, and any other save of the configuration writes the staging settings of a rehearsal to disk. `rollback_job` of
an older job looks at no newer one, and at no namespace job unless the service is InfiniDysk. The handler's own saves fail only
for InfiniDysk. Staging databases of a killed job stay.

Setups. `PinIsInstalled` excepts (`Recovers`) services with a venv, which is neither moved aside nor put back; services
that replace their runtime before its marker (decypharr, authelia, altmount, cloudflared, emby, infinidysk): cut in between and then pinned to
the old version, they skip the installation; those not built again once their sources are there; and, but for
mediastorm and aiostreams, whatever left something torn (`scarred`), because a test for a version or a file takes it for whole. Without
`clear_on_update` an existing runtime is not built again after new sources. `PatchesAreBuilt` excepts traefik_proxy_admin after
a failure or a kill (a patch made and not built is never built, setup.py:7329-7348) and infinidysk after both. Further: an absent
version.txt is filled in with the newest release for Traefik Proxy Admin (7304-7313) and NeutArr (9780-9850); the marker is
written before the build (1498); `version_write` has no file for cli_debrid, phalanx_db and Riven, so their
commit pins never match and are installed anew each time; a branch's head is asked for again after the download
(1860), so the recorded commit may be newer than the files; the cached archive of a branch serves stale sources when
the network fails (download.py:950); a release without assets falls back to sources, for services that are released as a
runtime too (download.py:567); one failed restore keeps the next ones from being tried (`all(...)` at 2078); the
merge of a download loses a file when the second of two renames fails (download.py:730); two threads may each make
the install lock of a service (148).

Updates. A scheduled update that fails raises out of the scheduler's loop (auto_update.py:3072, 2173-2188), which ends,
with every other job, until a later `update_schedule` starts one: the model does the same, and TLC refutes "while
there are jobs the scheduler runs" in nine steps. Boot's `initial_update_check` holds `updating` and waits for the
admission lock to launch; a manual or scheduled update holds the admission lock and waits for `updating`: TLC finds this
cycle in eight steps. For the Arr services `_snapshot_target` (3885) names the configuration directory, not the runtime under
/opt: a failed update rewinds settings and database to the copy made before the stop and leaves the new runtime
(`DataInTarget`, `RuntimeElsewhere`). Plex, Jellyfin, Emby, MediaStorm and others have no snapshot (`Unprotected`). A persistent path below the top
level of a target is skipped by the copy and removed by the rollback. An update of "latest" writes the concrete version
(3346), which blocks the next one as a pinned release. Emby's `finally` writes its release fields over a save that came meanwhile,
so `PinnedNotUpdated` excepts it; an override of the frontend or of Traefik Proxy Admin saves the configuration while the pins are
cleared. A saved `auto_update = false` is not looked at again once the scheduler waits for the lock.

Start-up. The waits `main.py` adds for Plex, Jellyfin and Emby are not part of its dependency map; a stalled dependency
raises (main.py:916); the port search has no upper end (56-60); the startup-state file is written outside its lock (processes.py:112).

## 5. Proofs

Every safety invariant, action property and refinement that a passing run checks is a theorem. A theorem holds for every value of the constants that the named assumption of its module
allows: any sets of services, threads, children, jobs and paths, and any bounds. Where it needs more, the
hypothesis is in its statement; in each case section 4 says what the code does without it.

| Theorem | States | Hypothesis |
|---|---|---|
| `JobsUndisturbed` | in MigrationAdmission, nobody works while a job blocks | `Nobody` is no party |
| `SupervisorHonoursAdmission`, `ProtectionHonoursAdmission`, `JobHonoursAdmission` | `AdmissionHonoured`, that is `Spec => Admission!Spec` | |
| `TypeCorrect`, `MigrationExclusion`, `PlannedExitsSilent` | `TypeOK`, `MigrationExcludesLifecycle`, `PlannedExitNotReported` | |
| `StoppedNotRelaunched`, `AttemptsBounded` | `StoppedStaysStopped`, `RestartBudget` | |
| `ChildrenKnown` | `ChildrenTracked` | no start-up workers |
| `ReleaseRecoverable`, `NoUnjournaledBackup`, `RollbackRestores`, `WorkAfterRecovery`, `ReleaseTypeCorrect`, `Refinement` | `KnownGoodRecoverable`, `BackupsJournaled`, `RolledBackMeansRestored`, `RecoveredBeforeWork`, `TypeOK`, `Spec => Atomic!Spec` | only calls in `Survivable` fail |
| `MediaTypeCorrect`, `MigrationUndisturbed`, `MigrationMeetsNoIncident`, `OperationFirst`, `MediaStoppedRemembered` | `TypeOK`, `QuietDuringMigration`, `MigrationOwnsMedia`, `RecoveryWaitsForOperation`, `StoppedRemembered` (half of `ProtectionRemembered`) | |
| `MediaProtectionRemembered` | `ProtectionRemembered` | no partial guards, kills in `SafeCrash` |
| `NamespaceTypeCorrect`, `NamespaceMutationsExclude`, `NamespaceCutoverIsQuiet` | `TypeOK`, `MutationsExclude`, `CutoverIsQuiet` | |
| `NamespaceUnsafeIsFrozen`, `NamespaceRecoveryHasBundle`, `NamespacePauseIsRecorded`, `NamespaceCompletionIsWhole` | the property of that name | `Dependable` |
| `NamespaceCleanRollbackRestores` | `CleanRollbackRestores` | `Dependable`, `Restartable` |
| `PostgresTypeCorrect`, `InfiniDyskOneWorker` | `TypeOK`, `OneWorker` | |
| `PostgresNoSplitBrain`, `PostgresBootsOnItsData`, `PostgresCutoverKeepsWrites`, `PostgresRolledBackIsSqlite` | the property of that name | every kind is `Sheltered` |
| `UpdatesTypeCorrect`, `UpdatesOverrideIsTemporary`, `UpdatesPinnedNotUpdated`, `UpdatesFailedUpdateKeepsService` | the property of that name, and `TypeOK` | |
| `Typing`, `Restoring`, `Building` | `TypeOK`, `RestoredIsBefore`, `PatchesAreBuilt` of ServiceSetup | the installers' programs are `Charted` |
| `Pinning` | `PinIsInstalled` of ServiceSetup | the programs are `Charted`, the services `Sighted` |

**ProcessSupervisor.** The inductive invariant is `TypeOK /\ Wellformed /\ Entitled /\ StopsMarked`, one lemma per group
of actions. The property about migrations is not inductive: a migration may start whenever the lock is free and nothing
is reserved, so one needs `Entitled`, that whoever is inside a lifecycle holds the lock or a
reservation (or is a shutdown worker), and for that `Wellformed`, that threads are
only at control points and with locals their kind can have, through nested handler frames too.
`StopsMarked` says that the pid a stopper works on is in `_intentional_stop_pids`
from before the signal until after the entry is gone; the handler's step reports only
pids that are not in it.

What follows it adds `Roles`, whose a control point can be and with which request: a restart thread never
disables restarts, a start-up worker only starts. With the lock it makes `StoppedStaysStopped` inductive: the only step that disables
is a stop request's, and the lock is then not the restart's. `RestartBudget` is about a check and an act
apart in time; `Scheduled` says that a restart under way, in whichever of the three threads it is, is the one
`pending` stands for, and that until it has recorded its attempt there is room for it in the window. A migration
breaks that on purpose (a restart it forbids clears `pending` and leaves), hence the property's own condition. `ChildrenTracked` needs `Tables`, how
`processes`, `process_names` and the locals of a start or stop in progress agree, and `Alone`, one thread at a time inside a
lifecycle. A start-up worker has no lock but a reservation, so `Alone` needs that there is none: the steady phase. The
module's boot run shows the properties that survive start-up.

**ReleaseTransaction.** The inductive invariant adds to the three properties that at most one journal is open, and for each
control point what is where: which directories exist, what the journal says, whether the flag is up.
Without it "recovery finds the good release" is not preserved, because recovery decides by
the combination of journal state and existing directories. `WorkAfterRecovery` follows from what it says of `prepare`. The refinement needs that
releases on disk are older than the running attempt (`Ages`), so that what is committed is newer.

**MediaProtection.** The inductive invariant is `TypeOK /\ Owned /\ Located /\ OnHold /\ Settled`. `Owned`: who works on media
servers owns the admission lock, and a known job means that nobody owns it; that is
what a start of a job under the free lock preserves. `OnHold`: a pending operation's
incident is active, awaits it and belongs to no other operation, and the monitor's incident
awaits nothing; so the monitor never holds the incident of an operation. `Settled` needs
both: the only step outside the lock that changes an incident's status is
`complete_planned`, and its incident is active, which a job at work has excluded.

That nothing is forgotten is four more parts. `Entries`: what an incident lists as changed or stopped it also lists as a
server, so a recovery, which goes through the servers, comes to it. `Opened`: whoever works on an incident works on one that is not recovered.
`Recovering`: a recovery without an error has nothing left of what it has behind it, so settling forgets nothing.
`Down`: what is held down does not run. The theorem about servers that were stopped needs nothing else; the one about guards needs
that a guard is saved where it is entered.

**NamespaceMigration.** The inductive invariant has ten parts. Three, with the types, need nothing of the faults: `Recorded` and `Excluded` (the
worker's job is the one on record, at the stage of the step that follows, and other users of the lock are away) and `Quiet` (what
each stage of the drain has brought down and guarded, so that the moves begin with nothing up). `Services`:
what runs, or is known to have run, is what ran. `Cutting` and `Undoing`, the heart of it: for each control point of the cut-over what has moved,
and for each of the rollback what is back, or else an error has been noted. `Bounded`: what a job begins with and
what it may end with; `Bundled`: the backup is there whenever a record asks for recovery, against the two-step cleanup. The last is `PauseIsRecorded` itself.
The properties are about pairs of files that one step cannot change together, so none is inductive without the control point between the two writes.

`Dependable`: the job record and the outcome of a rollback can be written, a removed link can be made again, and
"remind later" is not used while the worker reports. Everything else may fail, at any step, and the process may die anywhere.
`Restartable`: of the services `_stop_processes` has stopped when one resists, all start again. Without them TLC finds
counterexamples, on the instance of the run with one preflight and two faults:

| Allowed too | Violates |
|---|---|
| a write of the job record fails | all that assume `Dependable` |
| the write of the rollback's outcome fails | all that assume `Dependable` |
| a removed link cannot be made again | `UnsafeIsFrozen`, `RecoveryHasBundle`, `CleanRollbackRestores`, `CompletionIsWhole` |
| "remind later" while the worker reports | `UnsafeIsFrozen` |
| a stopped service does not start again | `CleanRollbackRestores` |

**PostgresMigration.** The inductive invariant is `TypeOK`, and for a service that is `Sheltered`: `OneAtWork` (of the jobs one at most has a worker),
`OneLive` and `TakenIsHeld` (the older ones are over, and what a job has taken it has not given away), `InPlace` (with no job
at work the configuration, the service's own settings and the running process agree on one database), and `Shapes`,
for each control point what was copied, imported, compared and selected. `Sheltered` holds for InfiniDysk whatever fails and whenever it is killed:
its durable marker, its bound rehearsal and the boot's look at the marker make it so. For another kind it says that nobody starts, stops
or reconfigures the service during its job, that the saves of the failure handler itself succeed, and for an Arr that DUMB is not killed and
the copy of config.xml back does not fail; finding 2 and section 4 say what happens otherwise. `InfiniDyskOneWorker` needs none of them.

**ServiceUpdates.** The inductive invariant has seven parts. `Places`: which locks are held at which control point and for which kind of update, and `StartedOnce`.
`Sourced`: a selection is what the operator saved last, or somebody who holds `updating` has changed it for a time and carries with it
what puts it back (`Returns`); so a save that comes in between survives. `Judged`: whoever has got past the two checks for a pin has met none, and a pin saved afterwards
is not undone. `SnapshotUsed`, `Written` and `Kept`: an update that has failed at most once finds, at each control point, the service untouched, or a copy of how it was,
or the service as it was again; a second failure is another one's or ends the promise.
`UpdatesAssumption` is what the configuration's schema and `Update`'s constructor give: selections that name the version they pin,
families and modes from their lists, distinct threads.

**MigrationAdmission.** Inductive is `Entitled`: who works has the lock or a token, and while a job blocks nobody does either. The three
refinements are proved from invariants of their modules. For the supervisor `Entitled` of that module and
`Owners`, that only a party owns the lock; each group of actions is then a step of the admission or leaves it alone, the steps of the SIGCHLD handler,
however nested, among the latter. For media protection `Owned`. For the namespace job `Recorded` and `Excluded`: the worker's
job is on record as active at each of its control points, and a kill, which takes the tokens away, leaves the record.

**ServiceSetup.** A setup runs a program, and programs are data. What the proofs take from them is a *chart*
(SetupPaths): nodes, each a place in a program with facts that hold whenever a setup is there (what has been cleared, looked up, patched), closed
under what may follow, and in order: nothing that is put back is changed before it was set aside, what is moved into place has been looked up, what
is built has been patched first. `Charted(Services, Nodes)` says so; TLC computes the charts of all 27 installers and evaluates it
of each (`ProgramsCharted` in MCServiceSetup; `Charts_together` joins them), and it depends neither on versions nor on how many setups, faults or kills there are. Everything that does is proved from
it. The inductive invariant: `Typed`; `Followed` (a setup under way stands at a node, whose facts hold); `Asides` and `Restored` (what is set aside, and what has been put
back, is what the setup found); `Agreeing`, `Dressing` and `Making` (what is installed, or set aside, between setups was
made with every patch its sources have, or with every patch there is). There is one lemma per operation of a program, and one for each way a setup can end.

`PinIsInstalled` relates what one setup leaves to what a later one takes for the pinned version, by marker, presence or recorded commit, differently for each
kind of installer, so facts of one program are not enough. It is about one version at a time, and nothing in the code
counts versions: it compares them. So what a setup looks like to somebody who can tell version V from all others and nothing else, a *sight* (PinnedSetups), has
finitely many forms however many versions there are. `After_sight` says what may be seen next, failures and kills included where the
service is expected to recover from them (`Survives`), any number of them. `Sighted(s, Seen)`: the first sights of service `s` are in `Seen`, `Seen` is closed under
`After_sight`, and whatever is about to succeed in it with V pinned has V installed. TLC computes the sights of all 27 services and evaluates it (`SetupsSighted`).
Proved is that this is what the model does: the inductive invariant (`Seeing`) is that for every version what is seen of the state is among the sights, with one
lemma per operation, that a step changes what is seen as `After_sight` says.

What TLC alone checks:

* liveness (`ShutdownReleasesLock`, `ThreadsFinish`, `EventuallyRecovered`), which the prover does not reach;
* that the installers' programs are `Charted` and their services `Sighted`, which are computations;
* what the violation runs show.

## 6. Plan

1. Proofs: each property that needs `Dependable` from those of its conditions that the table of section 5 shows; a migration seen from outside (whole, undone or marked)
   as the abstract specification of NamespaceMigration and PostgresMigration.
2. Start-up: readiness phases, the tiers of shutdown, the port reservations of `main.py` as a pure algorithm
   against "owners get distinct free ports".
3. The install cache's operations; connection manager, notification outbox, service reset, configuration saves.

## 7. Not modelled

The settings writers and integrations beside `utils/setup.py` are edits of other programs' files and calls to their
interfaces: data and I/O with little control. The install cache, service reset, notifications, connection manager and
configuration file have control worth modelling and are in the plan. Metrics, health reports, logging, AI
diagnostics and the rclone optimizer read state or measure. Authentication is cryptography and HTTP. The API routers
beyond the admitted requests validate, assemble and format. `PROJECT.json` lists each with its files.
