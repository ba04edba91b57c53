------------------------- MODULE NamespaceMigration -------------------------
(***************************************************************************)
(* The full namespace migration of InfiniDysk                              *)
(* (InfiniDyskMigrationManager, utils/infinidysk_migration.py): an         *)
(* operator's preflight authorises one background job that drains the      *)
(* linked services, moves the managed paths, rewrites the configuration,   *)
(* the symlinks, the database and the references held by Arr, Prowlarr and *)
(* media servers, and undoes all of it when a step raises.  The job record *)
(* on disk tells the next boot whether it may start services.              *)
(*                                                                         *)
(* A step of the worker ends with progress(), which saves the stage of the *)
(* step that follows; so at every control point the record names the work  *)
(* about to be done, and the process can die between any two of them.      *)
(* A managed path, the configuration, a reference ... is "old", "new", or  *)
(* "mixed" when a rewrite stopped half way.                                *)
(***************************************************************************)
EXTENDS Naturals, FiniteSets

CONSTANTS
  Provider,    \* the InfiniDysk process
  Prowlarrs,   \* request and search producers: Prowlarr ...
  Requesters,  \* ... and the others (NeutArr, Profilarr, Seerr)
  Arrs, Media, \* linked Arrs and media servers
  Paths,       \* number of paths to move
  FaultAt,     \* control points (and writes) that may raise, MaxFaults of them
               \* outside the cut-over, which ends at the first
  MaxFaults, MaxCrashes, MaxPreflights,  \* bounds
  MaxRequests, \* jobs started and other changes asked for
  RemindAt     \* control points of the worker at which "remind later" is used

Producers == Prowlarrs \cup Requesters
Apps == Arrs \cup Prowlarrs \cup Media

ASSUME NamespaceAssumption ==
  /\ Paths \in Nat /\ MaxFaults \in Nat /\ MaxCrashes \in Nat 
  /\ MaxPreflights \in Nat /\ MaxRequests \in Nat
  /\ Provider \notin Producers \cup Apps
  /\ Prowlarrs \cap Requesters = {} /\ Arrs \cap Producers = {}
  /\ Media \cap (Producers \cup Arrs) = {}

\* What most of the properties take for granted of the faults: the job record and the
\* outcome can be written, a removed link can be made again, and "remind later" is not used
\* while the worker saves how it ended.
Dependable ==
  /\ FaultAt \cap {"record", "rollback_save", "relink"} = {}
  /\ RemindAt \subseteq {"idle"}

VARIABLES
  \* the installation
  at, cfg, links, db, refs,   \* paths, configuration, link targets, database, references
  checks, guards,             \* repair.enable in InfiniDysk; media with a scan guard
  up,                         \* managed processes that run
  queued, busy, external,     \* Arrs with queued work, media in use, media DUMB cannot stop
  \* on disk
  job, state, pre, backup, saved,
  \* the worker thread
  pc, tok, running, moved, captured, cand, held, paused, errs, stopPlay,
  \* the other actors
  upc, seen, ext, updating,
  \* what was found at first, and when the job began
  checks0, up0,
  \* media whose scan settings a guard that could not be entered has changed: no job
  \* has a snapshot of them
  loose,
  faults, crashes, requests

place == <<at, cfg, links, db, refs>>
world == <<place, checks, guards, up>>
traffic == <<queued, busy, external>>
disk  == <<job, state, pre, backup, saved>>
local == <<tok, running, moved, captured, cand, held, paused, errs, stopPlay>>
actors == <<upc, seen, ext, updating>>
aside == <<checks0, up0, loose>>
bounds == <<faults, crashes, requests>>
vars == <<world, traffic, disk, pc, local, actors, aside, bounds>>

Managed == {Provider} \cup Producers \cup Arrs \cup (Media \ external)

Active == {"queued", "running", "rolling_back"}
RecoveryPending == {"interrupted", "rollback_attention_required"}
PreMutationStages == {"queued", "blocked", "validating", "preflight", "backup"}

ForwardPCs ==
  {"record_guard", "pause", "producers", "drain", "latch", "stop_all", "filesystem",
   "configuration", "symlinks", "database", "starting", "arr", "starting_prowlarr",
   "prowlarr", "media", "scan_guards", "health_checks", "starting_producers",
   "validation"}
RollbackPCs ==
  {"rollback", "rollback_stop", "rollback_symlinks", "rollback_paths",
   "rollback_symlink_manifest", "rollback_files", "rollback_config",
   "rollback_services", "rollback_health", "rollback_arr", "rollback_prowlarr",
   "rollback_media", "rollback_scan_guards", "rollback_save"}
EarlyPCs == {"validating", "preflight", "reload", "backup"}
PCs == {"idle", "down", "queued", "report", "report_done"}
         \cup EarlyPCs \cup ForwardPCs \cup RollbackPCs

\* The stage progress() saves before the step at p.
Stage(p) ==
  CASE p = "reload" -> "preflight"
    [] p \in {"record_guard", "pause"} -> "quiescing_health_checks"
    [] p \in {"producers", "drain", "latch", "stop_all"} -> "quiescing"
    [] p = "rollback_health" -> "rollback_services"
    [] p = "rollback_save" -> "rollback_scan_guards"
    [] p = "report_done" -> "validation"
    [] OTHER -> p

NoJob == [status |-> "none", stage |-> "none", from |-> "none", mine |-> FALSE]
NoPreflight == [gen |-> 0, blocked |-> TRUE, stale |-> FALSE, late |-> FALSE]

\* What get_job() makes of the record of a worker that died with its process.
Seen_BugKeepsActive(j) == j
Seen(j) == IF j.status \in Active /\ ~j.mine
           THEN [j EXCEPT !.status = "interrupted", !.from = j.stage,
                          !.stage = "interrupted"]
           ELSE j

PreMutation(j) == j.status = "interrupted" /\ j.from \in PreMutationStages
HasBlockingJob == Seen(job).status \in Active \cup RecoveryPending
HasRecoveryPendingJob ==
  \/ Seen(job).status = "rollback_attention_required"
  \/ Seen(job).status = "interrupted" /\ ~PreMutation(Seen(job))

\* _save_job: the record as the worker writes it.
Record(status, stage) ==
  [status |-> status, stage |-> stage, from |-> "none", mine |-> TRUE]

\* progress(): save the stage of the next step and go on.
Goto(next) ==
  /\ pc' = next
  /\ job' = IF next \in RollbackPCs THEN Record("rolling_back", Stage(next))
            ELSE IF next \in ForwardPCs \cup EarlyPCs \cup {"report_done"}
                 THEN Record("running", Stage(next))
                 ELSE job

TypeOK ==
  /\ at \in [1 .. Paths -> {"old", "new", "gone"}]
  /\ cfg \in {"old", "new"} /\ db \in {"old", "new"}
  /\ links \in {"old", "new", "mixed"}
  /\ refs \in [Apps -> {"old", "new", "mixed"}]
  /\ checks \in BOOLEAN /\ guards \subseteq Media /\ loose \subseteq Media
  /\ up \subseteq Managed
  /\ queued \subseteq Arrs /\ busy \subseteq Media /\ external \subseteq Media
  /\ job.status \in Active \cup RecoveryPending
                      \cup {"none", "completed", "failed", "failed_rolled_back"}
  /\ state.status \in {"pending", "snoozed", "completed", "failed_rolled_back",
                       "rollback_attention_required"}
  /\ state.mode \in {"none", "retain", "full"} /\ state.final \in BOOLEAN
  /\ pre.blocked \in BOOLEAN /\ pre.stale \in BOOLEAN /\ pre.late \in BOOLEAN
  /\ backup \in BOOLEAN
  /\ saved.health \in BOOLEAN /\ saved.scan \subseteq Media
  /\ pc \in PCs /\ running \subseteq Managed
  /\ moved \subseteq 1 .. Paths /\ captured \subseteq Arrs \cup Media
  /\ held \subseteq Media /\ paused \in {"no", "changed", "restored"}
  /\ errs \in BOOLEAN /\ stopPlay \in {"no", "offered", "asked"}
  /\ upc \in {"idle", "checked", "checked_reserved", "loaded", "removed", "forgotten"}
  /\ ext \in BOOLEAN /\ updating \in BOOLEAN

Init ==
  /\ at = [i \in 1 .. Paths |-> "old"]
  /\ cfg = "old" /\ links = "old" /\ db = "old"
  /\ refs = [a \in Apps |-> "old"]
  /\ checks \in BOOLEAN /\ checks0 = checks /\ guards = {} /\ loose = {}
  /\ external \in {{}, Media}
  /\ up = Managed /\ up0 = up
  /\ queued = Arrs /\ busy = Media
  /\ job = NoJob /\ state = [status |-> "pending", mode |-> "none", final |-> FALSE]
  /\ pre = NoPreflight
  /\ backup = FALSE /\ saved = [health |-> FALSE, scan |-> {}]
  /\ pc = "idle" /\ tok = 0 /\ running = {} /\ moved = {}
  /\ captured = {} /\ cand = Provider /\ held = {} /\ paused = "no"
  /\ errs = FALSE /\ stopPlay = "no"
  /\ upc = "idle" /\ seen = state /\ ext = FALSE /\ updating = FALSE
  /\ faults = 0 /\ crashes = 0 /\ requests = 0

---------------------------------------------------------------------------
\* Preflight.

\* No request holds the manager's _lock.
Unlocked == upc \in {"idle", "checked", "checked_reserved"}

\* Each inventory reports a blocker for a service of its kind that is not running.
Arr_snapshot_blocks == Arrs \ up # {}
Prowlarr_snapshot_blocks == Prowlarrs \ up # {}
Media_snapshot_blocks == Media \ (up \cup external) # {}
\* The filesystem plan: a path still to move whose destination is taken.  That, and what
\* it reports of devices and unmanaged roots, is not the migration's doing.
Namespace_filesystem_plan_blocks ==
  IF \E i \in 1 .. Paths : at[i] = "old" THEN BOOLEAN ELSE {FALSE}

\* preflight(): a new token; other blockers may be there or not.  late says the
\* preflight was taken after the interruption the record shows.
Preflight(reserved, stored) ==
  \E b \in Namespace_filesystem_plan_blocks :
     stored = [gen |-> pre.gen + 1, stale |-> FALSE, late |-> TRUE,
               blocked |-> \/ b \/ reserved \/ Arr_snapshot_blocks
                           \/ Prowlarr_snapshot_blocks \/ Media_snapshot_blocks]

\* The operator asks for a preflight: the job and the reservations are examined under
\* the admission lock, which is then released and taken again for the inventory.
PreflightCheck ==
  /\ pc # "down" /\ upc = "idle" /\ pre.gen < MaxPreflights
  /\ Seen(job).status \notin Active
  /\ upc' = (IF ext THEN "checked_reserved" ELSE "checked") /\ job' = Seen(job)
  /\ UNCHANGED <<world, traffic, state, pre, backup, saved, pc, local, seen, ext,
                 updating, aside, bounds>>

PreflightRun ==
  /\ upc \in {"checked", "checked_reserved"} /\ upc' = "idle"
  /\ \/ cfg = "new" /\ UNCHANGED pre
     \/ cfg = "old" /\ Preflight(upc = "checked_reserved", pre')
  /\ UNCHANGED <<world, traffic, job, state, backup, saved, pc, local, seen, ext,
                 updating, aside, bounds>>

\* start_full_namespace_job(): admission of the job, under both locks.
Start_full_namespace_job ==
  /\ pc = "idle" /\ Unlocked /\ requests < MaxRequests
  /\ ~ext
  /\ Seen(job).status \notin Active \cup {"rollback_attention_required"}
  /\ pre.gen > 0 /\ ~pre.blocked /\ ~pre.stale
  /\ Seen(job).status = "interrupted" => PreMutation(Seen(job)) /\ pre.late
  /\ pc' = "queued" /\ job' = Record("queued", "queued") /\ tok' = pre.gen
  /\ stopPlay' = "no" /\ up0' = up /\ requests' = requests + 1
  /\ UNCHANGED <<world, traffic, state, pre, backup, saved, running, moved,
                 captured, cand, held, paused, errs, actors, checks0, loose, faults,
                 crashes>>

---------------------------------------------------------------------------
\* The worker before anything is changed.

\* _run_full_namespace_job(): give up when an update holds the updater's lock.
Acquire ==
  /\ pc = "queued"
  /\ \/ /\ updating
        /\ job' = Record("failed", "blocked") /\ pc' = "idle"
        /\ UNCHANGED updating
     \/ /\ ~updating /\ updating' = TRUE
        /\ IF ext THEN pc' = "report" /\ UNCHANGED job ELSE Goto("validating")
  /\ UNCHANGED <<world, traffic, state, pre, backup, saved, local, upc, seen, ext,
                 aside, bounds>>

\* The stored preflight must still be the one the job was admitted with.
Validate ==
  /\ pc = "validating"
  /\ IF pre.gen = tok /\ ~pre.blocked /\ ~pre.stale /\ cfg = "old"
     THEN Goto("preflight")
     ELSE pc' = "report" /\ UNCHANGED job
  /\ UNCHANGED <<world, traffic, state, pre, backup, saved, local, actors, aside,
                 bounds>>

\* Safety checks are repeated, under the locks the operator's preflight takes.
Recheck ==
  /\ pc = "preflight" /\ Unlocked
  /\ Preflight(ext, pre')
  /\ IF pre'.blocked THEN pc' = "report" /\ UNCHANGED job ELSE Goto("reload")
  /\ UNCHANGED <<world, traffic, state, backup, saved, local, actors, aside, bounds>>

\* The inventory used from here on is the one now on disk.
Reload ==
  /\ pc = "reload" /\ Goto("backup")
  /\ UNCHANGED <<world, traffic, state, pre, backup, saved, local, actors, aside,
                 bounds>>

\* The lists of what the job has changed, by which it is undone, start empty.
Nothing_done_yet ==
  /\ running' = {} /\ moved' = {} /\ captured' = {} /\ held' = {}
  /\ paused' = "no" /\ errs' = FALSE

\* _create_namespace_backup().
Backup ==
  /\ pc = "backup"
  /\ backup' = TRUE /\ saved' = [health |-> FALSE, scan |-> {}]
  /\ Nothing_done_yet
  /\ Goto("record_guard")
  /\ UNCHANGED <<world, traffic, state, pre, tok, cand, stopPlay, actors, aside,
                 bounds>>

---------------------------------------------------------------------------
\* Draining the services and holding them stopped.

\* The guard is written to the bundle before the setting is changed.
RecordGuard_BugAfterPause ==
  /\ pc = "record_guard"
  /\ Goto("pause")
  /\ UNCHANGED <<world, traffic, state, pre, backup, saved, local, actors, aside,
                 bounds>>
RecordGuard ==
  /\ pc = "record_guard"
  /\ saved' = [saved EXCEPT !.health = TRUE]
  /\ Goto("pause")
  /\ UNCHANGED <<world, traffic, state, pre, backup, local, actors, aside, bounds>>

\* _pause_infinidysk_health_checks(): only a provider that runs with them on.
Pause ==
  /\ pc = "pause"
  /\ IF Provider \in up /\ checks
     THEN checks' = FALSE /\ paused' = "changed"
     ELSE paused' = "restored" /\ UNCHANGED checks
  /\ Goto("producers")
  /\ UNCHANGED <<place, guards, up, traffic, state, pre, backup, saved, tok,
                 running, moved, captured, cand, held, errs, stopPlay, actors, aside,
                 bounds>>

\* _stop_processes(): what ran of S is stopped and remembered.
Stop_processes(S) ==
  /\ up' = up \ S
  /\ running' = running \cup (S \cap up)

StopProducers ==
  /\ pc = "producers"
  /\ Stop_processes(Producers)
  /\ Goto("drain")
  /\ UNCHANGED <<place, checks, guards, traffic, state, pre, backup, saved, tok,
                 moved, captured, cand, held, paused, errs, stopPlay, actors, aside,
                 bounds>>

\* An Arr whose queue was empty before and after its inventory is chosen ...
ArrInventory(a) ==
  /\ pc = "drain" /\ a \notin captured /\ a \notin queued
  /\ cand' = a /\ Goto("latch")
  /\ UNCHANGED <<world, traffic, state, pre, backup, saved, tok, running, moved,
                 captured, held, paused, errs, stopPlay, actors, aside, bounds>>

\* ... and stopped.
Latch ==
  /\ pc = "latch"
  /\ Stop_processes({cand}) /\ captured' = captured \cup {cand}
  /\ cand' = Provider
  /\ Goto("drain")
  /\ UNCHANGED <<place, checks, guards, traffic, state, pre, backup, saved, tok,
                 moved, held, paused, errs, stopPlay, actors, aside, bounds>>

\* A media server that is idle, or whose playback the operator allowed to stop, gets
\* a scan guard and is stopped; an external one cannot be stopped.
CaptureMedia(m) ==
  /\ pc = "drain" /\ m \notin captured
  /\ m \notin busy \/ (stopPlay = "asked" /\ m \notin external)
  /\ guards' = guards \cup {m} /\ held' = held \cup {m}
  /\ captured' = captured \cup {m}
  /\ Stop_processes({m} \ external)
  /\ busy' = busy \ ({m} \ external)
  /\ Goto("drain")
  /\ UNCHANGED <<place, checks, queued, external, state, pre, backup, saved, tok, moved,
                 cand, paused, errs, stopPlay, actors, aside, bounds>>

\* The end of a round: offer to stop the playback that is left, or end the request.
OfferStop ==
  /\ pc = "drain"
  /\ LET open == (Media \ external) \ captured IN
       stopPlay' = IF stopPlay = "asked" /\ open # {} THEN "asked"
                   ELSE IF stopPlay # "asked" /\ open \cap busy # {} THEN "offered"
                   ELSE "no"
  /\ UNCHANGED <<world, traffic, disk, pc, tok, running, moved, captured, cand,
                 held, paused, errs, actors, aside, bounds>>

\* Everything is captured and no external server is in use again.
Drained ==
  /\ pc = "drain" /\ Arrs \cup Media \subseteq captured
  /\ external \cap busy = {}
  /\ Goto("stop_all")
  /\ UNCHANGED <<world, traffic, state, pre, backup, saved, local, actors, aside,
                 bounds>>

\* Every affected process is stopped; the guards entered so far are written down.
StopAll_BugTrustsTheDrain ==
  /\ pc = "stop_all"
  /\ Stop_processes(Arrs \cup Media) /\ stopPlay' = "no"
  /\ saved' = [saved EXCEPT !.scan = held]
  /\ Goto("filesystem")
  /\ UNCHANGED <<place, checks, guards, traffic, state, pre, backup, tok, moved,
                 captured, cand, held, paused, errs, actors, aside, bounds>>
StopAll ==
  /\ pc = "stop_all"
  /\ Stop_processes(Managed) /\ stopPlay' = "no"
  /\ saved' = [saved EXCEPT !.scan = held]
  /\ Goto("filesystem")
  /\ UNCHANGED <<place, checks, guards, traffic, state, pre, backup, tok, moved,
                 captured, cand, held, paused, errs, actors, aside, bounds>>

---------------------------------------------------------------------------
\* The cut-over.

\* _move_namespace_paths(): one rename after the other.
MovePath ==
  /\ pc = "filesystem"
  /\ \E i \in 1 .. Paths :
       /\ at[i] = "old" /\ \A j \in 1 .. i - 1 : at[j] # "old"
       /\ at' = [at EXCEPT ![i] = "new"] /\ moved' = moved \cup {i}
  /\ UNCHANGED <<cfg, links, db, refs, checks, guards, up, traffic, disk, pc, tok,
                 running, captured, cand, held, paused, errs, stopPlay, actors, aside,
                 bounds>>
PathsMoved ==
  /\ pc = "filesystem" /\ \A i \in 1 .. Paths : at[i] # "old"
  /\ Goto("configuration")
  /\ UNCHANGED <<world, traffic, state, pre, backup, saved, local, actors, aside,
                 bounds>>

SaveConfiguration ==
  /\ pc = "configuration"
  /\ cfg' = "new" /\ Goto("symlinks")
  /\ UNCHANGED <<at, links, db, refs, checks, guards, up, traffic, state, pre, backup,
                 saved, local, actors, aside, bounds>>

\* Link targets are rewritten; then paths and targets are validated.
RewriteSymlinks ==
  /\ pc = "symlinks"
  /\ links' = "new" /\ Goto("database")
  /\ UNCHANGED <<at, cfg, db, refs, checks, guards, up, traffic, state, pre, backup,
                 saved, local, actors, aside, bounds>>

\* _migrate_infinidysk_database(): one transaction.
Migrate_infinidysk_database ==
  /\ pc = "database"
  /\ db' = "new" /\ Goto("starting")
  /\ UNCHANGED <<at, cfg, links, refs, checks, guards, up, traffic, state, pre, backup,
                 saved, local, actors, aside, bounds>>

\* _start_processes(): all of S that ran before.
Start_processes(S) == up' = up \cup (S \cap running)

\* The stage that follows the references of one group of services.
After(group) == CASE group = "arr" -> "starting_prowlarr" [] group = "prowlarr" -> "media"
                  [] group = "media" -> "scan_guards"

Restart(stage, S, next) ==
  /\ pc = stage
  /\ Start_processes(S) /\ Goto(next)
  /\ UNCHANGED <<place, checks, guards, traffic, state, pre, backup, saved, local,
                 actors, aside, bounds>>
StartServices == Restart("starting", Managed \ Producers, "arr")
StartProwlarr == Restart("starting_prowlarr", Prowlarrs, "prowlarr")
StartProducers == Restart("starting_producers", Requesters, "validation")

\* The references a service holds are rewritten through its API, old to new or back ...
Reachable(a) == a \in up \cup external
Desired(v) == IF v = "old" THEN "new" ELSE "old"
Apply_snapshot(a, original) ==
  /\ Reachable(a)
  /\ refs' = [refs EXCEPT ![a] = Desired(original)]
\* ... read back, and compared with the files the service will find there.
Validate_snapshot(a, original) == refs'[a] = Desired(original)
Validate_filesystem == links = "new" /\ \A i \in 1 .. Paths : at[i] # "old"

UpdateReferences(group, members, a) ==
  /\ pc = group /\ a \in members /\ refs[a] # "new"
  /\ Apply_snapshot(a, "old") /\ Validate_snapshot(a, "old")
  /\ group # "prowlarr" => Validate_filesystem
  /\ Goto(group)
  /\ UNCHANGED <<at, cfg, links, db, checks, guards, up, traffic, state, pre, backup,
                 saved, local, actors, aside, bounds>>
ReferencesDone(group, members) ==
  /\ pc = group /\ \A a \in members : refs[a] = "new"
  /\ Goto(After(group))
  /\ UNCHANGED <<world, traffic, state, pre, backup, saved, local, actors, aside,
                 bounds>>
UpdateArr(a) == UpdateReferences("arr", Arrs, a)
UpdateProwlarr(a) == UpdateReferences("prowlarr", Prowlarrs, a)
UpdateMedia(a) == UpdateReferences("media", Media, a)

RestoreScanGuards ==
  /\ pc = "scan_guards"
  /\ guards' = guards \ held /\ Goto("health_checks")
  /\ UNCHANGED <<place, checks, up, traffic, state, pre, backup, saved, local, actors,
                 aside, bounds>>

\* _restore_infinidysk_health_checks() on a provider that runs.
RestoreHealthChecks_BugForgets ==
  /\ pc = "health_checks"
  /\ paused' = "restored" /\ UNCHANGED checks
  /\ Goto("starting_producers")
  /\ UNCHANGED <<place, guards, up, traffic, state, pre, backup, saved, tok,
                 running, moved, captured, cand, held, errs, stopPlay, actors, aside,
                 bounds>>
RestoreHealthChecks ==
  /\ pc = "health_checks"
  /\ paused = "changed" => Provider \in up
  /\ checks' = (IF paused = "changed" THEN checks0 ELSE checks) /\ paused' = "restored"
  /\ Goto("starting_producers")
  /\ UNCHANGED <<place, guards, up, traffic, state, pre, backup, saved, tok,
                 running, moved, captured, cand, held, errs, stopPlay, actors, aside,
                 bounds>>

\* The last validation; the state says completed before the job does.
Complete ==
  /\ pc = "validation" /\ cfg = "new"
  /\ state' = [status |-> "completed", mode |-> "full", final |-> FALSE]
  /\ Goto("report_done")
  /\ UNCHANGED <<world, traffic, pre, backup, saved, local, actors, aside, bounds>>

ReportDone ==
  /\ pc = "report_done"
  /\ job' = Record("completed", "completed") /\ pc' = "idle" /\ updating' = FALSE
  /\ UNCHANGED <<world, traffic, state, pre, backup, saved, local, upc, seen, ext,
                 aside, bounds>>

---------------------------------------------------------------------------
\* A step raises.

Raises == pc \in FaultAt /\ faults < MaxFaults /\ faults' = faults + 1

\* Nothing catches what is raised before the try block, after the completed state was
\* saved, or by progress() between two steps of the rollback.
Uncaught ==
  /\ \/ pc \in EarlyPCs \cup {"report_done"} /\ Raises
     \/ /\ pc \in RollbackPCs \ {"rollback_save"} /\ "record" \in FaultAt
        /\ faults < MaxFaults /\ faults' = faults + 1
  /\ pc' = "report"
  /\ UNCHANGED <<world, traffic, disk, local, actors, aside, crashes, requests>>

\* What the failing step has changed already.
FaultEffect ==
  \/ /\ pc \in {"record_guard", "producers", "drain", "latch", "stop_all",
                 "configuration", "database", "validation"}
     /\ UNCHANGED <<world, moved, held, errs>>
  \* update-config was applied and its confirmation was lost
  \/ /\ pc = "pause" /\ Provider \in up /\ checks' \in {checks, FALSE}
     /\ UNCHANGED <<place, guards, up, moved, held, errs>>
  \* a scan guard was entered, and the server would not stop
  \/ /\ pc = "drain"
     /\ \E m \in Media \ captured : guards' = guards \cup {m} /\ held' = held \cup {m}
     /\ UNCHANGED <<place, checks, up, moved, errs>>
  \* _stop_processes cannot restart what it stopped before the one that resists
  \/ /\ pc \in {"producers", "stop_all"} /\ "restart" \in FaultAt
     /\ \E p \in up : up' = up \ {p}
     /\ UNCHANGED <<place, checks, guards, moved, held, errs>>
  \* the moves made are undone at once, or some cannot be
  \/ /\ pc = "filesystem"
     /\ \E kept \in {{}} \cup (IF "rollback_paths" \in FaultAt THEN SUBSET moved ELSE {}) :
          /\ at' = [i \in 1 .. Paths |-> IF i \in moved \ kept THEN "old" ELSE at[i]]
          /\ errs' = (kept # {})
     /\ moved' = {}
     /\ UNCHANGED <<cfg, links, db, refs, checks, guards, up, held>>
  \* a moved link is removed and cannot be made again
  \/ /\ pc = "filesystem" /\ "relink" \in FaultAt
     /\ \E i \in 1 .. Paths :
          /\ at[i] = "old" /\ \A j \in 1 .. i - 1 : at[j] # "old"
          /\ at' = [j \in 1 .. Paths |-> IF j = i THEN "gone"
                                        ELSE IF j \in moved THEN "old" ELSE at[j]]
     /\ moved' = {}
     /\ UNCHANGED <<cfg, links, db, refs, checks, guards, up, held, errs>>
  \/ /\ pc = "symlinks" /\ links' \in {"old", "mixed", "new"}
     /\ UNCHANGED <<at, cfg, db, refs, checks, guards, up, moved, held, errs>>
  \* some of the processes have been started
  \/ /\ pc \in {"starting", "starting_prowlarr", "starting_producers"}
     /\ \E S \in SUBSET running : Start_processes(S)
     /\ UNCHANGED <<place, checks, guards, moved, held, errs>>
  \/ /\ \E a \in Apps, v \in {"mixed", "new"} :
          /\ \/ pc = "arr" /\ a \in Arrs
             \/ pc = "prowlarr" /\ a \in Prowlarrs
             \/ pc = "media" /\ a \in Media
          /\ refs[a] = "old" /\ refs' = [refs EXCEPT ![a] = v]
     /\ UNCHANGED <<at, cfg, links, db, checks, guards, up, moved, held, errs>>
  \/ /\ pc = "scan_guards" /\ \E S \in SUBSET guards : guards' = S
     /\ UNCHANGED <<place, checks, up, moved, held, errs>>
  \/ /\ pc = "health_checks" /\ checks' \in {checks, checks0}
     /\ UNCHANGED <<place, guards, up, moved, held, errs>>

\* enter_scan_guard() turns the tasks and libraries of a server off one by one; when it
\* raises between two of them, the snapshot it would have returned is lost.
HalfGuarded ==
  /\ pc = "drain" /\ guards' = guards
  /\ \E m \in Media \ captured : loose' = loose \cup {m}

\* The exception is caught and the rollback begins, its first record saved.
Fault ==
  /\ pc \in ForwardPCs \cap FaultAt
  /\ FaultEffect /\ (UNCHANGED loose \/ HalfGuarded)
  /\ Goto("rollback")
  /\ UNCHANGED <<traffic, state, pre, backup, saved, tok, running, captured, cand,
                 paused, stopPlay, actors, checks0, up0, faults, crashes, requests>>

\* The hour given to the drain is over before anything was moved.
QuiesceTimeout ==
  /\ pc = "drain" /\ Goto("rollback")
  /\ UNCHANGED <<world, traffic, state, pre, backup, saved, local, actors, aside,
                 bounds>>

---------------------------------------------------------------------------
\* The rollback: every step catches its errors and the next one is taken.

Works == UNCHANGED <<faults, errs>>
Fails == Raises /\ errs' = TRUE

\* A provider that still runs gets its setting back first.
RollbackHealth ==
  /\ pc = "rollback"
  /\ IF paused = "changed" /\ Provider \in up
     THEN \/ Works /\ checks' = checks0 /\ paused' = "restored"
          \/ Fails /\ UNCHANGED <<checks, paused>>
     ELSE Works /\ UNCHANGED <<checks, paused>>
  /\ Goto("rollback_stop")
  /\ UNCHANGED <<place, guards, up, traffic, state, pre, backup, saved, tok,
                 running, moved, captured, cand, held, stopPlay, actors, aside,
                 crashes, requests>>

\* What was restarted is stopped again, and a provider that was never stopped; when
\* one of them resists, those stopped before it are started again.
RollbackStop ==
  /\ pc = "rollback_stop"
  /\ LET found == {Provider} \cap up IN
       /\ running' = running \cup found
       /\ \/ Works /\ up' = up \ (running \cup found)
          \/ Fails /\ UNCHANGED up
  /\ Goto("rollback_symlinks")
  /\ UNCHANGED <<place, checks, guards, traffic, state, pre, backup, saved, tok, moved,
                 captured, cand, held, paused, stopPlay, actors, aside, crashes,
                 requests>>

RollbackSymlinks ==
  /\ pc = "rollback_symlinks"
  /\ \/ Works /\ links' = IF moved = {} THEN links ELSE "old"
     \/ Fails /\ links' \in {links, "mixed"}
  /\ Goto("rollback_paths")
  /\ UNCHANGED <<at, cfg, db, refs, checks, guards, up, traffic, state, pre, backup,
                 saved, tok, running, moved, captured, cand, held, paused,
                 stopPlay, actors, aside, crashes, requests>>

\* _rollback_namespace_paths(): in reverse, each rename on its own.
RollbackPaths ==
  /\ pc = "rollback_paths"
  /\ \E kept \in SUBSET moved :
       /\ at' = [i \in 1 .. Paths |-> IF i \in moved \ kept THEN "old" ELSE at[i]]
       /\ IF kept = {} THEN Works ELSE Fails
  /\ Goto("rollback_symlink_manifest")
  /\ UNCHANGED <<cfg, links, db, refs, checks, guards, up, traffic, state, pre, backup,
                 saved, tok, running, moved, captured, cand, held, paused,
                 stopPlay, actors, aside, crashes, requests>>

\* The captured catalog, unless a root is not back.
RollbackManifest ==
  /\ pc = "rollback_symlink_manifest"
  /\ \/ /\ \A i \in 1 .. Paths : at[i] # "new"
        /\ Works /\ links' = "old"
     \/ Fails /\ UNCHANGED links
     \/ /\ \E i \in 1 .. Paths : at[i] = "new"
        /\ errs' = TRUE /\ UNCHANGED <<faults, links>>
  /\ Goto("rollback_files")
  /\ UNCHANGED <<at, cfg, db, refs, checks, guards, up, traffic, state, pre, backup,
                 saved, tok, running, moved, captured, cand, held, paused,
                 stopPlay, actors, aside, crashes, requests>>

\* _restore_backup_files(): the database of the backup, with the setting in it.
RollbackFiles ==
  /\ pc = "rollback_files"
  /\ \/ Works /\ db' = "old" /\ checks' = checks0
     \/ Fails /\ UNCHANGED <<db, checks>>
  /\ Goto("rollback_config")
  /\ UNCHANGED <<at, cfg, links, refs, guards, up, traffic, state, pre, backup, saved,
                 tok, running, moved, captured, cand, held, paused, stopPlay,
                 actors, aside, crashes, requests>>

RollbackConfig ==
  /\ pc = "rollback_config"
  /\ \/ Works /\ cfg' = "old"
     \/ Fails /\ UNCHANGED cfg
  /\ Goto("rollback_services")
  /\ UNCHANGED <<at, links, db, refs, checks, guards, up, traffic, state, pre, backup,
                 saved, tok, running, moved, captured, cand, held, paused,
                 stopPlay, actors, aside, crashes, requests>>

\* Everything that ran is started; the errors are collected.
RollbackServices_BugDropsErrors ==
  /\ pc = "rollback_services"
  /\ \E S \in SUBSET running : Start_processes(S)
  /\ Works
  /\ Goto("rollback_health")
  /\ UNCHANGED <<place, checks, guards, traffic, state, pre, backup, saved, tok,
                 running, moved, captured, cand, held, paused, stopPlay, actors, aside,
                 crashes, requests>>
RollbackServices ==
  /\ pc = "rollback_services"
  /\ \E S \in SUBSET running :
       Start_processes(S) /\ IF S = running THEN Works ELSE Fails
  /\ Goto("rollback_health")
  /\ UNCHANGED <<place, checks, guards, traffic, state, pre, backup, saved, tok,
                 running, moved, captured, cand, held, paused, stopPlay, actors, aside,
                 crashes, requests>>

\* The setting once more: set it, or read it from the restored database.
RollbackHealthAgain ==
  /\ pc = "rollback_health"
  /\ \/ paused # "changed" /\ Works /\ UNCHANGED <<checks, paused>>
     \/ /\ paused = "changed" /\ Provider \in up
        /\ Works /\ checks' = checks0 /\ paused' = "restored"
     \/ /\ paused = "changed" /\ Provider \notin up /\ UNCHANGED <<faults, checks>>
        /\ IF checks = checks0 THEN paused' = "restored" /\ UNCHANGED errs
           ELSE errs' = TRUE /\ UNCHANGED paused
     \/ paused = "changed" /\ Fails /\ UNCHANGED <<checks, paused>>
  /\ Goto("rollback_arr")
  /\ UNCHANGED <<place, guards, up, traffic, state, pre, backup, saved, tok,
                 running, moved, captured, cand, held, stopPlay, actors, aside,
                 crashes, requests>>

\* The captured references are written back; a service out of reach is an error.
RestoreReferences(stage, group, next) ==
  /\ pc = stage
  /\ \E lost \in SUBSET {a \in group : Reachable(a)} :
       LET back == {a \in group : Reachable(a)} \ lost IN
       /\ refs' = [a \in Apps |-> IF a \in back THEN "old" ELSE refs[a]]
       /\ IF lost # {} THEN Fails
          ELSE errs' = (errs \/ back # group) /\ UNCHANGED faults
  /\ Goto(next)
  /\ UNCHANGED <<at, cfg, links, db, checks, guards, up, traffic, state, pre, backup,
                 saved, tok, running, moved, captured, cand, held, paused,
                 stopPlay, actors, aside, crashes, requests>>
RollbackArr == RestoreReferences("rollback_arr", Arrs, "rollback_prowlarr")
RollbackProwlarr == RestoreReferences("rollback_prowlarr", Prowlarrs, "rollback_media")
RollbackMedia == RestoreReferences("rollback_media", Media, "rollback_scan_guards")

RollbackScanGuards ==
  /\ pc = "rollback_scan_guards"
  /\ \/ Works /\ guards' = guards \ held
     \/ Fails /\ UNCHANGED guards
  /\ Goto("rollback_save")
  /\ UNCHANGED <<place, checks, up, traffic, state, pre, backup, saved, tok,
                 running, moved, captured, cand, held, paused, stopPlay, actors, aside,
                 crashes, requests>>

\* How it ended goes into the state file; an OSError of that write is ignored.
RollbackSave ==
  /\ pc = "rollback_save" /\ pc' = "report"
  /\ \/ /\ state' = [state EXCEPT !.status = IF errs THEN "rollback_attention_required"
                                              ELSE "failed_rolled_back"]
        /\ UNCHANGED faults
     \/ Raises /\ UNCHANGED state
  /\ UNCHANGED <<world, traffic, job, pre, backup, saved, local, actors, aside, crashes,
                 requests>>

\* _run_full_namespace_job() takes the outcome from the state file.
Report ==
  /\ pc = "report" /\ pc' = "idle" /\ updating' = FALSE
  /\ \/ LET outcome == IF state.status \in {"failed_rolled_back",
                                           "rollback_attention_required"}
                       THEN state.status ELSE "failed"
        IN job' = Record(outcome, outcome) /\ UNCHANGED faults
     \/ /\ "record" \in FaultAt /\ faults < MaxFaults /\ faults' = faults + 1
        /\ UNCHANGED job
  /\ UNCHANGED <<world, traffic, state, pre, backup, saved, local, upc, seen, ext,
                 aside, crashes, requests>>

---------------------------------------------------------------------------
\* The operator, other jobs of DUMB, traffic, and the death of the process.

\* request_playback_stop(): only what a round has offered.
Request_playback_stop ==
  /\ pc \in ForwardPCs /\ job.stage = "quiescing" /\ stopPlay = "offered"
  /\ stopPlay' = "asked"
  /\ UNCHANGED <<world, traffic, disk, pc, tok, running, moved, captured, cand,
                 held, paused, errs, actors, aside, bounds>>

\* remind_later() reads and writes the state file under _lock, which the worker does
\* not take when it saves the outcome.
RemindLoad ==
  /\ pc \in RemindAt \ {"down"} /\ upc = "idle" /\ requests < MaxRequests
  /\ upc' = "loaded" /\ seen' = state /\ requests' = requests + 1
  /\ UNCHANGED <<world, traffic, disk, pc, local, ext, updating, aside, faults,
                 crashes>>
RemindSave ==
  /\ upc = "loaded" /\ upc' = "idle"
  /\ state' = [seen EXCEPT !.status = IF seen.status = "completed" THEN "completed"
                                      ELSE "snoozed"]
  /\ UNCHANGED <<world, traffic, job, pre, backup, saved, pc, local, seen, ext,
                 updating, aside, bounds>>

\* apply_brand_cutover(): the identity without the paths; all of it or nothing.
Apply_brand_cutover ==
  /\ pc = "idle" /\ upc = "idle" /\ ~ext /\ ~updating /\ requests < MaxRequests
  /\ ~HasBlockingJob /\ state.status # "completed" /\ cfg = "old"
  /\ state' = [status |-> "completed", mode |-> "retain", final |-> FALSE]
  /\ pre' = [pre EXCEPT !.stale = TRUE] /\ requests' = requests + 1
  /\ UNCHANGED <<world, traffic, job, backup, saved, pc, local, actors, aside, faults,
                 crashes>>

\* What cleanup() and its preview ask: a completed migration that still is what the
\* configuration says, and a job record that says so too, read as it is and not as
\* get_job() would mark it.
Cleanup_context == state.status = "completed" /\ (state.mode = "full" => cfg = "new")
Load_job_readonly == job
Cleanup_plan == Cleanup_context /\ Load_job_readonly.status \in {"none", "completed"}
Cleanup_preview == ~state.final /\ Cleanup_plan

\* cleanup(): bundles, then the job and the preflight, then the marker; an error or
\* a crash leaves the rest for another try.
Cleanup_BugAnyJob ==
  /\ pc # "down" /\ upc = "idle" /\ ~ext
  /\ state.status = "completed" /\ ~state.final
  /\ upc' = "removed" /\ backup' = FALSE
  /\ UNCHANGED <<world, traffic, job, state, pre, saved, pc, local, seen, ext, updating,
                 aside, bounds>>
Cleanup ==
  /\ pc # "down" /\ upc = "idle" /\ ~ext
  /\ Cleanup_preview
  /\ upc' = "removed" /\ backup' = FALSE
  /\ UNCHANGED <<world, traffic, job, state, pre, saved, pc, local, seen, ext, updating,
                 aside, bounds>>
CleanupSidecars ==
  /\ upc = "removed"
  /\ upc' = "forgotten" /\ job' = NoJob /\ pre' = NoPreflight
  /\ UNCHANGED <<world, traffic, state, backup, saved, pc, local, seen, ext, updating,
                 aside, bounds>>
CleanupFinalize ==
  /\ upc = "forgotten" /\ upc' = "idle"
  /\ state' = [state EXCEPT !.final = TRUE]
  /\ UNCHANGED <<world, traffic, job, pre, backup, saved, pc, local, seen, ext,
                 updating, aside, bounds>>

\* reserve_infinidysk_external_mutation(): something else changes services or the
\* configuration, and says so.
Reserve_BugIgnoresJob ==
  /\ pc # "down" /\ ~ext /\ upc \notin {"removed", "forgotten"} /\ requests < MaxRequests
  /\ ext' = TRUE /\ requests' = requests + 1 /\ job' = Seen(job)
  /\ UNCHANGED <<world, traffic, state, pre, backup, saved, pc, local, upc, seen,
                 updating, aside, faults, crashes>>
Reserve ==
  /\ pc # "down" /\ ~ext /\ upc \notin {"removed", "forgotten"} /\ requests < MaxRequests
  /\ ~HasBlockingJob
  /\ ext' = TRUE /\ requests' = requests + 1 /\ job' = Seen(job)
  /\ UNCHANGED <<world, traffic, state, pre, backup, saved, pc, local, upc, seen,
                 updating, aside, faults, crashes>>
Release ==
  /\ ext /\ ext' = FALSE
  /\ \E p \in Managed : up' \in {up, up \cup {p}, up \ {p}}
  /\ pre' = [pre EXCEPT !.stale = TRUE]
  /\ UNCHANGED <<place, checks, guards, traffic, job, state, backup, saved, pc, local,
                 upc, seen, updating, aside, bounds>>

\* A service update takes and releases the updater's lock.
Update ==
  /\ pc \in {"idle", "queued"}
  /\ updating' = ~updating
  /\ UNCHANGED <<world, traffic, disk, pc, local, upc, seen, ext, aside, bounds>>

\* Producers fill the queue of a running Arr and it works them off; viewers come and go.
\* (Only the drain looks, so only there does it matter.)
Traffic ==
  /\ pc \in {"pause", "producers", "drain", "latch", "stop_all"}
  /\ \/ \E a \in Arrs \cap up :
          /\ queued' \in {queued \ {a}}
                        \cup (IF Producers \cap up # {} THEN {queued \cup {a}} ELSE {})
          /\ UNCHANGED busy
     \/ \E m \in Media \cap (up \cup external) :
          /\ busy' \in {busy \cup {m}, busy \ {m}}
          /\ UNCHANGED queued
  /\ UNCHANGED <<world, external, disk, pc, local, actors, aside, bounds>>

Crash ==
  /\ pc # "down" /\ crashes < MaxCrashes /\ crashes' = crashes + 1
  /\ pc' = "down" /\ up' = {}
  /\ job' = [job EXCEPT !.mine = FALSE] /\ pre' = [pre EXCEPT !.late = FALSE]
  /\ tok' = 0 /\ running' = {} /\ moved' = {} /\ captured' = {}
  /\ cand' = Provider /\ held' = {} /\ paused' = "no" /\ errs' = FALSE
  /\ stopPlay' = "no"
  /\ upc' = "idle" /\ ext' = FALSE /\ updating' = FALSE
  /\ UNCHANGED <<place, checks, guards, traffic, state, backup, saved, seen, aside,
                 faults, requests>>

\* A boot marks the interrupted job and, unless recovery is pending, starts services.
Boot ==
  /\ pc = "down" /\ pc' = "idle"
  /\ job' = Seen(job) /\ up' = (IF HasRecoveryPendingJob THEN {} ELSE Managed)
  /\ up0' = up'
  /\ UNCHANGED <<place, checks, guards, traffic, state, pre, backup, saved, local,
                 actors, checks0, loose, bounds>>

Early == Acquire \/ Validate \/ Recheck \/ Reload \/ Backup \/ Uncaught
Quiesce ==
  \/ RecordGuard \/ Pause \/ StopProducers \/ Latch \/ OfferStop \/ Drained \/ StopAll
  \/ \E a \in Arrs : ArrInventory(a)
  \/ \E m \in Media : CaptureMedia(m)
  \/ QuiesceTimeout
Cutover ==
  \/ MovePath \/ PathsMoved \/ SaveConfiguration \/ RewriteSymlinks
  \/ Migrate_infinidysk_database \/ StartServices \/ StartProwlarr \/ StartProducers
  \/ \E a \in Apps : UpdateArr(a) \/ UpdateProwlarr(a) \/ UpdateMedia(a)
  \/ ReferencesDone("arr", Arrs) \/ ReferencesDone("prowlarr", Prowlarrs)
  \/ ReferencesDone("media", Media)
  \/ RestoreScanGuards \/ RestoreHealthChecks \/ Complete \/ ReportDone
RollingBack ==
  \/ Fault \/ RollbackHealth \/ RollbackStop \/ RollbackSymlinks
  \/ RollbackPaths \/ RollbackManifest \/ RollbackFiles \/ RollbackConfig
  \/ RollbackServices \/ RollbackHealthAgain \/ RollbackArr \/ RollbackProwlarr
  \/ RollbackMedia \/ RollbackScanGuards \/ RollbackSave \/ Report
Worker == Early \/ Quiesce \/ Cutover \/ RollingBack

Operator ==
  \/ PreflightCheck \/ PreflightRun \/ Start_full_namespace_job
  \/ Request_playback_stop \/ RemindLoad \/ RemindSave \/ Apply_brand_cutover
  \/ Cleanup \/ CleanupSidecars \/ CleanupFinalize

Next == \/ Worker \/ Operator \/ Reserve \/ Release \/ Update \/ Traffic \/ Crash \/ Boot

\* The worker is a thread that runs until it ends, the drain has a deadline, and the
\* container is restarted after a crash.
Fairness ==
  /\ WF_vars(Worker) /\ WF_vars(QuiesceTimeout) /\ WF_vars(Boot)
  /\ WF_vars(RemindSave \/ CleanupSidecars \/ CleanupFinalize)

Spec == Init /\ [][Next]_vars /\ Fairness

---------------------------------------------------------------------------
\* Properties.

\* Everything is as it was before the job, services aside, and the settings of the
\* servers in loose, which no rollback knows of.
Original ==
  /\ \A i \in 1 .. Paths : at[i] = "old"
  /\ cfg = "old" /\ links = "old" /\ db = "old"
  /\ \A a \in Apps : refs[a] = "old"
  /\ checks = checks0 /\ guards = {}

\* Everything is in the new namespace, and no guard is left but those of loose.
Migrated ==
  /\ \A i \in 1 .. Paths : at[i] = "new"
  /\ cfg = "new" /\ links = "new" /\ db = "new"
  /\ \A a \in Apps : refs[a] = "new"
  /\ checks = checks0 /\ guards = {}

\* An installation that is between the two is never left to an ordinary boot: with no
\* worker at work on it, the job record makes has_recovery_pending_job() true
\* (infinidysk_migration.py:1119), whatever step, crash or rollback error came before;
\* and when it was a crash, no managed process runs on the half-moved paths.
UnsafeIsFrozen ==
  pc \in {"idle", "down"} /\ ~Original /\ ~Migrated
    => HasRecoveryPendingJob /\ (Seen(job).status = "interrupted" => up = {})

\* Recovery always has its bundle: whatever is needed to undo a cut-over that was cut
\* short is on disk, and the operator's cleanup (infinidysk_migration.py:880) never
\* takes it away.
RecoveryHasBundle ==
  (~Original /\ ~Migrated) \/ HasRecoveryPendingJob => backup

\* The pause of the scheduled health checks is written to the bundle first, so a crash
\* never leaves the setting changed without a record of its value.
PauseIsRecorded == checks # checks0 => saved.health

\* The job and the reservations of others as users of the migration admission.
Admission ==
  INSTANCE MigrationAdmission WITH
    Parties <- {"external"}, Nobody <- "nobody", lock <- "nobody",
    reserved <- {p \in {"external"} : ext},
    blocking <- HasBlockingJob \/ pc \notin {"idle", "down"},
    working <- {p \in {"external"} : ext}

\* What the job's record says at every moment is what the admission allows.
AdmissionHonoured == Admission!Spec

\* No reserved change of services or configuration overlaps the worker after its
\* admission, in either order of the two requests.
MutationsExclude == ext => pc \in {"idle", "queued", "report"} /\ ~(job.status \in Active)

\* A path is renamed forward only when every managed service is down, every Arr queue
\* is empty and every media server has its scan guard.
CutoverIsQuiet ==
  [][pc = "filesystem" /\ at' # at /\ pc' = pc
       => up = {} /\ queued = {} /\ guards = Media]_vars

\* A job that reports a clean rollback has put back everything and taken off every scan
\* guard it recorded, and what ran when it started runs again.  It has not put back the
\* scan settings of a media server at which enter_scan_guard() raised half way
\* (infinidysk_migration.py:4566, media_protection.py:473): those are in loose, and the
\* clean report says nothing of them.
CleanRollbackRestores ==
  [][pc = "report" /\ pc' = "idle" /\ job'.status = "failed_rolled_back"
       => Original /\ up = up0]_vars

\* A job that reports completion has moved everything, dropped every guard it recorded
\* and restarted what it stopped.
CompletionIsWhole ==
  [][pc = "report_done" /\ job'.status = "completed" => Migrated /\ up = up0]_vars

=============================================================================
