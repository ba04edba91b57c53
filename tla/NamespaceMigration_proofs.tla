--------------------- MODULE NamespaceMigration_proofs ---------------------
(* Theorems of NamespaceMigration for any number of paths, services, faults,  *)
(* crashes and requests: an installation between the two namespaces waits for *)
(* recovery and has the bundle for it, paths move under a quiet installation, *)
(* and a clean rollback and a completion are what they are reported to be.    *)
EXTENDS NamespaceMigration, TLAPS

-----------------------------------------------------------------------------
(* The inductive invariant.                                                  *)

Statuses == Active \cup RecoveryPending \cup {"none", "completed", "failed", "failed_rolled_back"}
Stages == PCs \cup Statuses \cup {"quiescing", "quiescing_health_checks", "blocked"}
JobRecord == [status : Statuses, stage : Stages, from : Stages, mine : BOOLEAN]
StateRecord == [status : {"pending", "snoozed", "completed", "failed_rolled_back",
                          "rollback_attention_required"},
                mode : {"none", "retain", "full"}, final : BOOLEAN]
BundleRecord == [health : BOOLEAN, scan : SUBSET Media]
PreflightRecord == [gen : Nat, blocked : BOOLEAN, stale : BOOLEAN, late : BOOLEAN]

Typed ==
  /\ at \in [1 .. Paths -> {"old", "new", "gone"}]
  /\ cfg \in {"old", "new"} /\ db \in {"old", "new"} /\ links \in {"old", "new", "mixed"}
  /\ refs \in [Apps -> {"old", "new", "mixed"}]
  /\ checks \in BOOLEAN /\ checks0 \in BOOLEAN /\ guards \subseteq Media
  /\ loose \subseteq Media
  /\ up \subseteq Managed /\ up0 \subseteq Managed
  /\ queued \subseteq Arrs /\ busy \subseteq Media /\ external \subseteq Media
  /\ job \in JobRecord /\ state \in StateRecord /\ seen \in StateRecord
  /\ pre \in PreflightRecord
  /\ backup \in BOOLEAN /\ saved \in BundleRecord
  /\ pc \in PCs /\ running \subseteq Managed /\ moved \subseteq 1 .. Paths
  /\ captured \subseteq Arrs \cup Media /\ cand \in Managed /\ held \subseteq Media
  /\ pc = "latch" => cand \in Arrs
  /\ paused \in {"no", "changed", "restored"} /\ errs \in BOOLEAN
  /\ stopPlay \in {"no", "offered", "asked"}
  /\ upc \in {"idle", "checked", "checked_reserved", "loaded", "removed", "forgotten"}
  /\ ext \in BOOLEAN /\ updating \in BOOLEAN

\* The record on disk names what the worker does.
Idle == {"idle", "down"}
Starting == {"queued"} \cup EarlyPCs
Cut == ForwardPCs \cup {"report_done"}
Recorded ==
  /\ pc \notin Idle => job.mine /\ job.status \in Active
  /\ pc \in Starting => job.stage \in PreMutationStages
  /\ pc \in Cut \cup RollbackPCs => job.stage \notin PreMutationStages
  /\ pc = "down" => upc = "idle" /\ ~ext /\ ~job.mine

\* A reservation, or a cleanup that has begun, excludes the worker.
Excluded ==
  /\ ext => pc = "idle" /\ ~HasBlockingJob
  /\ upc \in {"removed", "forgotten"} => pc = "idle" /\ ~ext /\ job.status \in {"none", "completed"}

\* What the worker has got behind it.
Quiescing == {"record_guard", "pause", "producers", "drain", "latch", "stop_all"}
Relocated == Cut \ (Quiescing \cup {"filesystem"})
Configured == Relocated \ {"configuration"}
Linked == Configured \ {"symlinks"}
Converted == Linked \ {"database"}
Restarted == Converted \ {"starting"}
ArrsDone == Restarted \ {"arr"}
ProwlarrsUp == ArrsDone \ {"starting_prowlarr"}
ProwlarrsDone == ProwlarrsUp \ {"prowlarr"}
MediaDone == ProwlarrsDone \ {"media"}
Unguarded == MediaDone \ {"scan_guards"}
Checking == Unguarded \ {"health_checks"}
AllUp == Checking \ {"starting_producers"}

Said(done) == IF done THEN "new" ELSE "old"
Cutting ==
  pc \in Cut =>
    /\ ~errs /\ backup /\ guards \subseteq held
    /\ \A i \in 1 .. Paths : at[i] = Said(i \in moved)
    /\ pc \in Quiescing => moved = {}
    /\ pc \in Relocated => moved = 1 .. Paths
    /\ cfg = Said(pc \in Configured) /\ links = Said(pc \in Linked) /\ db = Said(pc \in Converted)
    /\ \A a \in Arrs : refs[a] = Said(pc \in ArrsDone) \/ (pc = "arr" /\ refs[a] = "new")
    /\ \A a \in Prowlarrs : refs[a] = Said(pc \in ProwlarrsDone)
                            \/ (pc = "prowlarr" /\ refs[a] = "new")
    /\ \A a \in Media : refs[a] = Said(pc \in MediaDone) \/ (pc = "media" /\ refs[a] = "new")
    /\ pc \in Unguarded => guards = {}
    /\ pc \in {"record_guard", "pause"} \cup Checking \/ paused # "changed" => checks = checks0
\* What was stopped can be started again when one of _stop_processes resists.
Restartable == "restart" \notin FaultAt
Services ==
  /\ pc \in RollbackPCs /\ Restartable => up \cup running = up0
  /\ pc \in Cut =>
      /\ up \cup running = up0
      /\ pc \in Relocated \cup {"filesystem"} => running = up0
      /\ pc \in {"filesystem", "configuration", "symlinks", "database", "starting"} => up = {}
      /\ pc \in Restarted => up0 \ Producers \subseteq up
      /\ pc \in ProwlarrsUp => up0 \ Requesters \subseteq up
      /\ pc \in AllUp => up = up0
\* Nothing fills a queue any more, and every media server that is captured is guarded.
Quiet ==
  /\ pc \in {"record_guard", "pause", "producers"} => captured = {}
  /\ pc \in {"drain", "latch", "stop_all", "filesystem"} =>
       /\ Producers \cap up = {}
       /\ captured \cap Arrs \cap queued = {} /\ captured \cap Media \subseteq guards
       /\ pc = "latch" => cand \in Arrs \ queued
       /\ pc \in {"stop_all", "filesystem"} => Arrs \cup Media \subseteq captured
       /\ pc = "filesystem" => up = {}

\* What the rollback has got behind it, unless there was an error.
PathsBack == RollbackPCs \ {"rollback", "rollback_stop", "rollback_symlinks", "rollback_paths"}
LinksBack == PathsBack \ {"rollback_symlink_manifest"}
FilesBack == LinksBack \ {"rollback_files"}
ConfigBack == FilesBack \ {"rollback_config"}
ServicesBack == ConfigBack \ {"rollback_services"}
ArrsBack == ServicesBack \ {"rollback_health", "rollback_arr"}
ProwlarrsBack == ArrsBack \ {"rollback_prowlarr"}
MediaBack == ProwlarrsBack \ {"rollback_media"}
GuardsBack == MediaBack \ {"rollback_scan_guards"}
Undoing ==
  pc \in RollbackPCs =>
    /\ backup /\ guards \subseteq held
    /\ \/ errs
       \/ /\ \A i \in 1 .. Paths : at[i] = "old" \/ (pc \notin PathsBack /\ i \in moved)
          /\ pc \in LinksBack => links = "old"
          /\ pc \in FilesBack => db = "old" /\ checks = checks0
          /\ pc \in ConfigBack => cfg = "old"
          /\ pc \in ServicesBack /\ Restartable => up = up0
          /\ pc \in ArrsBack => \A a \in Arrs : refs[a] = "old"
          /\ pc \in ProwlarrsBack => \A a \in Prowlarrs : refs[a] = "old"
          /\ pc \in MediaBack => \A a \in Media : refs[a] = "old"
          /\ pc \in GuardsBack => guards = {}

Unsafe == ~Original /\ ~Migrated
\* What a job begins with, and what it ends with.
Bounded ==
  /\ pc \in Starting => ~Unsafe /\ up = up0 /\ (state.status = "failed_rolled_back" => cfg = "old")
  /\ pc \in {"preflight", "reload", "backup"} => Original
  /\ pc = "report" =>
       /\ Unsafe => state.status = "rollback_attention_required"
       /\ state.status = "failed_rolled_back" => Original /\ (Restartable => up = up0)
       /\ job.stage \in PreMutationStages => ~Unsafe
  /\ pc = "report_done" => state.status = "completed"
  /\ pc \in Idle =>
       /\ Unsafe => HasRecoveryPendingJob /\ (Seen(job).status = "interrupted" => up = {})
       /\ state.status = "failed_rolled_back" => HasRecoveryPendingJob \/ cfg = "old"
\* The bundle is there as long as the record asks for it.
Bundled ==
  /\ pc \in Idle /\ job.mine => job.status \notin Active
  /\ HasRecoveryPendingJob => backup
  /\ pc \notin Idle /\ job.stage \notin PreMutationStages => backup
  /\ state.status = "rollback_attention_required" =>
       \/ pc = "report" /\ job.stage \notin PreMutationStages
       \/ pc \in Idle /\ HasRecoveryPendingJob
  /\ upc = "loaded" => pc = "idle" /\ seen = state
  /\ pc = "pause" => saved.health

IndInv == Typed /\ Recorded /\ Excluded /\ Cutting /\ Services /\ Quiet /\ Undoing /\ Bounded
            /\ Bundled /\ PauseIsRecorded

-----------------------------------------------------------------------------

\* What is written on disk is well formed.
LEMMA StageIs == ASSUME NEW p \in PCs PROVE Stage(p) \in Stages
  BY DEF Stage, Stages, PCs, ForwardPCs, RollbackPCs, EarlyPCs
LEMMA RecordIs == ASSUME NEW s \in Statuses, NEW p \in Stages PROVE Record(s, p) \in JobRecord
  BY DEF Record, JobRecord, Stages, Statuses
LEMMA GotoIs ==
  ASSUME NEW p \in PCs, Goto(p)
  PROVE  pc' = p /\ pc' \in PCs /\ (job \in JobRecord => job' \in JobRecord)
  BY StageIs, RecordIs DEF Goto, Statuses, Active
LEMMA SeenIs == ASSUME job \in JobRecord PROVE Seen(job) \in JobRecord
  BY ZenonT(60) DEF Seen, JobRecord, Stages, Statuses, Active, RecoveryPending
LEMMA OutcomesAre ==
  /\ Record("failed", "blocked") \in JobRecord /\ Record("queued", "queued") \in JobRecord
  /\ Record("completed", "completed") \in JobRecord
  /\ \A o \in {"failed", "failed_rolled_back", "rollback_attention_required"} :
       Record(o, o) \in JobRecord
  BY DEF Record, JobRecord, Stages, Statuses, Active, RecoveryPending
LEMMA NoJobIs == NoJob \in JobRecord
  BY DEF NoJob, JobRecord, Stages, Statuses

LEMMA SavedIs ==
  /\ [health |-> FALSE, scan |-> {}] \in BundleRecord
  /\ saved \in BundleRecord =>
       /\ [saved EXCEPT !.health = TRUE] \in BundleRecord
       /\ held \subseteq Media => [saved EXCEPT !.scan = held] \in BundleRecord
  BY DEF BundleRecord
LEMMA PreflightIs ==
  ASSUME pre \in PreflightRecord
  PROVE  /\ [pre EXCEPT !.stale = TRUE] \in PreflightRecord
         /\ [pre EXCEPT !.late = FALSE] \in PreflightRecord
         /\ NoPreflight \in PreflightRecord
  BY DEF PreflightRecord, NoPreflight
LEMMA PreflightTyped ==
  ASSUME pre \in PreflightRecord, NEW x, Preflight(x, pre') PROVE pre' \in PreflightRecord
  BY DEF PreflightRecord, Preflight, Namespace_filesystem_plan_blocks
LEMMA StateIs ==
  ASSUME state \in StateRecord
  PROVE  /\ [state EXCEPT !.final = TRUE] \in StateRecord
         /\ [status |-> "completed", mode |-> "full", final |-> FALSE] \in StateRecord
         /\ [status |-> "completed", mode |-> "retain", final |-> FALSE] \in StateRecord
  BY DEF StateRecord
LEMMA ErrsIs == ASSUME errs \in BOOLEAN, Works \/ Fails PROVE errs' \in BOOLEAN
  BY DEF Works, Fails

\* What a failing step leaves.
LEMMA FaultTyped ==
  ASSUME Typed, FaultEffect
  PROVE  /\ at' \in [1 .. Paths -> {"old", "new", "gone"}] /\ cfg' = cfg /\ db' = db
         /\ links' \in {"old", "new", "mixed"} /\ refs' \in [Apps -> {"old", "new", "mixed"}]
         /\ checks' \in BOOLEAN /\ guards' \subseteq Media /\ up' \subseteq up \cup running
         /\ moved' \subseteq 1 .. Paths /\ held' \subseteq Media /\ errs' \in BOOLEAN
<1> USE DEF FaultEffect, Typed, world, place
<1>1. at' \in [1 .. Paths -> {"old", "new", "gone"}] OBVIOUS
<1>2. cfg' = cfg /\ db' = db OBVIOUS
<1>3. links' \in {"old", "new", "mixed"} OBVIOUS
<1>4. refs' \in [Apps -> {"old", "new", "mixed"}] OBVIOUS
<1>5. checks' \in BOOLEAN OBVIOUS
<1>6. guards' \subseteq Media OBVIOUS
<1>7. up' \subseteq up \cup running
  BY DEF Start_processes
<1>8. moved' \subseteq 1 .. Paths OBVIOUS
<1>9. held' \subseteq Media OBVIOUS
<1>10. errs' \in BOOLEAN OBVIOUS
<1> QED BY <1>1, <1>2, <1>3, <1>4, <1>5, <1>6, <1>7, <1>8, <1>9, <1>10

\* A failing step of the cut-over leaves what the rollback can undo.
LEMMA FaultUndone ==
  ASSUME Typed, FaultEffect, Dependable, ~errs, \A i \in 1 .. Paths : at[i] = Said(i \in moved),
         guards \subseteq held
  PROVE  /\ errs' \/ \A i \in 1 .. Paths : at'[i] = "old" \/ i \in moved'
         /\ Restartable => up' \cup running = up \cup running
         /\ guards' \subseteq held'
         /\ checks' = checks \/ checks' = checks0 \/ pc = "pause"
<1> USE DEF FaultEffect, world, place
<1>1. errs' \/ \A i \in 1 .. Paths : at'[i] = "old" \/ i \in moved'
  BY DEF Typed, Said, Dependable
<1>2. Restartable => up' \cup running = up \cup running
  BY DEF Start_processes, Restartable
<1>3. guards' \subseteq held' OBVIOUS
<1>4. checks' = checks \/ checks' = checks0 \/ pc = "pause" OBVIOUS
<1> QED BY <1>1, <1>2, <1>3, <1>4

\* Every step keeps the types.
LEMMA TypedStep ==
  ASSUME Typed, [Next]_vars
  PROVE  Typed'
<1> USE DEF Typed, Managed, PCs, ForwardPCs, RollbackPCs, EarlyPCs, Apps, Producers, world,
            place, traffic, disk, local, actors, aside, bounds
<1>1. CASE Acquire
  <2>1. updating' \in BOOLEAN
    BY <1>1, Zenon DEF Acquire
  <2> QED BY <1>1, <2>1, GotoIs, OutcomesAre DEF Acquire
<1>2. CASE Validate
  BY <1>2, GotoIs DEF Validate
<1>3. CASE Recheck
  BY <1>3, GotoIs, PreflightTyped DEF Recheck, Unlocked
<1>4. CASE Reload
  BY <1>4, GotoIs DEF Reload
<1>5. CASE Backup
  <2>1. errs' \in BOOLEAN
    BY <1>5, Zenon DEF Backup, Nothing_done_yet
  <2> QED BY <1>5, <2>1, GotoIs, SavedIs DEF Backup, Nothing_done_yet
<1>6. CASE Uncaught
  BY <1>6 DEF Uncaught, Raises
<1>7. CASE RecordGuard
  BY <1>7, GotoIs, SavedIs DEF RecordGuard
<1>8. CASE Pause
  <2>1. checks' \in BOOLEAN
    BY <1>8, Zenon DEF Pause
  <2> QED BY <1>8, <2>1, GotoIs DEF Pause
<1>9. CASE StopProducers
  BY <1>9, GotoIs DEF StopProducers, Stop_processes
<1>10. CASE Latch
  BY <1>10, GotoIs DEF Latch, Stop_processes
<1>11. CASE OfferStop
  BY <1>11 DEF OfferStop
<1>12. CASE Drained
  BY <1>12, GotoIs DEF Drained
<1>13. CASE StopAll
  BY <1>13, GotoIs, SavedIs DEF StopAll, Stop_processes
<1>14. ASSUME NEW a \in Arrs, ArrInventory(a) PROVE Typed'
  BY <1>14, GotoIs DEF ArrInventory
<1>15. ASSUME NEW m \in Media, CaptureMedia(m) PROVE Typed'
  BY <1>15, GotoIs DEF CaptureMedia, Stop_processes
<1>16. CASE QuiesceTimeout
  BY <1>16, GotoIs DEF QuiesceTimeout
<1>17. CASE MovePath
  BY <1>17 DEF MovePath
<1>18. CASE PathsMoved
  BY <1>18, GotoIs DEF PathsMoved
<1>19. CASE SaveConfiguration
  BY <1>19, GotoIs DEF SaveConfiguration
<1>20. CASE RewriteSymlinks
  BY <1>20, GotoIs DEF RewriteSymlinks
<1>21. CASE Migrate_infinidysk_database
  BY <1>21, GotoIs DEF Migrate_infinidysk_database
<1>22. CASE StartServices
  BY <1>22, GotoIs DEF StartServices, Restart, Start_processes
<1>23. CASE StartProwlarr
  BY <1>23, GotoIs DEF StartProwlarr, Restart, Start_processes
<1>24. CASE StartProducers
  BY <1>24, GotoIs DEF StartProducers, Restart, Start_processes
<1>25. ASSUME NEW a \in Apps, UpdateArr(a) PROVE Typed'
  BY <1>25, GotoIs
     DEF UpdateArr, UpdateReferences, Apply_snapshot, Validate_snapshot,
         Validate_filesystem, Desired, Reachable
<1>26. ASSUME NEW a \in Apps, UpdateProwlarr(a) PROVE Typed'
  BY <1>26, GotoIs
     DEF UpdateProwlarr, UpdateReferences, Apply_snapshot, Validate_snapshot,
         Validate_filesystem, Desired, Reachable
<1>27. ASSUME NEW a \in Apps, UpdateMedia(a) PROVE Typed'
  BY <1>27, GotoIs
     DEF UpdateMedia, UpdateReferences, Apply_snapshot, Validate_snapshot,
         Validate_filesystem, Desired, Reachable
<1>28. CASE ReferencesDone("arr", Arrs)
  BY <1>28, GotoIs DEF ReferencesDone, After
<1>29. CASE ReferencesDone("prowlarr", Prowlarrs)
  BY <1>29, GotoIs DEF ReferencesDone, After
<1>30. CASE ReferencesDone("media", Media)
  BY <1>30, GotoIs DEF ReferencesDone, After
<1>31. CASE RestoreScanGuards
  BY <1>31, GotoIs DEF RestoreScanGuards
<1>32. CASE RestoreHealthChecks
  BY <1>32, GotoIs DEF RestoreHealthChecks
<1>33. CASE Complete
  BY <1>33, GotoIs, StateIs DEF Complete
<1>34. CASE ReportDone
  <2>1. updating' \in BOOLEAN
    BY <1>34, Zenon DEF ReportDone
  <2> QED BY <1>34, <2>1, GotoIs, OutcomesAre DEF ReportDone
<1>35. CASE Fault
  <2>1. loose' \subseteq Media
    BY <1>35, Zenon DEF Fault, HalfGuarded
  <2> QED BY <1>35, <2>1, GotoIs, FaultTyped DEF Fault
<1>36. CASE RollbackHealth
  BY <1>36, GotoIs, ErrsIs DEF RollbackHealth
<1>37. CASE RollbackStop
  BY <1>37, GotoIs, ErrsIs DEF RollbackStop
<1>38. CASE RollbackSymlinks
  BY <1>38, GotoIs, ErrsIs DEF RollbackSymlinks
<1>39. CASE RollbackPaths
  BY <1>39, GotoIs, ErrsIs DEF RollbackPaths
<1>40. CASE RollbackManifest
  <2>1. errs' \in BOOLEAN
    BY <1>40, ErrsIs DEF RollbackManifest
  <2> QED BY <1>40, <2>1, GotoIs DEF RollbackManifest
<1>41. CASE RollbackFiles
  BY <1>41, GotoIs, ErrsIs DEF RollbackFiles
<1>42. CASE RollbackConfig
  BY <1>42, GotoIs, ErrsIs DEF RollbackConfig
<1>43. CASE RollbackServices
  BY <1>43, GotoIs, ErrsIs DEF RollbackServices, Start_processes
<1>44. CASE RollbackHealthAgain
  <2>1. errs' \in BOOLEAN
    BY <1>44, ErrsIs, Zenon DEF RollbackHealthAgain
  <2> QED BY <1>44, <2>1, GotoIs DEF RollbackHealthAgain
<1>45. CASE RollbackArr
  <2>1. errs' \in BOOLEAN
    BY <1>45, ErrsIs, Zenon DEF RollbackArr, RestoreReferences
  <2> QED BY <1>45, <2>1, GotoIs DEF RollbackArr, RestoreReferences, Reachable
<1>46. CASE RollbackProwlarr
  <2>1. errs' \in BOOLEAN
    BY <1>46, ErrsIs, Zenon DEF RollbackProwlarr, RestoreReferences
  <2> QED BY <1>46, <2>1, GotoIs DEF RollbackProwlarr, RestoreReferences, Reachable
<1>47. CASE RollbackMedia
  <2>1. errs' \in BOOLEAN
    BY <1>47, ErrsIs, Zenon DEF RollbackMedia, RestoreReferences
  <2> QED BY <1>47, <2>1, GotoIs DEF RollbackMedia, RestoreReferences, Reachable
<1>48. CASE RollbackScanGuards
  BY <1>48, GotoIs, ErrsIs DEF RollbackScanGuards
<1>49. CASE RollbackSave
  BY <1>49 DEF RollbackSave, Raises, StateRecord
<1>50. CASE Report
  <2>1. updating' \in BOOLEAN
    BY <1>50, Zenon DEF Report
  <2> QED BY <1>50, <2>1, GotoIs, OutcomesAre DEF Report
<1>51. CASE PreflightCheck
  BY <1>51, SeenIs DEF PreflightCheck
<1>52. CASE PreflightRun
  <2>1. pre' \in PreflightRecord
    BY <1>52, PreflightTyped DEF PreflightRun
  <2> QED BY <1>52, <2>1, GotoIs DEF PreflightRun
<1>53. CASE Start_full_namespace_job
  BY <1>53, OutcomesAre DEF Start_full_namespace_job, Unlocked
<1>54. CASE Request_playback_stop
  BY <1>54 DEF Request_playback_stop
<1>55. CASE RemindLoad
  BY <1>55 DEF RemindLoad
<1>56. CASE RemindSave
  BY <1>56 DEF RemindSave, StateRecord
<1>57. CASE Apply_brand_cutover
  BY <1>57, PreflightIs, StateIs DEF Apply_brand_cutover
<1>58. CASE Cleanup
  <2>1. backup' \in BOOLEAN
    BY <1>58, Zenon DEF Cleanup
  <2> QED BY <1>58, <2>1, GotoIs
             DEF Cleanup, Cleanup_preview, Cleanup_plan, Cleanup_context, Load_job_readonly
<1>59. CASE CleanupSidecars
  BY <1>59, NoJobIs, PreflightIs DEF CleanupSidecars
<1>60. CASE CleanupFinalize
  BY <1>60, StateIs DEF CleanupFinalize
<1>61. CASE Reserve
  BY <1>61, SeenIs DEF Reserve
<1>62. CASE Release
  <2>1. ext' \in BOOLEAN
    BY <1>62, Zenon DEF Release
  <2> QED BY <1>62, <2>1, GotoIs, PreflightIs DEF Release
<1>63. CASE Update
  BY <1>63 DEF Update
<1>64. CASE Traffic
  BY <1>64 DEF Traffic
<1>65. CASE Crash
  BY <1>65, PreflightIs DEF Crash, JobRecord
<1>66. CASE Boot
  BY <1>66, SeenIs DEF Boot
<1>67. CASE UNCHANGED vars
  BY <1>67 DEF vars
<1> QED BY <1>1, <1>2, <1>3, <1>4, <1>5, <1>6, <1>7, <1>8, <1>9, <1>10, <1>11, <1>12, <1>13,
           <1>14, <1>15, <1>16, <1>17, <1>18, <1>19, <1>20, <1>21, <1>22, <1>23, <1>24,
           <1>25, <1>26, <1>27, <1>28, <1>29, <1>30, <1>31, <1>32, <1>33, <1>34, <1>35,
           <1>36, <1>37, <1>38, <1>39, <1>40, <1>41, <1>42, <1>43, <1>44, <1>45, <1>46,
           <1>47, <1>48, <1>49, <1>50, <1>51, <1>52, <1>53, <1>54, <1>55, <1>56, <1>57,
           <1>58, <1>59, <1>60, <1>61, <1>62, <1>63, <1>64, <1>65, <1>66, <1>67
           DEF Next, Worker, Early, Quiesce, Cutover, RollingBack, Operator

\* progress() names what is done next, and keeps the record's worker.
LEMMA GotoRecords ==
  ASSUME NEW p \in PCs \ {"idle", "down", "queued", "report"}, Goto(p)
  PROVE  /\ pc' = p /\ job'.mine /\ job'.status \in Active
         /\ job'.status \in {"running", "rolling_back"}
         /\ p \in EarlyPCs => job'.stage \in PreMutationStages
         /\ p \notin EarlyPCs => job'.stage \notin PreMutationStages
  BY DEF Goto, Record, Stage, Active, PreMutationStages, PCs, ForwardPCs, RollbackPCs,
         EarlyPCs

\* The record follows the worker.
LEMMA RecordedStep ==
  ASSUME Typed, Recorded, Excluded, [Next]_vars
  PROVE  Recorded'
<1> USE DEF Recorded, Idle, Starting, Cut, Active, PreMutationStages, PCs, ForwardPCs,
            RollbackPCs, EarlyPCs, world, place, traffic, disk, local, actors, aside, bounds
<1>1. CASE Acquire
  BY <1>1, GotoRecords DEF Acquire, Record
<1>2. CASE Validate
  BY <1>2, GotoRecords DEF Validate
<1>3. CASE Recheck
  BY <1>3, GotoRecords DEF Recheck, Unlocked
<1>4. CASE Reload
  BY <1>4, GotoRecords DEF Reload
<1>5. CASE Backup
  BY <1>5, GotoRecords DEF Backup, Nothing_done_yet
<1>6. CASE Uncaught
  BY <1>6 DEF Uncaught, Raises
<1>7. CASE RecordGuard
  BY <1>7, GotoRecords DEF RecordGuard
<1>8. CASE Pause
  BY <1>8, GotoRecords DEF Pause
<1>9. CASE StopProducers
  BY <1>9, GotoRecords DEF StopProducers, Stop_processes
<1>10. CASE Latch
  BY <1>10, GotoRecords DEF Latch, Stop_processes
<1>11. CASE OfferStop
  BY <1>11 DEF OfferStop
<1>12. CASE Drained
  BY <1>12, GotoRecords DEF Drained
<1>13. CASE StopAll
  BY <1>13, GotoRecords DEF StopAll, Stop_processes
<1>14. ASSUME NEW a \in Arrs, ArrInventory(a) PROVE Recorded'
  BY <1>14, GotoRecords DEF ArrInventory
<1>15. ASSUME NEW m \in Media, CaptureMedia(m) PROVE Recorded'
  BY <1>15, GotoRecords DEF CaptureMedia, Stop_processes
<1>16. CASE QuiesceTimeout
  BY <1>16, GotoRecords DEF QuiesceTimeout
<1>17. CASE MovePath
  BY <1>17 DEF MovePath
<1>18. CASE PathsMoved
  BY <1>18, GotoRecords DEF PathsMoved
<1>19. CASE SaveConfiguration
  BY <1>19, GotoRecords DEF SaveConfiguration
<1>20. CASE RewriteSymlinks
  BY <1>20, GotoRecords DEF RewriteSymlinks
<1>21. CASE Migrate_infinidysk_database
  BY <1>21, GotoRecords DEF Migrate_infinidysk_database
<1>22. CASE StartServices
  BY <1>22, GotoRecords DEF StartServices, Restart, Start_processes
<1>23. CASE StartProwlarr
  BY <1>23, GotoRecords DEF StartProwlarr, Restart, Start_processes
<1>24. CASE StartProducers
  BY <1>24, GotoRecords DEF StartProducers, Restart, Start_processes
<1>25. ASSUME NEW a \in Apps, UpdateArr(a) PROVE Recorded'
  BY <1>25, GotoRecords
     DEF UpdateArr, UpdateReferences, Apply_snapshot, Validate_snapshot,
         Validate_filesystem, Desired, Reachable
<1>26. ASSUME NEW a \in Apps, UpdateProwlarr(a) PROVE Recorded'
  BY <1>26, GotoRecords
     DEF UpdateProwlarr, UpdateReferences, Apply_snapshot, Validate_snapshot,
         Validate_filesystem, Desired, Reachable
<1>27. ASSUME NEW a \in Apps, UpdateMedia(a) PROVE Recorded'
  BY <1>27, GotoRecords
     DEF UpdateMedia, UpdateReferences, Apply_snapshot, Validate_snapshot,
         Validate_filesystem, Desired, Reachable
<1>28. CASE ReferencesDone("arr", Arrs)
  BY <1>28, GotoRecords DEF ReferencesDone, After
<1>29. CASE ReferencesDone("prowlarr", Prowlarrs)
  BY <1>29, GotoRecords DEF ReferencesDone, After
<1>30. CASE ReferencesDone("media", Media)
  BY <1>30, GotoRecords DEF ReferencesDone, After
<1>31. CASE RestoreScanGuards
  BY <1>31, GotoRecords DEF RestoreScanGuards
<1>32. CASE RestoreHealthChecks
  BY <1>32, GotoRecords DEF RestoreHealthChecks
<1>33. CASE Complete
  BY <1>33, GotoRecords DEF Complete
<1>34. CASE ReportDone
  BY <1>34 DEF ReportDone, Record
<1>35. CASE Fault
  BY <1>35, GotoRecords DEF Fault, FaultEffect, Start_processes
<1>36. CASE RollbackHealth
  BY <1>36, GotoRecords DEF RollbackHealth, Works, Fails, Raises
<1>37. CASE RollbackStop
  BY <1>37, GotoRecords DEF RollbackStop, Works, Fails, Raises
<1>38. CASE RollbackSymlinks
  BY <1>38, GotoRecords DEF RollbackSymlinks, Works, Fails, Raises
<1>39. CASE RollbackPaths
  BY <1>39, GotoRecords DEF RollbackPaths, Works, Fails, Raises
<1>40. CASE RollbackManifest
  BY <1>40, GotoRecords DEF RollbackManifest, Works, Fails, Raises
<1>41. CASE RollbackFiles
  BY <1>41, GotoRecords DEF RollbackFiles, Works, Fails, Raises
<1>42. CASE RollbackConfig
  BY <1>42, GotoRecords DEF RollbackConfig, Works, Fails, Raises
<1>43. CASE RollbackServices
  BY <1>43, GotoRecords DEF RollbackServices, Works, Fails, Raises, Start_processes
<1>44. CASE RollbackHealthAgain
  BY <1>44, GotoRecords DEF RollbackHealthAgain, Works, Fails, Raises
<1>45. CASE RollbackArr
  BY <1>45, GotoRecords DEF RollbackArr, Works, Fails, Raises, RestoreReferences, Reachable
<1>46. CASE RollbackProwlarr
  BY <1>46, GotoRecords
     DEF RollbackProwlarr, Works, Fails, Raises, RestoreReferences, Reachable
<1>47. CASE RollbackMedia
  BY <1>47, GotoRecords
     DEF RollbackMedia, Works, Fails, Raises, RestoreReferences, Reachable
<1>48. CASE RollbackScanGuards
  BY <1>48, GotoRecords DEF RollbackScanGuards, Works, Fails, Raises
<1>49. CASE RollbackSave
  BY <1>49 DEF RollbackSave, Raises
<1>50. CASE Report
  BY <1>50 DEF Report, Record
<1>51. CASE PreflightCheck
  BY <1>51 DEF PreflightCheck, Seen, JobRecord
<1>52. CASE PreflightRun
  BY <1>52 DEF PreflightRun
<1>53. CASE Start_full_namespace_job
  BY <1>53 DEF Start_full_namespace_job, Record, Unlocked
<1>54. CASE Request_playback_stop
  BY <1>54 DEF Request_playback_stop
<1>55. CASE RemindLoad
  BY <1>55 DEF RemindLoad
<1>56. CASE RemindSave
  BY <1>56 DEF RemindSave
<1>57. CASE Apply_brand_cutover
  BY <1>57 DEF Apply_brand_cutover
<1>58. CASE Cleanup
  BY <1>58 DEF Cleanup, Cleanup_preview, Cleanup_plan, Cleanup_context, Load_job_readonly
<1>59. CASE CleanupSidecars
  BY <1>59 DEF CleanupSidecars, NoJob, Excluded
<1>60. CASE CleanupFinalize
  BY <1>60 DEF CleanupFinalize
<1>61. CASE Reserve
  BY <1>61 DEF Reserve, Seen, HasBlockingJob
<1>62. CASE Release
  BY <1>62 DEF Release
<1>63. CASE Update
  BY <1>63 DEF Update
<1>64. CASE Traffic
  BY <1>64 DEF Traffic
<1>65. CASE Crash
  BY <1>65 DEF Crash, Typed, JobRecord
<1>66. CASE Boot
  BY <1>66 DEF Boot, Seen
<1>67. CASE UNCHANGED vars
  BY <1>67 DEF vars
<1> QED BY <1>1, <1>2, <1>3, <1>4, <1>5, <1>6, <1>7, <1>8, <1>9, <1>10, <1>11, <1>12, <1>13,
           <1>14, <1>15, <1>16, <1>17, <1>18, <1>19, <1>20, <1>21, <1>22, <1>23, <1>24,
           <1>25, <1>26, <1>27, <1>28, <1>29, <1>30, <1>31, <1>32, <1>33, <1>34, <1>35,
           <1>36, <1>37, <1>38, <1>39, <1>40, <1>41, <1>42, <1>43, <1>44, <1>45, <1>46,
           <1>47, <1>48, <1>49, <1>50, <1>51, <1>52, <1>53, <1>54, <1>55, <1>56, <1>57,
           <1>58, <1>59, <1>60, <1>61, <1>62, <1>63, <1>64, <1>65, <1>66, <1>67
           DEF Next, Worker, Early, Quiesce, Cutover, RollingBack, Operator

\* Reservations, the cleanup and the worker exclude one another.
LEMMA ExcludedStep ==
  ASSUME Typed, Recorded, Excluded, [Next]_vars
  PROVE  Excluded'
<1> USE DEF Excluded, Recorded, Idle, PCs, ForwardPCs, RollbackPCs, EarlyPCs, HasBlockingJob,
            Seen, Active, RecoveryPending, world, place, traffic, disk, local, actors, aside,
            bounds
<1>1. CASE Acquire
  BY <1>1, GotoRecords DEF Acquire, Record
<1>2. CASE Validate
  BY <1>2, GotoRecords DEF Validate
<1>3. CASE Recheck
  BY <1>3, GotoRecords DEF Recheck, Unlocked
<1>4. CASE Reload
  BY <1>4, GotoRecords DEF Reload
<1>5. CASE Backup
  BY <1>5, GotoRecords DEF Backup, Nothing_done_yet
<1>6. CASE Uncaught
  BY <1>6 DEF Uncaught, Raises
<1>7. CASE RecordGuard
  BY <1>7, GotoRecords DEF RecordGuard
<1>8. CASE Pause
  BY <1>8, GotoRecords DEF Pause
<1>9. CASE StopProducers
  BY <1>9, GotoRecords DEF StopProducers, Stop_processes
<1>10. CASE Latch
  BY <1>10, GotoRecords DEF Latch, Stop_processes
<1>11. CASE OfferStop
  BY <1>11 DEF OfferStop
<1>12. CASE Drained
  BY <1>12, GotoRecords DEF Drained
<1>13. CASE StopAll
  BY <1>13, GotoRecords DEF StopAll, Stop_processes
<1>14. ASSUME NEW a \in Arrs, ArrInventory(a) PROVE Excluded'
  BY <1>14, GotoRecords DEF ArrInventory
<1>15. ASSUME NEW m \in Media, CaptureMedia(m) PROVE Excluded'
  BY <1>15, GotoRecords DEF CaptureMedia, Stop_processes
<1>16. CASE QuiesceTimeout
  BY <1>16, GotoRecords DEF QuiesceTimeout
<1>17. CASE MovePath
  BY <1>17 DEF MovePath
<1>18. CASE PathsMoved
  BY <1>18, GotoRecords DEF PathsMoved
<1>19. CASE SaveConfiguration
  BY <1>19, GotoRecords DEF SaveConfiguration
<1>20. CASE RewriteSymlinks
  BY <1>20, GotoRecords DEF RewriteSymlinks
<1>21. CASE Migrate_infinidysk_database
  BY <1>21, GotoRecords DEF Migrate_infinidysk_database
<1>22. CASE StartServices
  BY <1>22, GotoRecords DEF StartServices, Restart, Start_processes
<1>23. CASE StartProwlarr
  BY <1>23, GotoRecords DEF StartProwlarr, Restart, Start_processes
<1>24. CASE StartProducers
  BY <1>24, GotoRecords DEF StartProducers, Restart, Start_processes
<1>25. ASSUME NEW a \in Apps, UpdateArr(a) PROVE Excluded'
  BY <1>25, GotoRecords
     DEF UpdateArr, UpdateReferences, Apply_snapshot, Validate_snapshot,
         Validate_filesystem, Desired, Reachable
<1>26. ASSUME NEW a \in Apps, UpdateProwlarr(a) PROVE Excluded'
  BY <1>26, GotoRecords
     DEF UpdateProwlarr, UpdateReferences, Apply_snapshot, Validate_snapshot,
         Validate_filesystem, Desired, Reachable
<1>27. ASSUME NEW a \in Apps, UpdateMedia(a) PROVE Excluded'
  BY <1>27, GotoRecords
     DEF UpdateMedia, UpdateReferences, Apply_snapshot, Validate_snapshot,
         Validate_filesystem, Desired, Reachable
<1>28. CASE ReferencesDone("arr", Arrs)
  BY <1>28, GotoRecords DEF ReferencesDone, After
<1>29. CASE ReferencesDone("prowlarr", Prowlarrs)
  BY <1>29, GotoRecords DEF ReferencesDone, After
<1>30. CASE ReferencesDone("media", Media)
  BY <1>30, GotoRecords DEF ReferencesDone, After
<1>31. CASE RestoreScanGuards
  BY <1>31, GotoRecords DEF RestoreScanGuards
<1>32. CASE RestoreHealthChecks
  BY <1>32, GotoRecords DEF RestoreHealthChecks
<1>33. CASE Complete
  BY <1>33, GotoRecords DEF Complete
<1>34. CASE ReportDone
  BY <1>34 DEF ReportDone, Record
<1>35. CASE Fault
  BY <1>35, GotoRecords DEF Fault, FaultEffect, Start_processes
<1>36. CASE RollbackHealth
  BY <1>36, GotoRecords DEF RollbackHealth, Works, Fails, Raises
<1>37. CASE RollbackStop
  BY <1>37, GotoRecords DEF RollbackStop, Works, Fails, Raises
<1>38. CASE RollbackSymlinks
  BY <1>38, GotoRecords DEF RollbackSymlinks, Works, Fails, Raises
<1>39. CASE RollbackPaths
  BY <1>39, GotoRecords DEF RollbackPaths, Works, Fails, Raises
<1>40. CASE RollbackManifest
  BY <1>40, GotoRecords DEF RollbackManifest, Works, Fails, Raises
<1>41. CASE RollbackFiles
  BY <1>41, GotoRecords DEF RollbackFiles, Works, Fails, Raises
<1>42. CASE RollbackConfig
  BY <1>42, GotoRecords DEF RollbackConfig, Works, Fails, Raises
<1>43. CASE RollbackServices
  BY <1>43, GotoRecords DEF RollbackServices, Works, Fails, Raises, Start_processes
<1>44. CASE RollbackHealthAgain
  BY <1>44, GotoRecords DEF RollbackHealthAgain, Works, Fails, Raises
<1>45. CASE RollbackArr
  BY <1>45, GotoRecords DEF RollbackArr, Works, Fails, Raises, RestoreReferences, Reachable
<1>46. CASE RollbackProwlarr
  BY <1>46, GotoRecords
     DEF RollbackProwlarr, Works, Fails, Raises, RestoreReferences, Reachable
<1>47. CASE RollbackMedia
  BY <1>47, GotoRecords
     DEF RollbackMedia, Works, Fails, Raises, RestoreReferences, Reachable
<1>48. CASE RollbackScanGuards
  BY <1>48, GotoRecords DEF RollbackScanGuards, Works, Fails, Raises
<1>49. CASE RollbackSave
  BY <1>49 DEF RollbackSave, Raises
<1>50. CASE Report
  BY <1>50 DEF Report, Record
<1>51. CASE PreflightCheck
  BY <1>51 DEF PreflightCheck, JobRecord
<1>52. CASE PreflightRun
  BY <1>52 DEF PreflightRun
<1>53. CASE Start_full_namespace_job
  BY <1>53 DEF Start_full_namespace_job, Record, Unlocked
<1>54. CASE Request_playback_stop
  BY <1>54 DEF Request_playback_stop
<1>55. CASE RemindLoad
  BY <1>55 DEF RemindLoad
<1>56. CASE RemindSave
  BY <1>56 DEF RemindSave
<1>57. CASE Apply_brand_cutover
  BY <1>57 DEF Apply_brand_cutover
<1>58. CASE Cleanup
  BY <1>58 DEF Cleanup, Cleanup_preview, Cleanup_plan, Cleanup_context, Load_job_readonly
<1>59. CASE CleanupSidecars
  BY <1>59 DEF CleanupSidecars, NoJob
<1>60. CASE CleanupFinalize
  BY <1>60 DEF CleanupFinalize
<1>61. CASE Reserve
  BY <1>61 DEF Reserve
<1>62. CASE Release
  BY <1>62 DEF Release
<1>63. CASE Update
  BY <1>63 DEF Update
<1>64. CASE Traffic
  BY <1>64 DEF Traffic
<1>65. CASE Crash
  BY <1>65 DEF Crash, Typed, JobRecord
<1>66. CASE Boot
  BY <1>66 DEF Boot
<1>67. CASE UNCHANGED vars
  BY <1>67 DEF vars
<1> QED BY <1>1, <1>2, <1>3, <1>4, <1>5, <1>6, <1>7, <1>8, <1>9, <1>10, <1>11, <1>12, <1>13,
           <1>14, <1>15, <1>16, <1>17, <1>18, <1>19, <1>20, <1>21, <1>22, <1>23, <1>24,
           <1>25, <1>26, <1>27, <1>28, <1>29, <1>30, <1>31, <1>32, <1>33, <1>34, <1>35,
           <1>36, <1>37, <1>38, <1>39, <1>40, <1>41, <1>42, <1>43, <1>44, <1>45, <1>46,
           <1>47, <1>48, <1>49, <1>50, <1>51, <1>52, <1>53, <1>54, <1>55, <1>56, <1>57,
           <1>58, <1>59, <1>60, <1>61, <1>62, <1>63, <1>64, <1>65, <1>66, <1>67
           DEF Next, Worker, Early, Quiesce, Cutover, RollingBack, Operator

\* What ran is running or known to have run.
LEMMA ServicesStep ==
  ASSUME Typed, Recorded, Excluded, Dependable, Cutting, Services, Bounded, [Next]_vars
  PROVE  Services'
<1> USE DEF Services, Starting, Idle, Excluded, Recorded, Cut, Quiescing, Relocated, Configured,
            Linked, Converted, Restarted, ArrsDone, ProwlarrsUp, ProwlarrsDone, MediaDone,
            Unguarded, Checking, AllUp, PCs, ForwardPCs, RollbackPCs, EarlyPCs, world, place,
            traffic, disk, local, actors, aside, bounds
<1>1. CASE Acquire
  BY <1>1, GotoRecords DEF Acquire
<1>2. CASE Validate
  BY <1>2, GotoRecords DEF Validate
<1>3. CASE Recheck
  BY <1>3, GotoRecords DEF Recheck, Unlocked
<1>4. CASE Reload
  BY <1>4, GotoRecords DEF Reload
<1>5. CASE Backup
  BY <1>5, GotoRecords DEF Backup, Nothing_done_yet, Bounded, Typed
<1>6. CASE Uncaught
  BY <1>6 DEF Uncaught, Raises
<1>7. CASE RecordGuard
  BY <1>7, GotoRecords DEF RecordGuard
<1>8. CASE Pause
  BY <1>8, GotoRecords DEF Pause
<1>9. CASE StopProducers
  BY <1>9, GotoRecords DEF StopProducers, Stop_processes, Typed, Managed, Producers
<1>10. CASE Latch
  BY <1>10, GotoRecords DEF Latch, Stop_processes, Typed, Managed, Producers
<1>11. CASE OfferStop
  BY <1>11 DEF OfferStop
<1>12. CASE Drained
  BY <1>12, GotoRecords DEF Drained
<1>13. CASE StopAll
  BY <1>13, GotoRecords DEF StopAll, Stop_processes, Typed, Managed
<1>14. ASSUME NEW a \in Arrs, ArrInventory(a) PROVE Services'
  BY <1>14, GotoRecords DEF ArrInventory
<1>15. ASSUME NEW m \in Media, CaptureMedia(m) PROVE Services'
  BY <1>15, GotoRecords DEF CaptureMedia, Stop_processes, Typed, Managed, Producers
<1>16. CASE QuiesceTimeout
  BY <1>16, GotoRecords DEF QuiesceTimeout
<1>17. CASE MovePath
  BY <1>17 DEF MovePath
<1>18. CASE PathsMoved
  BY <1>18, GotoRecords DEF PathsMoved
<1>19. CASE SaveConfiguration
  BY <1>19, GotoRecords DEF SaveConfiguration
<1>20. CASE RewriteSymlinks
  BY <1>20, GotoRecords DEF RewriteSymlinks
<1>21. CASE Migrate_infinidysk_database
  BY <1>21, GotoRecords DEF Migrate_infinidysk_database
<1>22. CASE StartServices
  BY <1>22, GotoRecords
     DEF StartServices, Restart, Start_processes, Typed, Managed, Producers
<1>23. CASE StartProwlarr
  BY <1>23, GotoRecords
     DEF StartProwlarr, Restart, Start_processes, Typed, Managed, Producers
<1>24. CASE StartProducers
  BY <1>24, GotoRecords
     DEF StartProducers, Restart, Start_processes, Typed, Managed, Producers
<1>25. ASSUME NEW a \in Apps, UpdateArr(a) PROVE Services'
  BY <1>25, GotoRecords
     DEF UpdateArr, UpdateReferences, Apply_snapshot, Validate_snapshot,
         Validate_filesystem, Desired, Reachable
<1>26. ASSUME NEW a \in Apps, UpdateProwlarr(a) PROVE Services'
  BY <1>26, GotoRecords
     DEF UpdateProwlarr, UpdateReferences, Apply_snapshot, Validate_snapshot,
         Validate_filesystem, Desired, Reachable
<1>27. ASSUME NEW a \in Apps, UpdateMedia(a) PROVE Services'
  BY <1>27, GotoRecords
     DEF UpdateMedia, UpdateReferences, Apply_snapshot, Validate_snapshot,
         Validate_filesystem, Desired, Reachable
<1>28. CASE ReferencesDone("arr", Arrs)
  BY <1>28, GotoRecords DEF ReferencesDone, After
<1>29. CASE ReferencesDone("prowlarr", Prowlarrs)
  BY <1>29, GotoRecords DEF ReferencesDone, After
<1>30. CASE ReferencesDone("media", Media)
  BY <1>30, GotoRecords DEF ReferencesDone, After
<1>31. CASE RestoreScanGuards
  BY <1>31, GotoRecords DEF RestoreScanGuards
<1>32. CASE RestoreHealthChecks
  BY <1>32, GotoRecords DEF RestoreHealthChecks
<1>33. CASE Complete
  BY <1>33, GotoRecords DEF Complete
<1>34. CASE ReportDone
  BY <1>34 DEF ReportDone, Record
<1>35. CASE Fault
  BY <1>35, GotoRecords, FaultUndone DEF Fault, Cutting
<1>36. CASE RollbackHealth
  BY <1>36, GotoRecords DEF RollbackHealth, Works, Fails, Raises
<1>37. CASE RollbackStop
  BY <1>37, GotoRecords DEF RollbackStop, Works, Fails, Raises, Typed, Managed, Producers
<1>38. CASE RollbackSymlinks
  BY <1>38, GotoRecords DEF RollbackSymlinks, Works, Fails, Raises
<1>39. CASE RollbackPaths
  BY <1>39, GotoRecords DEF RollbackPaths, Works, Fails, Raises
<1>40. CASE RollbackManifest
  BY <1>40, GotoRecords DEF RollbackManifest, Works, Fails, Raises
<1>41. CASE RollbackFiles
  BY <1>41, GotoRecords DEF RollbackFiles, Works, Fails, Raises
<1>42. CASE RollbackConfig
  BY <1>42, GotoRecords DEF RollbackConfig, Works, Fails, Raises
<1>43. CASE RollbackServices
  BY <1>43, GotoRecords
     DEF RollbackServices, Works, Fails, Raises, Start_processes, Typed, Managed, Producers
<1>44. CASE RollbackHealthAgain
  BY <1>44, GotoRecords DEF RollbackHealthAgain, Works, Fails, Raises
<1>45. CASE RollbackArr
  BY <1>45, GotoRecords DEF RollbackArr, Works, Fails, Raises, RestoreReferences, Reachable
<1>46. CASE RollbackProwlarr
  BY <1>46, GotoRecords
     DEF RollbackProwlarr, Works, Fails, Raises, RestoreReferences, Reachable
<1>47. CASE RollbackMedia
  BY <1>47, GotoRecords
     DEF RollbackMedia, Works, Fails, Raises, RestoreReferences, Reachable
<1>48. CASE RollbackScanGuards
  BY <1>48, GotoRecords DEF RollbackScanGuards, Works, Fails, Raises
<1>49. CASE RollbackSave
  BY <1>49 DEF RollbackSave, Raises
<1>50. CASE Report
  BY <1>50 DEF Report, Record
<1>51. CASE PreflightCheck
  BY <1>51 DEF PreflightCheck
<1>52. CASE PreflightRun
  BY <1>52 DEF PreflightRun
<1>53. CASE Start_full_namespace_job
  BY <1>53 DEF Start_full_namespace_job, Record, Unlocked
<1>54. CASE Request_playback_stop
  BY <1>54 DEF Request_playback_stop
<1>55. CASE RemindLoad
  BY <1>55 DEF RemindLoad
<1>56. CASE RemindSave
  BY <1>56 DEF RemindSave
<1>57. CASE Apply_brand_cutover
  BY <1>57 DEF Apply_brand_cutover
<1>58. CASE Cleanup
  BY <1>58 DEF Cleanup, Cleanup_preview, Cleanup_plan, Cleanup_context, Load_job_readonly
<1>59. CASE CleanupSidecars
  BY <1>59 DEF CleanupSidecars
<1>60. CASE CleanupFinalize
  BY <1>60 DEF CleanupFinalize
<1>61. CASE Reserve
  BY <1>61 DEF Reserve
<1>62. CASE Release
  BY <1>62 DEF Release
<1>63. CASE Update
  BY <1>63 DEF Update
<1>64. CASE Traffic
  BY <1>64 DEF Traffic
<1>65. CASE Crash
  BY <1>65 DEF Crash
<1>66. CASE Boot
  BY <1>66 DEF Boot
<1>67. CASE UNCHANGED vars
  BY <1>67 DEF vars
<1> QED BY <1>1, <1>2, <1>3, <1>4, <1>5, <1>6, <1>7, <1>8, <1>9, <1>10, <1>11, <1>12, <1>13,
           <1>14, <1>15, <1>16, <1>17, <1>18, <1>19, <1>20, <1>21, <1>22, <1>23, <1>24,
           <1>25, <1>26, <1>27, <1>28, <1>29, <1>30, <1>31, <1>32, <1>33, <1>34, <1>35,
           <1>36, <1>37, <1>38, <1>39, <1>40, <1>41, <1>42, <1>43, <1>44, <1>45, <1>46,
           <1>47, <1>48, <1>49, <1>50, <1>51, <1>52, <1>53, <1>54, <1>55, <1>56, <1>57,
           <1>58, <1>59, <1>60, <1>61, <1>62, <1>63, <1>64, <1>65, <1>66, <1>67
           DEF Next, Worker, Early, Quiesce, Cutover, RollingBack, Operator

\* The drain leaves nothing behind it.
LEMMA QuietStep ==
  ASSUME Typed, Recorded, Excluded, Quiet, [Next]_vars
  PROVE  Quiet'
<1> USE DEF Quiet, Starting, Idle, Excluded, Recorded, Cut, Quiescing, Relocated, Configured,
            Linked, Converted, Restarted, ArrsDone, ProwlarrsUp, ProwlarrsDone, MediaDone,
            Unguarded, Checking, AllUp, PCs, ForwardPCs, RollbackPCs, EarlyPCs, world, place,
            traffic, disk, local, actors, aside, bounds
<1>1. CASE Acquire
  BY <1>1, GotoRecords DEF Acquire
<1>2. CASE Validate
  BY <1>2, GotoRecords DEF Validate
<1>3. CASE Recheck
  BY <1>3, GotoRecords DEF Recheck, Unlocked
<1>4. CASE Reload
  BY <1>4, GotoRecords DEF Reload
<1>5. CASE Backup
  BY <1>5, GotoRecords DEF Backup, Nothing_done_yet
<1>6. CASE Uncaught
  BY <1>6 DEF Uncaught, Raises
<1>7. CASE RecordGuard
  BY <1>7, GotoRecords DEF RecordGuard
<1>8. CASE Pause
  BY <1>8, GotoRecords DEF Pause
<1>9. CASE StopProducers
  BY <1>9, GotoRecords DEF StopProducers, Stop_processes, Typed
<1>10. CASE Latch
  BY <1>10, GotoRecords, NamespaceAssumption
     DEF Latch, Stop_processes, NamespaceAssumption, Typed, Managed
<1>11. CASE OfferStop
  BY <1>11 DEF OfferStop
<1>12. CASE Drained
  BY <1>12, GotoRecords DEF Drained, Typed, Producers
<1>13. CASE StopAll
  BY <1>13, GotoRecords DEF StopAll, Stop_processes, Typed, Managed, Producers
<1>14. ASSUME NEW a \in Arrs, ArrInventory(a) PROVE Quiet'
  BY <1>14, GotoRecords DEF ArrInventory, Typed, Producers
<1>15. ASSUME NEW m \in Media, CaptureMedia(m) PROVE Quiet'
  BY <1>15, GotoRecords, NamespaceAssumption
     DEF CaptureMedia, Stop_processes, NamespaceAssumption, Typed, Producers
<1>16. CASE QuiesceTimeout
  BY <1>16, GotoRecords DEF QuiesceTimeout
<1>17. CASE MovePath
  BY <1>17 DEF MovePath
<1>18. CASE PathsMoved
  BY <1>18, GotoRecords DEF PathsMoved
<1>19. CASE SaveConfiguration
  BY <1>19, GotoRecords DEF SaveConfiguration
<1>20. CASE RewriteSymlinks
  BY <1>20, GotoRecords DEF RewriteSymlinks
<1>21. CASE Migrate_infinidysk_database
  BY <1>21, GotoRecords DEF Migrate_infinidysk_database
<1>22. CASE StartServices
  BY <1>22, GotoRecords DEF StartServices, Restart, Start_processes
<1>23. CASE StartProwlarr
  BY <1>23, GotoRecords DEF StartProwlarr, Restart, Start_processes
<1>24. CASE StartProducers
  BY <1>24, GotoRecords DEF StartProducers, Restart, Start_processes
<1>25. ASSUME NEW a \in Apps, UpdateArr(a) PROVE Quiet'
  BY <1>25, GotoRecords
     DEF UpdateArr, UpdateReferences, Apply_snapshot, Validate_snapshot,
         Validate_filesystem, Desired, Reachable
<1>26. ASSUME NEW a \in Apps, UpdateProwlarr(a) PROVE Quiet'
  BY <1>26, GotoRecords
     DEF UpdateProwlarr, UpdateReferences, Apply_snapshot, Validate_snapshot,
         Validate_filesystem, Desired, Reachable
<1>27. ASSUME NEW a \in Apps, UpdateMedia(a) PROVE Quiet'
  BY <1>27, GotoRecords
     DEF UpdateMedia, UpdateReferences, Apply_snapshot, Validate_snapshot,
         Validate_filesystem, Desired, Reachable
<1>28. CASE ReferencesDone("arr", Arrs)
  BY <1>28, GotoRecords DEF ReferencesDone, After
<1>29. CASE ReferencesDone("prowlarr", Prowlarrs)
  BY <1>29, GotoRecords DEF ReferencesDone, After
<1>30. CASE ReferencesDone("media", Media)
  BY <1>30, GotoRecords DEF ReferencesDone, After
<1>31. CASE RestoreScanGuards
  BY <1>31, GotoRecords DEF RestoreScanGuards
<1>32. CASE RestoreHealthChecks
  BY <1>32, GotoRecords DEF RestoreHealthChecks
<1>33. CASE Complete
  BY <1>33, GotoRecords DEF Complete
<1>34. CASE ReportDone
  BY <1>34 DEF ReportDone, Record
<1>35. CASE Fault
  BY <1>35, GotoRecords DEF Fault
<1>36. CASE RollbackHealth
  BY <1>36, GotoRecords DEF RollbackHealth, Works, Fails, Raises
<1>37. CASE RollbackStop
  BY <1>37, GotoRecords DEF RollbackStop, Works, Fails, Raises
<1>38. CASE RollbackSymlinks
  BY <1>38, GotoRecords DEF RollbackSymlinks, Works, Fails, Raises
<1>39. CASE RollbackPaths
  BY <1>39, GotoRecords DEF RollbackPaths, Works, Fails, Raises
<1>40. CASE RollbackManifest
  BY <1>40, GotoRecords DEF RollbackManifest, Works, Fails, Raises
<1>41. CASE RollbackFiles
  BY <1>41, GotoRecords DEF RollbackFiles, Works, Fails, Raises
<1>42. CASE RollbackConfig
  BY <1>42, GotoRecords DEF RollbackConfig, Works, Fails, Raises
<1>43. CASE RollbackServices
  BY <1>43, GotoRecords DEF RollbackServices, Works, Fails, Raises, Start_processes
<1>44. CASE RollbackHealthAgain
  BY <1>44, GotoRecords DEF RollbackHealthAgain, Works, Fails, Raises
<1>45. CASE RollbackArr
  BY <1>45, GotoRecords DEF RollbackArr, Works, Fails, Raises, RestoreReferences, Reachable
<1>46. CASE RollbackProwlarr
  BY <1>46, GotoRecords
     DEF RollbackProwlarr, Works, Fails, Raises, RestoreReferences, Reachable
<1>47. CASE RollbackMedia
  BY <1>47, GotoRecords
     DEF RollbackMedia, Works, Fails, Raises, RestoreReferences, Reachable
<1>48. CASE RollbackScanGuards
  BY <1>48, GotoRecords DEF RollbackScanGuards, Works, Fails, Raises
<1>49. CASE RollbackSave
  BY <1>49 DEF RollbackSave, Raises
<1>50. CASE Report
  BY <1>50 DEF Report, Record
<1>51. CASE PreflightCheck
  BY <1>51 DEF PreflightCheck
<1>52. CASE PreflightRun
  BY <1>52 DEF PreflightRun
<1>53. CASE Start_full_namespace_job
  BY <1>53 DEF Start_full_namespace_job, Record, Unlocked
<1>54. CASE Request_playback_stop
  BY <1>54 DEF Request_playback_stop
<1>55. CASE RemindLoad
  BY <1>55 DEF RemindLoad
<1>56. CASE RemindSave
  BY <1>56 DEF RemindSave
<1>57. CASE Apply_brand_cutover
  BY <1>57 DEF Apply_brand_cutover
<1>58. CASE Cleanup
  BY <1>58 DEF Cleanup, Cleanup_preview, Cleanup_plan, Cleanup_context, Load_job_readonly
<1>59. CASE CleanupSidecars
  BY <1>59 DEF CleanupSidecars
<1>60. CASE CleanupFinalize
  BY <1>60 DEF CleanupFinalize
<1>61. CASE Reserve
  BY <1>61 DEF Reserve
<1>62. CASE Release
  BY <1>62 DEF Release
<1>63. CASE Update
  BY <1>63 DEF Update
<1>64. CASE Traffic
  BY <1>64 DEF Traffic, Typed, Producers
<1>65. CASE Crash
  BY <1>65 DEF Crash
<1>66. CASE Boot
  BY <1>66 DEF Boot
<1>67. CASE UNCHANGED vars
  BY <1>67 DEF vars
<1> QED BY <1>1, <1>2, <1>3, <1>4, <1>5, <1>6, <1>7, <1>8, <1>9, <1>10, <1>11, <1>12, <1>13,
           <1>14, <1>15, <1>16, <1>17, <1>18, <1>19, <1>20, <1>21, <1>22, <1>23, <1>24,
           <1>25, <1>26, <1>27, <1>28, <1>29, <1>30, <1>31, <1>32, <1>33, <1>34, <1>35,
           <1>36, <1>37, <1>38, <1>39, <1>40, <1>41, <1>42, <1>43, <1>44, <1>45, <1>46,
           <1>47, <1>48, <1>49, <1>50, <1>51, <1>52, <1>53, <1>54, <1>55, <1>56, <1>57,
           <1>58, <1>59, <1>60, <1>61, <1>62, <1>63, <1>64, <1>65, <1>66, <1>67
           DEF Next, Worker, Early, Quiesce, Cutover, RollingBack, Operator

\* The cut-over goes from one kind of reference to the next.
LEMMA CuttingStep ==
  ASSUME Typed, Recorded, Excluded, Dependable, Cutting, Bounded, [Next]_vars
  PROVE  Cutting'
<1> USE DEF Cutting, Said, Cut, Quiescing, Relocated, Configured, Linked, Converted, Restarted,
            ArrsDone, ProwlarrsUp, ProwlarrsDone, MediaDone, Unguarded, Checking, AllUp, PCs,
            ForwardPCs, RollbackPCs, EarlyPCs, world, place, traffic, disk, local, actors,
            aside, bounds
<1>1. CASE Acquire
  BY <1>1, GotoRecords DEF Acquire
<1>2. CASE Validate
  BY <1>2, GotoRecords DEF Validate
<1>3. CASE Recheck
  BY <1>3, GotoRecords DEF Recheck, Unlocked
<1>4. CASE Reload
  BY <1>4, GotoRecords DEF Reload
<1>5. CASE Backup
  BY <1>5, GotoRecords DEF Backup, Nothing_done_yet, Bounded, Starting, Original, Apps
<1>6. CASE Uncaught
  BY <1>6 DEF Uncaught, Raises
<1>7. CASE RecordGuard
  BY <1>7, GotoRecords DEF RecordGuard
<1>8. CASE Pause
  BY <1>8, GotoRecords DEF Pause, Typed
<1>9. CASE StopProducers
  BY <1>9, GotoRecords DEF StopProducers, Stop_processes
<1>10. CASE Latch
  BY <1>10, GotoRecords DEF Latch, Stop_processes
<1>11. CASE OfferStop
  BY <1>11 DEF OfferStop
<1>12. CASE Drained
  BY <1>12, GotoRecords DEF Drained
<1>13. CASE StopAll
  BY <1>13, GotoRecords DEF StopAll, Stop_processes
<1>14. ASSUME NEW a \in Arrs, ArrInventory(a) PROVE Cutting'
  BY <1>14, GotoRecords DEF ArrInventory
<1>15. ASSUME NEW m \in Media, CaptureMedia(m) PROVE Cutting'
  BY <1>15, GotoRecords DEF CaptureMedia, Stop_processes
<1>16. CASE QuiesceTimeout
  BY <1>16, GotoRecords DEF QuiesceTimeout
<1>17. CASE MovePath
  BY <1>17 DEF MovePath, Typed
<1>18. CASE PathsMoved
  <2>1. moved = 1 .. Paths
    BY <1>18 DEF PathsMoved, Typed
  <2> QED BY <1>18, <2>1, GotoRecords DEF PathsMoved
<1>19. CASE SaveConfiguration
  BY <1>19, GotoRecords DEF SaveConfiguration
<1>20. CASE RewriteSymlinks
  BY <1>20, GotoRecords DEF RewriteSymlinks
<1>21. CASE Migrate_infinidysk_database
  BY <1>21, GotoRecords DEF Migrate_infinidysk_database
<1>22. CASE StartServices
  BY <1>22, GotoRecords DEF StartServices, Restart, Start_processes
<1>23. CASE StartProwlarr
  BY <1>23, GotoRecords DEF StartProwlarr, Restart, Start_processes
<1>24. CASE StartProducers
  BY <1>24, GotoRecords DEF StartProducers, Restart, Start_processes
<1>25. ASSUME NEW a \in Apps, UpdateArr(a) PROVE Cutting'
  BY <1>25, GotoRecords, NamespaceAssumption
     DEF UpdateArr, UpdateReferences, Apply_snapshot, Validate_snapshot,
         Validate_filesystem, Desired, Reachable, NamespaceAssumption, Typed, Apps,
         Producers
<1>26. ASSUME NEW a \in Apps, UpdateProwlarr(a) PROVE Cutting'
  BY <1>26, GotoRecords, NamespaceAssumption
     DEF UpdateProwlarr, UpdateReferences, Apply_snapshot, Validate_snapshot,
         Validate_filesystem, Desired, Reachable, NamespaceAssumption, Typed, Apps,
         Producers
<1>27. ASSUME NEW a \in Apps, UpdateMedia(a) PROVE Cutting'
  BY <1>27, GotoRecords, NamespaceAssumption
     DEF UpdateMedia, UpdateReferences, Apply_snapshot, Validate_snapshot,
         Validate_filesystem, Desired, Reachable, NamespaceAssumption, Typed, Apps,
         Producers
<1>28. CASE ReferencesDone("arr", Arrs)
  BY <1>28, GotoRecords DEF ReferencesDone, After
<1>29. CASE ReferencesDone("prowlarr", Prowlarrs)
  BY <1>29, GotoRecords DEF ReferencesDone, After
<1>30. CASE ReferencesDone("media", Media)
  BY <1>30, GotoRecords DEF ReferencesDone, After
<1>31. CASE RestoreScanGuards
  BY <1>31, GotoRecords DEF RestoreScanGuards, Typed
<1>32. CASE RestoreHealthChecks
  BY <1>32, GotoRecords DEF RestoreHealthChecks
<1>33. CASE Complete
  BY <1>33, GotoRecords DEF Complete
<1>34. CASE ReportDone
  BY <1>34 DEF ReportDone, Record
<1>35. CASE Fault
  BY <1>35, GotoRecords DEF Fault
<1>36. CASE RollbackHealth
  BY <1>36, GotoRecords DEF RollbackHealth, Works, Fails, Raises
<1>37. CASE RollbackStop
  BY <1>37, GotoRecords DEF RollbackStop, Works, Fails, Raises
<1>38. CASE RollbackSymlinks
  BY <1>38, GotoRecords DEF RollbackSymlinks, Works, Fails, Raises
<1>39. CASE RollbackPaths
  BY <1>39, GotoRecords DEF RollbackPaths, Works, Fails, Raises
<1>40. CASE RollbackManifest
  BY <1>40, GotoRecords DEF RollbackManifest, Works, Fails, Raises
<1>41. CASE RollbackFiles
  BY <1>41, GotoRecords DEF RollbackFiles, Works, Fails, Raises
<1>42. CASE RollbackConfig
  BY <1>42, GotoRecords DEF RollbackConfig, Works, Fails, Raises
<1>43. CASE RollbackServices
  BY <1>43, GotoRecords DEF RollbackServices, Works, Fails, Raises, Start_processes
<1>44. CASE RollbackHealthAgain
  BY <1>44, GotoRecords DEF RollbackHealthAgain, Works, Fails, Raises
<1>45. CASE RollbackArr
  BY <1>45, GotoRecords DEF RollbackArr, Works, Fails, Raises, RestoreReferences, Reachable
<1>46. CASE RollbackProwlarr
  BY <1>46, GotoRecords
     DEF RollbackProwlarr, Works, Fails, Raises, RestoreReferences, Reachable
<1>47. CASE RollbackMedia
  BY <1>47, GotoRecords
     DEF RollbackMedia, Works, Fails, Raises, RestoreReferences, Reachable
<1>48. CASE RollbackScanGuards
  BY <1>48, GotoRecords DEF RollbackScanGuards, Works, Fails, Raises
<1>49. CASE RollbackSave
  BY <1>49 DEF RollbackSave, Raises
<1>50. CASE Report
  BY <1>50 DEF Report, Record
<1>51. CASE PreflightCheck
  BY <1>51 DEF PreflightCheck, Excluded, Recorded, Idle
<1>52. CASE PreflightRun
  BY <1>52 DEF PreflightRun
<1>53. CASE Start_full_namespace_job
  BY <1>53 DEF Start_full_namespace_job, Record, Unlocked
<1>54. CASE Request_playback_stop
  BY <1>54 DEF Request_playback_stop
<1>55. CASE RemindLoad
  BY <1>55 DEF RemindLoad
<1>56. CASE RemindSave
  BY <1>56 DEF RemindSave
<1>57. CASE Apply_brand_cutover
  BY <1>57 DEF Apply_brand_cutover, Excluded, Recorded, Idle
<1>58. CASE Cleanup
  BY <1>58
     DEF Cleanup, Cleanup_preview, Cleanup_plan, Cleanup_context, Load_job_readonly,
         Excluded, Recorded, Idle, Active
<1>59. CASE CleanupSidecars
  BY <1>59 DEF CleanupSidecars, Excluded, Recorded, Idle
<1>60. CASE CleanupFinalize
  BY <1>60 DEF CleanupFinalize
<1>61. CASE Reserve
  BY <1>61 DEF Reserve, Excluded, Recorded, Idle
<1>62. CASE Release
  BY <1>62 DEF Release, Excluded, Recorded, Idle
<1>63. CASE Update
  BY <1>63 DEF Update
<1>64. CASE Traffic
  BY <1>64 DEF Traffic
<1>65. CASE Crash
  BY <1>65 DEF Crash
<1>66. CASE Boot
  BY <1>66 DEF Boot, Excluded, Recorded, Idle
<1>67. CASE UNCHANGED vars
  BY <1>67 DEF vars
<1> QED BY <1>1, <1>2, <1>3, <1>4, <1>5, <1>6, <1>7, <1>8, <1>9, <1>10, <1>11, <1>12, <1>13,
           <1>14, <1>15, <1>16, <1>17, <1>18, <1>19, <1>20, <1>21, <1>22, <1>23, <1>24,
           <1>25, <1>26, <1>27, <1>28, <1>29, <1>30, <1>31, <1>32, <1>33, <1>34, <1>35,
           <1>36, <1>37, <1>38, <1>39, <1>40, <1>41, <1>42, <1>43, <1>44, <1>45, <1>46,
           <1>47, <1>48, <1>49, <1>50, <1>51, <1>52, <1>53, <1>54, <1>55, <1>56, <1>57,
           <1>58, <1>59, <1>60, <1>61, <1>62, <1>63, <1>64, <1>65, <1>66, <1>67
           DEF Next, Worker, Early, Quiesce, Cutover, RollingBack, Operator

\* The rollback puts back one kind after the other, or counts an error.
LEMMA UndoingStep ==
  ASSUME Typed, Recorded, Excluded, Dependable, Cutting, Services, Undoing, [Next]_vars
  PROVE  Undoing'
<1> USE DEF Undoing, PathsBack, LinksBack, FilesBack, ConfigBack, ServicesBack, ArrsBack,
            ProwlarrsBack, MediaBack, GuardsBack, PCs, ForwardPCs, RollbackPCs, EarlyPCs, world,
            place, traffic, disk, local, actors, aside, bounds
<1>1. CASE Acquire
  BY <1>1, GotoRecords DEF Acquire
<1>2. CASE Validate
  BY <1>2, GotoRecords DEF Validate
<1>3. CASE Recheck
  BY <1>3, GotoRecords DEF Recheck, Unlocked
<1>4. CASE Reload
  BY <1>4, GotoRecords DEF Reload
<1>5. CASE Backup
  BY <1>5, GotoRecords DEF Backup, Nothing_done_yet
<1>6. CASE Uncaught
  BY <1>6 DEF Uncaught, Raises
<1>7. CASE RecordGuard
  BY <1>7, GotoRecords DEF RecordGuard
<1>8. CASE Pause
  BY <1>8, GotoRecords DEF Pause
<1>9. CASE StopProducers
  BY <1>9, GotoRecords DEF StopProducers, Stop_processes
<1>10. CASE Latch
  BY <1>10, GotoRecords DEF Latch, Stop_processes
<1>11. CASE OfferStop
  BY <1>11 DEF OfferStop
<1>12. CASE Drained
  BY <1>12, GotoRecords DEF Drained
<1>13. CASE StopAll
  BY <1>13, GotoRecords DEF StopAll, Stop_processes
<1>14. ASSUME NEW a \in Arrs, ArrInventory(a) PROVE Undoing'
  BY <1>14, GotoRecords DEF ArrInventory
<1>15. ASSUME NEW m \in Media, CaptureMedia(m) PROVE Undoing'
  BY <1>15, GotoRecords DEF CaptureMedia, Stop_processes
<1>16. CASE QuiesceTimeout
  BY <1>16, GotoRecords DEF QuiesceTimeout, Typed, Cutting, Cut, Said
<1>17. CASE MovePath
  BY <1>17 DEF MovePath
<1>18. CASE PathsMoved
  BY <1>18, GotoRecords DEF PathsMoved
<1>19. CASE SaveConfiguration
  BY <1>19, GotoRecords DEF SaveConfiguration
<1>20. CASE RewriteSymlinks
  BY <1>20, GotoRecords DEF RewriteSymlinks
<1>21. CASE Migrate_infinidysk_database
  BY <1>21, GotoRecords DEF Migrate_infinidysk_database
<1>22. CASE StartServices
  BY <1>22, GotoRecords DEF StartServices, Restart, Start_processes
<1>23. CASE StartProwlarr
  BY <1>23, GotoRecords DEF StartProwlarr, Restart, Start_processes
<1>24. CASE StartProducers
  BY <1>24, GotoRecords DEF StartProducers, Restart, Start_processes
<1>25. ASSUME NEW a \in Apps, UpdateArr(a) PROVE Undoing'
  BY <1>25, GotoRecords
     DEF UpdateArr, UpdateReferences, Apply_snapshot, Validate_snapshot,
         Validate_filesystem, Desired, Reachable
<1>26. ASSUME NEW a \in Apps, UpdateProwlarr(a) PROVE Undoing'
  BY <1>26, GotoRecords
     DEF UpdateProwlarr, UpdateReferences, Apply_snapshot, Validate_snapshot,
         Validate_filesystem, Desired, Reachable
<1>27. ASSUME NEW a \in Apps, UpdateMedia(a) PROVE Undoing'
  BY <1>27, GotoRecords
     DEF UpdateMedia, UpdateReferences, Apply_snapshot, Validate_snapshot,
         Validate_filesystem, Desired, Reachable
<1>28. CASE ReferencesDone("arr", Arrs)
  BY <1>28, GotoRecords DEF ReferencesDone, After
<1>29. CASE ReferencesDone("prowlarr", Prowlarrs)
  BY <1>29, GotoRecords DEF ReferencesDone, After
<1>30. CASE ReferencesDone("media", Media)
  BY <1>30, GotoRecords DEF ReferencesDone, After
<1>31. CASE RestoreScanGuards
  BY <1>31, GotoRecords DEF RestoreScanGuards
<1>32. CASE RestoreHealthChecks
  BY <1>32, GotoRecords DEF RestoreHealthChecks
<1>33. CASE Complete
  BY <1>33, GotoRecords DEF Complete
<1>34. CASE ReportDone
  BY <1>34 DEF ReportDone, Record
<1>35. CASE Fault
  BY <1>35, GotoRecords, FaultUndone DEF Fault, Cutting, Cut
<1>36. CASE RollbackHealth
  BY <1>36, GotoRecords DEF RollbackHealth, Works, Fails, Raises
<1>37. CASE RollbackStop
  BY <1>37, GotoRecords DEF RollbackStop, Works, Fails, Raises
<1>38. CASE RollbackSymlinks
  BY <1>38, GotoRecords DEF RollbackSymlinks, Works, Fails, Raises
<1>39. CASE RollbackPaths
  BY <1>39, GotoRecords DEF RollbackPaths, Works, Fails, Raises, Typed
<1>40. CASE RollbackManifest
  BY <1>40, GotoRecords DEF RollbackManifest, Works, Fails, Raises
<1>41. CASE RollbackFiles
  BY <1>41, GotoRecords DEF RollbackFiles, Works, Fails, Raises
<1>42. CASE RollbackConfig
  BY <1>42, GotoRecords DEF RollbackConfig, Works, Fails, Raises
<1>43. CASE RollbackServices
  BY <1>43, GotoRecords
     DEF RollbackServices, Works, Fails, Raises, Start_processes, Services, Typed, Cut
<1>44. CASE RollbackHealthAgain
  BY <1>44, GotoRecords DEF RollbackHealthAgain, Works, Fails, Raises
<1>45. CASE RollbackArr
  <2>1. PICK lost \in SUBSET {a \in Arrs : Reachable(a)} :
          LET back == {a \in Arrs : Reachable(a)} \ lost IN
          /\ refs' = [a \in Apps |-> IF a \in back THEN "old" ELSE refs[a]]
          /\ IF lost # {} THEN Fails
             ELSE errs' = (errs \/ back # Arrs) /\ UNCHANGED faults
    BY <1>45 DEF RollbackArr, RestoreReferences
  <2>2. errs' \/ (~errs /\ \A a \in Arrs : refs'[a] = "old")
    <3>1. CASE lost # {} BY <2>1, <3>1 DEF Fails
    <3>2. CASE lost = {} BY <2>1, <3>2 DEF Apps, Typed
    <3> QED BY <3>1, <3>2
  <2>3. \A a \in Apps : refs'[a] \in {"old", refs[a]}
    BY <2>1
  <2> QED BY <1>45, <2>2, <2>3, GotoRecords DEF RollbackArr, RestoreReferences, Apps
<1>46. CASE RollbackProwlarr
  <2>1. PICK lost \in SUBSET {a \in Prowlarrs : Reachable(a)} :
          LET back == {a \in Prowlarrs : Reachable(a)} \ lost IN
          /\ refs' = [a \in Apps |-> IF a \in back THEN "old" ELSE refs[a]]
          /\ IF lost # {} THEN Fails
             ELSE errs' = (errs \/ back # Prowlarrs) /\ UNCHANGED faults
    BY <1>46 DEF RollbackProwlarr, RestoreReferences
  <2>2. errs' \/ (~errs /\ \A a \in Prowlarrs : refs'[a] = "old")
    <3>1. CASE lost # {} BY <2>1, <3>1 DEF Fails
    <3>2. CASE lost = {} BY <2>1, <3>2 DEF Apps, Typed
    <3> QED BY <3>1, <3>2
  <2>3. \A a \in Apps : refs'[a] \in {"old", refs[a]}
    BY <2>1
  <2> QED BY <1>46, <2>2, <2>3, GotoRecords DEF RollbackProwlarr, RestoreReferences, Apps
<1>47. CASE RollbackMedia
  <2>1. PICK lost \in SUBSET {a \in Media : Reachable(a)} :
          LET back == {a \in Media : Reachable(a)} \ lost IN
          /\ refs' = [a \in Apps |-> IF a \in back THEN "old" ELSE refs[a]]
          /\ IF lost # {} THEN Fails
             ELSE errs' = (errs \/ back # Media) /\ UNCHANGED faults
    BY <1>47 DEF RollbackMedia, RestoreReferences
  <2>2. errs' \/ (~errs /\ \A a \in Media : refs'[a] = "old")
    <3>1. CASE lost # {} BY <2>1, <3>1 DEF Fails
    <3>2. CASE lost = {} BY <2>1, <3>2 DEF Apps, Typed
    <3> QED BY <3>1, <3>2
  <2>3. \A a \in Apps : refs'[a] \in {"old", refs[a]}
    BY <2>1
  <2> QED BY <1>47, <2>2, <2>3, GotoRecords DEF RollbackMedia, RestoreReferences, Apps
<1>48. CASE RollbackScanGuards
  BY <1>48, GotoRecords DEF RollbackScanGuards, Works, Fails, Raises, Typed
<1>49. CASE RollbackSave
  BY <1>49 DEF RollbackSave, Raises
<1>50. CASE Report
  BY <1>50 DEF Report, Record
<1>51. CASE PreflightCheck
  BY <1>51 DEF PreflightCheck
<1>52. CASE PreflightRun
  BY <1>52 DEF PreflightRun
<1>53. CASE Start_full_namespace_job
  BY <1>53 DEF Start_full_namespace_job, Record, Unlocked
<1>54. CASE Request_playback_stop
  BY <1>54 DEF Request_playback_stop
<1>55. CASE RemindLoad
  BY <1>55 DEF RemindLoad
<1>56. CASE RemindSave
  BY <1>56 DEF RemindSave
<1>57. CASE Apply_brand_cutover
  BY <1>57 DEF Apply_brand_cutover
<1>58. CASE Cleanup
  BY <1>58
     DEF Cleanup, Cleanup_preview, Cleanup_plan, Cleanup_context, Load_job_readonly,
         Excluded, Recorded, Idle, Active
<1>59. CASE CleanupSidecars
  BY <1>59 DEF CleanupSidecars
<1>60. CASE CleanupFinalize
  BY <1>60 DEF CleanupFinalize
<1>61. CASE Reserve
  BY <1>61 DEF Reserve
<1>62. CASE Release
  BY <1>62 DEF Release, Excluded
<1>63. CASE Update
  BY <1>63 DEF Update
<1>64. CASE Traffic
  BY <1>64 DEF Traffic
<1>65. CASE Crash
  BY <1>65 DEF Crash
<1>66. CASE Boot
  BY <1>66 DEF Boot
<1>67. CASE UNCHANGED vars
  BY <1>67 DEF vars
<1> QED BY <1>1, <1>2, <1>3, <1>4, <1>5, <1>6, <1>7, <1>8, <1>9, <1>10, <1>11, <1>12, <1>13,
           <1>14, <1>15, <1>16, <1>17, <1>18, <1>19, <1>20, <1>21, <1>22, <1>23, <1>24,
           <1>25, <1>26, <1>27, <1>28, <1>29, <1>30, <1>31, <1>32, <1>33, <1>34, <1>35,
           <1>36, <1>37, <1>38, <1>39, <1>40, <1>41, <1>42, <1>43, <1>44, <1>45, <1>46,
           <1>47, <1>48, <1>49, <1>50, <1>51, <1>52, <1>53, <1>54, <1>55, <1>56, <1>57,
           <1>58, <1>59, <1>60, <1>61, <1>62, <1>63, <1>64, <1>65, <1>66, <1>67
           DEF Next, Worker, Early, Quiesce, Cutover, RollingBack, Operator

\* The installation and the record, as the invariant reads them.
LEMMA SameWorld ==
  ASSUME UNCHANGED <<place, checks, guards, checks0>>
  PROVE  Unsafe' = Unsafe /\ Original' = Original /\ Migrated' = Migrated
  BY DEF Unsafe, Original, Migrated, place

\* An installation that is not in between is one or the other.
LEMMA Either ==
  /\ cfg = "old" /\ ~Unsafe => Original
  /\ Original => cfg = "old" /\ ~Unsafe
  /\ Migrated => ~Unsafe
  BY DEF Unsafe, Original, Migrated

\* Reading the record, or marking what it says, changes nothing of what it asks for.
LEMMA SeenAgain ==
  ASSUME job' = job \/ job' = Seen(job)
  PROVE  /\ HasRecoveryPendingJob' = HasRecoveryPendingJob
         /\ Seen(job)' = Seen(job)
<1>1. CASE job' = job BY <1>1 DEF Seen, HasRecoveryPendingJob, PreMutation
<1>2. CASE job' = Seen(job) BY <1>2 DEF Seen, HasRecoveryPendingJob, PreMutation, Active
<1> QED BY <1>1, <1>2

\* A worker that dies leaves a record that asks for recovery once it has begun to change things.
LEMMA Died ==
  ASSUME Typed, job' = [job EXCEPT !.mine = FALSE]
  PROVE  /\ HasRecoveryPendingJob => HasRecoveryPendingJob'
         /\ job.status \in Active /\ job.stage \notin PreMutationStages => HasRecoveryPendingJob'
         /\ HasRecoveryPendingJob' =>
              \/ HasRecoveryPendingJob
              \/ job.mine /\ job.status \in Active /\ job.stage \notin PreMutationStages
  BY DEF HasRecoveryPendingJob, Seen, PreMutation, Active, Typed, JobRecord

\* A worker that lives is not waited for.
LEMMA AtWork == ASSUME job'.mine, job'.status \in Active PROVE ~HasRecoveryPendingJob'
  BY DEF HasRecoveryPendingJob, Seen, PreMutation, Active

\* A record asks for recovery when the outcome does.
LEMMA Ended ==
  ASSUME NEW s, NEW p, job' = Record(s, p)
  PROVE  /\ HasRecoveryPendingJob' <=> s \in {"rollback_attention_required", "interrupted"}
         /\ Seen(job)'.status = s
  BY DEF HasRecoveryPendingJob, Seen, PreMutation, Active, Record, PreMutationStages

\* At the end of a rollback without errors everything is where it was.
LEMMA EndsOriginal ==
  ASSUME Undoing, Services, pc = "rollback_save", ~errs
  PROVE  Original /\ (Restartable => up = up0)
  BY DEF Undoing, Services, Original, Apps, RollbackPCs, PathsBack, LinksBack, FilesBack,
         ConfigBack,
         ServicesBack, ArrsBack, ProwlarrsBack, MediaBack, GuardsBack

\* At the end of the cut-over everything is in the new namespace.
LEMMA EndsMigrated ==
  ASSUME Typed, Cutting, Services, pc = "report_done" PROVE Migrated /\ up = up0
  BY DEF Typed, Cutting, Services, Migrated, Apps, Said, Cut, ForwardPCs, Quiescing,
         Relocated, Configured,
         Linked, Converted, Restarted, ArrsDone, ProwlarrsUp, ProwlarrsDone, MediaDone,
         Unguarded, Checking, AllUp

\* An unsafe installation comes from a worker that says so.
LEMMA BoundedStep ==
  ASSUME Typed, Recorded, Excluded, Dependable, Cutting, Services, Undoing, Bounded, Bundled,
         [Next]_vars
  PROVE  Bounded'
<1> USE DEF Bounded, Starting, Idle, PCs, ForwardPCs, RollbackPCs, EarlyPCs, world, place,
            traffic, disk, local, actors, aside, bounds
<1>1. CASE Acquire
  BY <1>1, GotoRecords, SameWorld, Either, SeenAgain, Ended DEF Acquire, Recorded
<1>2. CASE Validate
  BY <1>2, GotoRecords, SameWorld, Either, SeenAgain DEF Validate
<1>3. CASE Recheck
  BY <1>3, GotoRecords, SameWorld, Either, SeenAgain DEF Recheck, Unlocked
<1>4. CASE Reload
  BY <1>4, GotoRecords, SameWorld, Either, SeenAgain DEF Reload
<1>5. CASE Backup
  BY <1>5, GotoRecords, SameWorld, Either, SeenAgain DEF Backup, Nothing_done_yet
<1>6. CASE Uncaught
  BY <1>6, SameWorld, Either, SeenAgain, EndsMigrated
     DEF Uncaught, Raises, Recorded, Dependable, PreMutationStages
<1>7. CASE RecordGuard
  BY <1>7, GotoRecords, SameWorld, Either, SeenAgain DEF RecordGuard
<1>8. CASE Pause
  BY <1>8, GotoRecords, SameWorld, Either, SeenAgain DEF Pause
<1>9. CASE StopProducers
  BY <1>9, GotoRecords, SameWorld, Either, SeenAgain DEF StopProducers, Stop_processes
<1>10. CASE Latch
  BY <1>10, GotoRecords, SameWorld, Either, SeenAgain DEF Latch, Stop_processes
<1>11. CASE OfferStop
  BY <1>11, SameWorld, Either, SeenAgain DEF OfferStop
<1>12. CASE Drained
  BY <1>12, GotoRecords, SameWorld, Either, SeenAgain DEF Drained
<1>13. CASE StopAll
  BY <1>13, GotoRecords, SameWorld, Either, SeenAgain DEF StopAll, Stop_processes
<1>14. ASSUME NEW a \in Arrs, ArrInventory(a) PROVE Bounded'
  BY <1>14, GotoRecords, SameWorld, Either, SeenAgain DEF ArrInventory
<1>15. ASSUME NEW m \in Media, CaptureMedia(m) PROVE Bounded'
  BY <1>15, GotoRecords, SameWorld, Either, SeenAgain DEF CaptureMedia, Stop_processes
<1>16. CASE QuiesceTimeout
  BY <1>16, GotoRecords, SameWorld, Either, SeenAgain DEF QuiesceTimeout
<1>17. CASE MovePath
  BY <1>17, SameWorld, Either, SeenAgain DEF MovePath
<1>18. CASE PathsMoved
  BY <1>18, GotoRecords, SameWorld, Either, SeenAgain DEF PathsMoved
<1>19. CASE SaveConfiguration
  BY <1>19, GotoRecords, SameWorld, Either, SeenAgain DEF SaveConfiguration
<1>20. CASE RewriteSymlinks
  BY <1>20, GotoRecords, SameWorld, Either, SeenAgain DEF RewriteSymlinks
<1>21. CASE Migrate_infinidysk_database
  BY <1>21, GotoRecords, SameWorld, Either, SeenAgain DEF Migrate_infinidysk_database
<1>22. CASE StartServices
  BY <1>22, GotoRecords, SameWorld, Either, SeenAgain
     DEF StartServices, Restart, Start_processes
<1>23. CASE StartProwlarr
  BY <1>23, GotoRecords, SameWorld, Either, SeenAgain
     DEF StartProwlarr, Restart, Start_processes
<1>24. CASE StartProducers
  BY <1>24, GotoRecords, SameWorld, Either, SeenAgain
     DEF StartProducers, Restart, Start_processes
<1>25. ASSUME NEW a \in Apps, UpdateArr(a) PROVE Bounded'
  BY <1>25, GotoRecords, SameWorld, Either, SeenAgain
     DEF UpdateArr, UpdateReferences, Apply_snapshot, Validate_snapshot,
         Validate_filesystem, Desired, Reachable
<1>26. ASSUME NEW a \in Apps, UpdateProwlarr(a) PROVE Bounded'
  BY <1>26, GotoRecords, SameWorld, Either, SeenAgain
     DEF UpdateProwlarr, UpdateReferences, Apply_snapshot, Validate_snapshot,
         Validate_filesystem, Desired, Reachable
<1>27. ASSUME NEW a \in Apps, UpdateMedia(a) PROVE Bounded'
  BY <1>27, GotoRecords, SameWorld, Either, SeenAgain
     DEF UpdateMedia, UpdateReferences, Apply_snapshot, Validate_snapshot,
         Validate_filesystem, Desired, Reachable
<1>28. CASE ReferencesDone("arr", Arrs)
  BY <1>28, GotoRecords, SameWorld, Either, SeenAgain DEF ReferencesDone, After
<1>29. CASE ReferencesDone("prowlarr", Prowlarrs)
  BY <1>29, GotoRecords, SameWorld, Either, SeenAgain DEF ReferencesDone, After
<1>30. CASE ReferencesDone("media", Media)
  BY <1>30, GotoRecords, SameWorld, Either, SeenAgain DEF ReferencesDone, After
<1>31. CASE RestoreScanGuards
  BY <1>31, GotoRecords, SameWorld, Either, SeenAgain DEF RestoreScanGuards
<1>32. CASE RestoreHealthChecks
  BY <1>32, GotoRecords, SameWorld, Either, SeenAgain DEF RestoreHealthChecks
<1>33. CASE Complete
  BY <1>33, GotoRecords, SameWorld, Either, SeenAgain DEF Complete, Typed, StateRecord
<1>34. CASE ReportDone
  BY <1>34, SameWorld, Either, SeenAgain, Ended, EndsMigrated DEF ReportDone, Record
<1>35. CASE Fault
  BY <1>35, GotoRecords, SameWorld, Either, SeenAgain DEF Fault
<1>36. CASE RollbackHealth
  BY <1>36, GotoRecords, SameWorld, Either, SeenAgain
     DEF RollbackHealth, Works, Fails, Raises
<1>37. CASE RollbackStop
  BY <1>37, GotoRecords, SameWorld, Either, SeenAgain DEF RollbackStop, Works, Fails, Raises
<1>38. CASE RollbackSymlinks
  BY <1>38, GotoRecords, SameWorld, Either, SeenAgain
     DEF RollbackSymlinks, Works, Fails, Raises
<1>39. CASE RollbackPaths
  BY <1>39, GotoRecords, SameWorld, Either, SeenAgain
     DEF RollbackPaths, Works, Fails, Raises
<1>40. CASE RollbackManifest
  BY <1>40, GotoRecords, SameWorld, Either, SeenAgain
     DEF RollbackManifest, Works, Fails, Raises
<1>41. CASE RollbackFiles
  BY <1>41, GotoRecords, SameWorld, Either, SeenAgain
     DEF RollbackFiles, Works, Fails, Raises
<1>42. CASE RollbackConfig
  BY <1>42, GotoRecords, SameWorld, Either, SeenAgain
     DEF RollbackConfig, Works, Fails, Raises
<1>43. CASE RollbackServices
  BY <1>43, GotoRecords, SameWorld, Either, SeenAgain
     DEF RollbackServices, Works, Fails, Raises, Start_processes
<1>44. CASE RollbackHealthAgain
  BY <1>44, GotoRecords, SameWorld, Either, SeenAgain
     DEF RollbackHealthAgain, Works, Fails, Raises
<1>45. CASE RollbackArr
  BY <1>45, GotoRecords, SameWorld, Either, SeenAgain DEF RollbackArr, RestoreReferences
<1>46. CASE RollbackProwlarr
  BY <1>46, GotoRecords, SameWorld, Either, SeenAgain
     DEF RollbackProwlarr, RestoreReferences
<1>47. CASE RollbackMedia
  BY <1>47, GotoRecords, SameWorld, Either, SeenAgain DEF RollbackMedia, RestoreReferences
<1>48. CASE RollbackScanGuards
  BY <1>48, GotoRecords, SameWorld, Either, SeenAgain
     DEF RollbackScanGuards, Works, Fails, Raises
<1>49. CASE RollbackSave
  BY <1>49, SameWorld, Either, SeenAgain, EndsOriginal
     DEF RollbackSave, Raises, Recorded, Cut, Typed, StateRecord, Dependable
<1>50. CASE Report
  BY <1>50, SameWorld, Either, SeenAgain, Ended DEF Report, Record, Dependable
<1>51. CASE PreflightCheck
  <2>1. pc \in Idle
    BY <1>51 DEF PreflightCheck, Recorded, Excluded, HasBlockingJob, Seen, Active
  <2> QED BY <1>51, <2>1, GotoRecords, SameWorld, Either, SeenAgain DEF PreflightCheck
<1>52. CASE PreflightRun
  BY <1>52, SameWorld, Either, SeenAgain DEF PreflightRun
<1>53. CASE Start_full_namespace_job
  BY <1>53, SameWorld, Either, SeenAgain
     DEF Start_full_namespace_job, Record, Unlocked, HasRecoveryPendingJob
<1>54. CASE Request_playback_stop
  BY <1>54, SameWorld, Either, SeenAgain DEF Request_playback_stop
<1>55. CASE RemindLoad
  BY <1>55, SameWorld, Either, SeenAgain DEF RemindLoad
<1>56. CASE RemindSave
  BY <1>56, SameWorld, Either, SeenAgain DEF RemindSave, Bundled, Typed, StateRecord
<1>57. CASE Apply_brand_cutover
  BY <1>57, SameWorld, Either, SeenAgain DEF Apply_brand_cutover
<1>58. CASE Cleanup
  BY <1>58, SameWorld, Either, SeenAgain
     DEF Cleanup, Cleanup_preview, Cleanup_plan, Cleanup_context, Load_job_readonly
<1>59. CASE CleanupSidecars
  BY <1>59, SameWorld, Either, SeenAgain
     DEF CleanupSidecars, Excluded, HasRecoveryPendingJob, Seen, Active
<1>60. CASE CleanupFinalize
  BY <1>60, SameWorld, Either, SeenAgain DEF CleanupFinalize, Excluded, Typed, StateRecord
<1>61. CASE Reserve
  <2>1. pc \in Idle
    BY <1>61 DEF Reserve, Recorded, Excluded, HasBlockingJob, Seen, Active
  <2> QED BY <1>61, <2>1, GotoRecords, SameWorld, Either, SeenAgain DEF Reserve
<1>62. CASE Release
  BY <1>62, SameWorld, Either, SeenAgain
     DEF Release, Excluded, HasBlockingJob, HasRecoveryPendingJob, RecoveryPending
<1>63. CASE Update
  BY <1>63, SameWorld, Either, SeenAgain DEF Update
<1>64. CASE Traffic
  BY <1>64, SameWorld, Either, SeenAgain DEF Traffic
<1>65. CASE Crash
  BY <1>65, SameWorld, Either, SeenAgain, Died DEF Crash, Recorded, Cut, Typed
<1>66. CASE Boot
  BY <1>66, SameWorld, Either, SeenAgain DEF Boot, HasRecoveryPendingJob
<1>67. CASE UNCHANGED vars
  BY <1>67, SameWorld, Either, SeenAgain DEF vars
<1> QED BY <1>1, <1>2, <1>3, <1>4, <1>5, <1>6, <1>7, <1>8, <1>9, <1>10, <1>11, <1>12, <1>13,
           <1>14, <1>15, <1>16, <1>17, <1>18, <1>19, <1>20, <1>21, <1>22, <1>23, <1>24,
           <1>25, <1>26, <1>27, <1>28, <1>29, <1>30, <1>31, <1>32, <1>33, <1>34, <1>35,
           <1>36, <1>37, <1>38, <1>39, <1>40, <1>41, <1>42, <1>43, <1>44, <1>45, <1>46,
           <1>47, <1>48, <1>49, <1>50, <1>51, <1>52, <1>53, <1>54, <1>55, <1>56, <1>57,
           <1>58, <1>59, <1>60, <1>61, <1>62, <1>63, <1>64, <1>65, <1>66, <1>67
           DEF Next, Worker, Early, Quiesce, Cutover, RollingBack, Operator

\* The bundle outlives what asks for it.
LEMMA BundledStep ==
  ASSUME Typed, Recorded, Excluded, Dependable, Cutting, Services, Undoing, Bounded, Bundled,
         [Next]_vars
  PROVE  Bundled'
<1> USE DEF Bundled, Recorded, Cut, Starting, Idle, PCs, ForwardPCs, RollbackPCs, EarlyPCs,
            world, place, traffic, disk, local, actors, aside, bounds
<1>1. CASE Acquire
  BY <1>1, GotoRecords, AtWork, SeenAgain, Ended DEF Acquire, Record, Active
<1>2. CASE Validate
  BY <1>2, GotoRecords, AtWork, SeenAgain DEF Validate
<1>3. CASE Recheck
  BY <1>3, GotoRecords, AtWork, SeenAgain DEF Recheck, Unlocked
<1>4. CASE Reload
  BY <1>4, GotoRecords, AtWork, SeenAgain DEF Reload
<1>5. CASE Backup
  BY <1>5, GotoRecords, AtWork, SeenAgain DEF Backup, Nothing_done_yet, Typed
<1>6. CASE Uncaught
  BY <1>6, AtWork, SeenAgain DEF Uncaught, Raises, Dependable
<1>7. CASE RecordGuard
  BY <1>7, GotoRecords, AtWork, SeenAgain DEF RecordGuard, Typed, BundleRecord
<1>8. CASE Pause
  BY <1>8, GotoRecords, AtWork, SeenAgain DEF Pause
<1>9. CASE StopProducers
  BY <1>9, GotoRecords, AtWork, SeenAgain DEF StopProducers, Stop_processes
<1>10. CASE Latch
  BY <1>10, GotoRecords, AtWork, SeenAgain DEF Latch, Stop_processes
<1>11. CASE OfferStop
  BY <1>11, AtWork, SeenAgain DEF OfferStop
<1>12. CASE Drained
  BY <1>12, GotoRecords, AtWork, SeenAgain DEF Drained
<1>13. CASE StopAll
  BY <1>13, GotoRecords, AtWork, SeenAgain DEF StopAll, Stop_processes
<1>14. ASSUME NEW a \in Arrs, ArrInventory(a) PROVE Bundled'
  BY <1>14, GotoRecords, AtWork, SeenAgain DEF ArrInventory
<1>15. ASSUME NEW m \in Media, CaptureMedia(m) PROVE Bundled'
  BY <1>15, GotoRecords, AtWork, SeenAgain DEF CaptureMedia, Stop_processes
<1>16. CASE QuiesceTimeout
  BY <1>16, GotoRecords, AtWork, SeenAgain DEF QuiesceTimeout
<1>17. CASE MovePath
  BY <1>17, AtWork, SeenAgain DEF MovePath
<1>18. CASE PathsMoved
  BY <1>18, GotoRecords, AtWork, SeenAgain DEF PathsMoved
<1>19. CASE SaveConfiguration
  BY <1>19, GotoRecords, AtWork, SeenAgain DEF SaveConfiguration
<1>20. CASE RewriteSymlinks
  BY <1>20, GotoRecords, AtWork, SeenAgain DEF RewriteSymlinks
<1>21. CASE Migrate_infinidysk_database
  BY <1>21, GotoRecords, AtWork, SeenAgain DEF Migrate_infinidysk_database
<1>22. CASE StartServices
  BY <1>22, GotoRecords, AtWork, SeenAgain DEF StartServices, Restart, Start_processes
<1>23. CASE StartProwlarr
  BY <1>23, GotoRecords, AtWork, SeenAgain DEF StartProwlarr, Restart, Start_processes
<1>24. CASE StartProducers
  BY <1>24, GotoRecords, AtWork, SeenAgain DEF StartProducers, Restart, Start_processes
<1>25. ASSUME NEW a \in Apps, UpdateArr(a) PROVE Bundled'
  BY <1>25, GotoRecords, AtWork, SeenAgain
     DEF UpdateArr, UpdateReferences, Apply_snapshot, Validate_snapshot,
         Validate_filesystem, Desired, Reachable
<1>26. ASSUME NEW a \in Apps, UpdateProwlarr(a) PROVE Bundled'
  BY <1>26, GotoRecords, AtWork, SeenAgain
     DEF UpdateProwlarr, UpdateReferences, Apply_snapshot, Validate_snapshot,
         Validate_filesystem, Desired, Reachable
<1>27. ASSUME NEW a \in Apps, UpdateMedia(a) PROVE Bundled'
  BY <1>27, GotoRecords, AtWork, SeenAgain
     DEF UpdateMedia, UpdateReferences, Apply_snapshot, Validate_snapshot,
         Validate_filesystem, Desired, Reachable
<1>28. CASE ReferencesDone("arr", Arrs)
  BY <1>28, GotoRecords, AtWork, SeenAgain DEF ReferencesDone, After
<1>29. CASE ReferencesDone("prowlarr", Prowlarrs)
  BY <1>29, GotoRecords, AtWork, SeenAgain DEF ReferencesDone, After
<1>30. CASE ReferencesDone("media", Media)
  BY <1>30, GotoRecords, AtWork, SeenAgain DEF ReferencesDone, After
<1>31. CASE RestoreScanGuards
  BY <1>31, GotoRecords, AtWork, SeenAgain DEF RestoreScanGuards
<1>32. CASE RestoreHealthChecks
  BY <1>32, GotoRecords, AtWork, SeenAgain DEF RestoreHealthChecks
<1>33. CASE Complete
  BY <1>33, GotoRecords, AtWork, SeenAgain DEF Complete
<1>34. CASE ReportDone
  BY <1>34, AtWork, SeenAgain, Ended DEF ReportDone, Record, Active
<1>35. CASE Fault
  BY <1>35, GotoRecords, AtWork, SeenAgain DEF Fault
<1>36. CASE RollbackHealth
  BY <1>36, GotoRecords, AtWork, SeenAgain DEF RollbackHealth, Works, Fails, Raises
<1>37. CASE RollbackStop
  BY <1>37, GotoRecords, AtWork, SeenAgain DEF RollbackStop, Works, Fails, Raises
<1>38. CASE RollbackSymlinks
  BY <1>38, GotoRecords, AtWork, SeenAgain DEF RollbackSymlinks, Works, Fails, Raises
<1>39. CASE RollbackPaths
  BY <1>39, GotoRecords, AtWork, SeenAgain DEF RollbackPaths, Works, Fails, Raises
<1>40. CASE RollbackManifest
  BY <1>40, GotoRecords, AtWork, SeenAgain DEF RollbackManifest, Works, Fails, Raises
<1>41. CASE RollbackFiles
  BY <1>41, GotoRecords, AtWork, SeenAgain DEF RollbackFiles, Works, Fails, Raises
<1>42. CASE RollbackConfig
  BY <1>42, GotoRecords, AtWork, SeenAgain DEF RollbackConfig, Works, Fails, Raises
<1>43. CASE RollbackServices
  BY <1>43, GotoRecords, AtWork, SeenAgain
     DEF RollbackServices, Works, Fails, Raises, Start_processes
<1>44. CASE RollbackHealthAgain
  BY <1>44, GotoRecords, AtWork, SeenAgain DEF RollbackHealthAgain, Works, Fails, Raises
<1>45. CASE RollbackArr
  BY <1>45, GotoRecords, AtWork, SeenAgain DEF RollbackArr, RestoreReferences
<1>46. CASE RollbackProwlarr
  BY <1>46, GotoRecords, AtWork, SeenAgain DEF RollbackProwlarr, RestoreReferences
<1>47. CASE RollbackMedia
  BY <1>47, GotoRecords, AtWork, SeenAgain DEF RollbackMedia, RestoreReferences
<1>48. CASE RollbackScanGuards
  BY <1>48, GotoRecords, AtWork, SeenAgain DEF RollbackScanGuards, Works, Fails, Raises
<1>49. CASE RollbackSave
  BY <1>49, AtWork, SeenAgain DEF RollbackSave, Raises, Undoing, Typed, StateRecord, Active
<1>50. CASE Report
  BY <1>50, AtWork, SeenAgain, Ended DEF Report, Record, Dependable, Active
<1>51. CASE PreflightCheck
  <2>1. pc \in Idle
    BY <1>51 DEF PreflightCheck, Excluded, HasBlockingJob, Seen, Active
  <2> QED BY <1>51, <2>1, GotoRecords, AtWork, SeenAgain DEF PreflightCheck
<1>52. CASE PreflightRun
  BY <1>52, AtWork, SeenAgain DEF PreflightRun
<1>53. CASE Start_full_namespace_job
  <2>1. ~HasRecoveryPendingJob
    BY <1>53 DEF Start_full_namespace_job, HasRecoveryPendingJob
  <2>2. job'.mine /\ job'.status \in Active /\ job'.stage \in PreMutationStages
    BY <1>53 DEF Start_full_namespace_job, Record, Active, PreMutationStages
  <2> QED BY <1>53, <2>1, <2>2, AtWork DEF Start_full_namespace_job, Unlocked
<1>54. CASE Request_playback_stop
  BY <1>54, AtWork, SeenAgain DEF Request_playback_stop
<1>55. CASE RemindLoad
  BY <1>55, AtWork, SeenAgain DEF RemindLoad, Dependable
<1>56. CASE RemindSave
  BY <1>56, AtWork, SeenAgain DEF RemindSave, Typed, StateRecord
<1>57. CASE Apply_brand_cutover
  BY <1>57, AtWork, SeenAgain DEF Apply_brand_cutover
<1>58. CASE Cleanup
  BY <1>58, AtWork, SeenAgain
     DEF Cleanup, Cleanup_preview, Cleanup_plan, Cleanup_context, Load_job_readonly,
         HasRecoveryPendingJob, Seen, Active
<1>59. CASE CleanupSidecars
  BY <1>59, AtWork, SeenAgain
     DEF CleanupSidecars, Excluded, HasRecoveryPendingJob, Seen, Active, NoJob
<1>60. CASE CleanupFinalize
  BY <1>60, AtWork, SeenAgain
     DEF CleanupFinalize, Excluded, HasRecoveryPendingJob, Seen, Active, Typed, StateRecord
<1>61. CASE Reserve
  <2>1. pc \in Idle
    BY <1>61 DEF Reserve, Excluded, HasBlockingJob, Seen, Active
  <2> QED BY <1>61, <2>1, GotoRecords, AtWork, SeenAgain DEF Reserve, HasBlockingJob
<1>62. CASE Release
  BY <1>62, AtWork, SeenAgain DEF Release
<1>63. CASE Update
  BY <1>63, AtWork, SeenAgain DEF Update
<1>64. CASE Traffic
  BY <1>64, AtWork, SeenAgain DEF Traffic
<1>65. CASE Crash
  BY <1>65, AtWork, SeenAgain, Died DEF Crash, Typed, JobRecord
<1>66. CASE Boot
  <2>1. job'.status \notin Active
    BY <1>66 DEF Boot, Seen, Active
  <2> QED BY <1>66, <2>1, SeenAgain DEF Boot, HasRecoveryPendingJob
<1>67. CASE UNCHANGED vars
  <2>1. UNCHANGED <<pc, job, state, backup, saved, upc, seen>> BY <1>67 DEF vars
  <2> QED BY <2>1, SeenAgain
<1> QED BY <1>1, <1>2, <1>3, <1>4, <1>5, <1>6, <1>7, <1>8, <1>9, <1>10, <1>11, <1>12, <1>13,
           <1>14, <1>15, <1>16, <1>17, <1>18, <1>19, <1>20, <1>21, <1>22, <1>23, <1>24,
           <1>25, <1>26, <1>27, <1>28, <1>29, <1>30, <1>31, <1>32, <1>33, <1>34, <1>35,
           <1>36, <1>37, <1>38, <1>39, <1>40, <1>41, <1>42, <1>43, <1>44, <1>45, <1>46,
           <1>47, <1>48, <1>49, <1>50, <1>51, <1>52, <1>53, <1>54, <1>55, <1>56, <1>57,
           <1>58, <1>59, <1>60, <1>61, <1>62, <1>63, <1>64, <1>65, <1>66, <1>67
           DEF Next, Worker, Early, Quiesce, Cutover, RollingBack, Operator

\* The setting is recorded before it is changed.
LEMMA PauseStep ==
  ASSUME Typed, Recorded, Excluded, Dependable, Cutting, Services, Undoing, Bounded, Bundled,
         PauseIsRecorded, [Next]_vars
  PROVE  PauseIsRecorded'
<1> USE DEF PauseIsRecorded, world, place, traffic, disk, local, actors, aside, bounds
<1>1. CASE Acquire
  BY <1>1, GotoRecords DEF Acquire
<1>2. CASE Validate
  BY <1>2, GotoRecords DEF Validate
<1>3. CASE Recheck
  BY <1>3, GotoRecords DEF Recheck, Unlocked
<1>4. CASE Reload
  BY <1>4, GotoRecords DEF Reload
<1>5. CASE Backup
  BY <1>5, GotoRecords DEF Backup, Nothing_done_yet, Bounded, Original
<1>6. CASE Uncaught
  BY <1>6 DEF Uncaught, Raises
<1>7. CASE RecordGuard
  BY <1>7, GotoRecords DEF RecordGuard, Typed, BundleRecord
<1>8. CASE Pause
  BY <1>8, GotoRecords DEF Pause, Bundled
<1>9. CASE StopProducers
  BY <1>9, GotoRecords DEF StopProducers, Stop_processes
<1>10. CASE Latch
  BY <1>10, GotoRecords DEF Latch, Stop_processes
<1>11. CASE OfferStop
  BY <1>11 DEF OfferStop
<1>12. CASE Drained
  BY <1>12, GotoRecords DEF Drained
<1>13. CASE StopAll
  BY <1>13, GotoRecords DEF StopAll, Stop_processes, Typed, BundleRecord
<1>14. ASSUME NEW a \in Arrs, ArrInventory(a) PROVE PauseIsRecorded'
  BY <1>14, GotoRecords DEF ArrInventory
<1>15. ASSUME NEW m \in Media, CaptureMedia(m) PROVE PauseIsRecorded'
  BY <1>15, GotoRecords DEF CaptureMedia, Stop_processes
<1>16. CASE QuiesceTimeout
  BY <1>16, GotoRecords DEF QuiesceTimeout
<1>17. CASE MovePath
  BY <1>17 DEF MovePath
<1>18. CASE PathsMoved
  BY <1>18, GotoRecords DEF PathsMoved
<1>19. CASE SaveConfiguration
  BY <1>19, GotoRecords DEF SaveConfiguration
<1>20. CASE RewriteSymlinks
  BY <1>20, GotoRecords DEF RewriteSymlinks
<1>21. CASE Migrate_infinidysk_database
  BY <1>21, GotoRecords DEF Migrate_infinidysk_database
<1>22. CASE StartServices
  BY <1>22, GotoRecords DEF StartServices, Restart, Start_processes
<1>23. CASE StartProwlarr
  BY <1>23, GotoRecords DEF StartProwlarr, Restart, Start_processes
<1>24. CASE StartProducers
  BY <1>24, GotoRecords DEF StartProducers, Restart, Start_processes
<1>25. ASSUME NEW a \in Apps, UpdateArr(a) PROVE PauseIsRecorded'
  BY <1>25, GotoRecords
     DEF UpdateArr, UpdateReferences, Apply_snapshot, Validate_snapshot,
         Validate_filesystem, Desired, Reachable
<1>26. ASSUME NEW a \in Apps, UpdateProwlarr(a) PROVE PauseIsRecorded'
  BY <1>26, GotoRecords
     DEF UpdateProwlarr, UpdateReferences, Apply_snapshot, Validate_snapshot,
         Validate_filesystem, Desired, Reachable
<1>27. ASSUME NEW a \in Apps, UpdateMedia(a) PROVE PauseIsRecorded'
  BY <1>27, GotoRecords
     DEF UpdateMedia, UpdateReferences, Apply_snapshot, Validate_snapshot,
         Validate_filesystem, Desired, Reachable
<1>28. CASE ReferencesDone("arr", Arrs)
  BY <1>28, GotoRecords DEF ReferencesDone, After
<1>29. CASE ReferencesDone("prowlarr", Prowlarrs)
  BY <1>29, GotoRecords DEF ReferencesDone, After
<1>30. CASE ReferencesDone("media", Media)
  BY <1>30, GotoRecords DEF ReferencesDone, After
<1>31. CASE RestoreScanGuards
  BY <1>31, GotoRecords DEF RestoreScanGuards
<1>32. CASE RestoreHealthChecks
  BY <1>32, GotoRecords DEF RestoreHealthChecks
<1>33. CASE Complete
  BY <1>33, GotoRecords DEF Complete
<1>34. CASE ReportDone
  BY <1>34 DEF ReportDone, Record
<1>35. CASE Fault
  BY <1>35, GotoRecords, FaultUndone DEF Fault, Cutting, Bundled, Cut
<1>36. CASE RollbackHealth
  BY <1>36, GotoRecords DEF RollbackHealth, Works, Fails, Raises
<1>37. CASE RollbackStop
  BY <1>37, GotoRecords DEF RollbackStop, Works, Fails, Raises
<1>38. CASE RollbackSymlinks
  BY <1>38, GotoRecords DEF RollbackSymlinks, Works, Fails, Raises
<1>39. CASE RollbackPaths
  BY <1>39, GotoRecords DEF RollbackPaths, Works, Fails, Raises
<1>40. CASE RollbackManifest
  BY <1>40, GotoRecords DEF RollbackManifest, Works, Fails, Raises
<1>41. CASE RollbackFiles
  BY <1>41, GotoRecords DEF RollbackFiles, Works, Fails, Raises
<1>42. CASE RollbackConfig
  BY <1>42, GotoRecords DEF RollbackConfig, Works, Fails, Raises
<1>43. CASE RollbackServices
  BY <1>43, GotoRecords DEF RollbackServices, Works, Fails, Raises, Start_processes
<1>44. CASE RollbackHealthAgain
  BY <1>44, GotoRecords DEF RollbackHealthAgain, Works, Fails, Raises
<1>45. CASE RollbackArr
  BY <1>45, GotoRecords DEF RollbackArr, RestoreReferences
<1>46. CASE RollbackProwlarr
  BY <1>46, GotoRecords DEF RollbackProwlarr, RestoreReferences
<1>47. CASE RollbackMedia
  BY <1>47, GotoRecords DEF RollbackMedia, RestoreReferences
<1>48. CASE RollbackScanGuards
  BY <1>48, GotoRecords DEF RollbackScanGuards, Works, Fails, Raises
<1>49. CASE RollbackSave
  BY <1>49 DEF RollbackSave, Raises
<1>50. CASE Report
  BY <1>50 DEF Report, Record
<1>51. CASE PreflightCheck
  BY <1>51 DEF PreflightCheck
<1>52. CASE PreflightRun
  BY <1>52 DEF PreflightRun
<1>53. CASE Start_full_namespace_job
  BY <1>53 DEF Start_full_namespace_job, Record, Unlocked
<1>54. CASE Request_playback_stop
  BY <1>54 DEF Request_playback_stop
<1>55. CASE RemindLoad
  BY <1>55 DEF RemindLoad
<1>56. CASE RemindSave
  BY <1>56 DEF RemindSave
<1>57. CASE Apply_brand_cutover
  BY <1>57 DEF Apply_brand_cutover
<1>58. CASE Cleanup
  BY <1>58 DEF Cleanup, Cleanup_preview, Cleanup_plan, Cleanup_context, Load_job_readonly
<1>59. CASE CleanupSidecars
  BY <1>59 DEF CleanupSidecars
<1>60. CASE CleanupFinalize
  BY <1>60 DEF CleanupFinalize
<1>61. CASE Reserve
  BY <1>61 DEF Reserve
<1>62. CASE Release
  BY <1>62 DEF Release
<1>63. CASE Update
  BY <1>63 DEF Update
<1>64. CASE Traffic
  BY <1>64 DEF Traffic
<1>65. CASE Crash
  BY <1>65 DEF Crash
<1>66. CASE Boot
  BY <1>66 DEF Boot
<1>67. CASE UNCHANGED vars
  BY <1>67 DEF vars
<1> QED BY <1>1, <1>2, <1>3, <1>4, <1>5, <1>6, <1>7, <1>8, <1>9, <1>10, <1>11, <1>12, <1>13,
           <1>14, <1>15, <1>16, <1>17, <1>18, <1>19, <1>20, <1>21, <1>22, <1>23, <1>24,
           <1>25, <1>26, <1>27, <1>28, <1>29, <1>30, <1>31, <1>32, <1>33, <1>34, <1>35,
           <1>36, <1>37, <1>38, <1>39, <1>40, <1>41, <1>42, <1>43, <1>44, <1>45, <1>46,
           <1>47, <1>48, <1>49, <1>50, <1>51, <1>52, <1>53, <1>54, <1>55, <1>56, <1>57,
           <1>58, <1>59, <1>60, <1>61, <1>62, <1>63, <1>64, <1>65, <1>66, <1>67
           DEF Next, Worker, Early, Quiesce, Cutover, RollingBack, Operator

-----------------------------------------------------------------------------
(* The invariant.                                                            *)

\* It holds at first.
LEMMA InitSafe == ASSUME Init PROVE Typed /\ Recorded /\ Excluded /\ Quiet
<1>1. /\ job \in JobRecord /\ state \in StateRecord /\ pre \in PreflightRecord
      /\ saved \in BundleRecord /\ job.status = "none"
  BY NoJobIs, PreflightIs, SavedIs
     DEF Init, StateRecord, NoJob, PreflightRecord, NoPreflight
<1>2. Typed
  BY <1>1 DEF Init, Typed, Managed, PCs, Producers
<1>3. Recorded /\ Excluded /\ Quiet
  BY DEF Init, Recorded, Excluded, Quiet, Idle, Starting, Cut, EarlyPCs, ForwardPCs, RollbackPCs
<1> QED BY <1>2, <1>3

LEMMA InitHolds == ASSUME Init PROVE IndInv
<1>1. ~HasRecoveryPendingJob /\ job.status \notin Active
  BY DEF Init, NoJob, HasRecoveryPendingJob, Seen, Active
<1>2. Original BY DEF Init, Original, Apps
<1>3. Cutting /\ Services /\ Undoing
  BY DEF Init, Cutting, Services, Undoing, Cut, ForwardPCs, RollbackPCs
<1>4. Bounded
  BY <1>1, <1>2 DEF Init, Bounded, Unsafe, Starting, Idle, EarlyPCs
<1>5. Bundled /\ PauseIsRecorded
  BY <1>1 DEF Init, Bundled, Idle, PauseIsRecorded
<1> QED BY InitSafe, <1>3, <1>4, <1>5 DEF IndInv

\* Without any assumption on the faults.
LEMMA SafeInvariance == Spec => [](Typed /\ Recorded /\ Excluded /\ Quiet)
<1>1. Init => Typed /\ Recorded /\ Excluded /\ Quiet BY InitSafe
<1>2. Typed /\ Recorded /\ Excluded /\ Quiet /\ [Next]_vars
        => (Typed /\ Recorded /\ Excluded /\ Quiet)'
  BY TypedStep, RecordedStep, ExcludedStep, QuietStep
<1> QED BY <1>1, <1>2, PTL DEF Spec

\* With faults that leave the records dependable.
LEMMA Invariance == ASSUME Dependable PROVE Spec => []IndInv
<1>1. Init => IndInv BY InitHolds
<1>2. IndInv /\ [Next]_vars => IndInv'
  <2> SUFFICES ASSUME IndInv, [Next]_vars PROVE IndInv' OBVIOUS
  <2>1. /\ Typed /\ Recorded /\ Excluded /\ Cutting /\ Services /\ Quiet /\ Undoing
        /\ Bounded /\ Bundled /\ PauseIsRecorded
    BY DEF IndInv
  <2>2. Typed' /\ Recorded' /\ Excluded' BY <2>1, TypedStep, RecordedStep, ExcludedStep
  <2>3. Cutting' /\ Services' BY <2>1, CuttingStep, ServicesStep
  <2>4. Quiet' /\ Undoing' BY <2>1, QuietStep, UndoingStep
  <2>5. Bounded' /\ Bundled' /\ PauseIsRecorded'
    BY <2>1, BoundedStep, BundledStep, PauseStep
  <2> QED BY <2>2, <2>3, <2>4, <2>5 DEF IndInv
<1> QED BY <1>1, <1>2, PTL DEF Spec

-----------------------------------------------------------------------------
(* What follows.                                                             *)

\* Every variable keeps its type.
THEOREM NamespaceTypeCorrect == Spec => []TypeOK
<1>1. Typed => TypeOK
  <2> SUFFICES ASSUME Typed PROVE TypeOK OBVIOUS
  <2>1. job.status \in Statuses BY DEF Typed, JobRecord
  <2>2. /\ state.status \in {"pending", "snoozed", "completed", "failed_rolled_back",
                               "rollback_attention_required"}
        /\ state.mode \in {"none", "retain", "full"} /\ state.final \in BOOLEAN
    BY DEF Typed, StateRecord
  <2>3. pre.blocked \in BOOLEAN /\ pre.stale \in BOOLEAN /\ pre.late \in BOOLEAN
    BY DEF Typed, PreflightRecord
  <2>4. saved.health \in BOOLEAN /\ saved.scan \subseteq Media BY DEF Typed, BundleRecord
  <2> QED BY <2>1, <2>2, <2>3, <2>4 DEF Typed, TypeOK, Statuses
<1> QED BY <1>1, SafeInvariance, PTL

\* No reserved change overlaps the worker, whatever fails.
THEOREM NamespaceMutationsExclude == Spec => []MutationsExclude
<1>1. Excluded => MutationsExclude
  BY DEF Excluded, MutationsExclude, HasBlockingJob, Seen, Active, RecoveryPending
<1> QED BY <1>1, SafeInvariance, PTL

\* An installation that is between the two namespaces waits for recovery.
THEOREM NamespaceUnsafeIsFrozen == ASSUME Dependable PROVE Spec => []UnsafeIsFrozen
<1>1. IndInv => UnsafeIsFrozen
  BY DEF IndInv, Bounded, UnsafeIsFrozen, Unsafe, Idle
<1> QED BY <1>1, Invariance, PTL

\* Recovery has its bundle.
THEOREM NamespaceRecoveryHasBundle == ASSUME Dependable PROVE Spec => []RecoveryHasBundle
<1>1. IndInv => RecoveryHasBundle
  <2> SUFFICES ASSUME IndInv PROVE RecoveryHasBundle OBVIOUS
  <2>1. HasRecoveryPendingJob => backup BY DEF IndInv, Bundled
  <2>2. ASSUME Unsafe PROVE backup
    <3>1. CASE pc \in Idle BY <2>1, <2>2, <3>1 DEF IndInv, Bounded
    <3>2. CASE pc \in Starting BY <2>2, <3>2 DEF IndInv, Bounded
    <3>3. CASE pc = "report" BY <2>2, <3>3 DEF IndInv, Bounded, Bundled, Idle
    <3>4. CASE pc \in Cut BY <3>4 DEF IndInv, Cutting
    <3>5. CASE pc \in RollbackPCs BY <3>5 DEF IndInv, Undoing
    <3> QED BY <3>1, <3>2, <3>3, <3>4, <3>5 DEF IndInv, Typed, PCs, Idle, Starting, Cut
  <2> QED BY <2>1, <2>2 DEF RecoveryHasBundle, Unsafe
<1> QED BY <1>1, Invariance, PTL

\* A changed setting of the health checks is on record.
THEOREM NamespacePauseIsRecorded == ASSUME Dependable PROVE Spec => []PauseIsRecorded
<1>1. IndInv => PauseIsRecorded BY DEF IndInv
<1> QED BY <1>1, Invariance, PTL

\* Paths are moved under a stopped and guarded installation, whatever fails.
THEOREM NamespaceCutoverIsQuiet == Spec => CutoverIsQuiet
<1>1. Typed /\ Quiet
        => [pc = "filesystem" /\ at' # at /\ pc' = pc
              => up = {} /\ queued = {} /\ guards = Media]_vars
  BY DEF Typed, Quiet
<1> QED BY <1>1, SafeInvariance, PTL DEF CutoverIsQuiet

\* Only its report ends a worker that has got as far as reporting.
LEMMA OnlyReportEnds ==
  ASSUME Typed, [Next]_vars, pc = "report", pc' = "idle"
  PROVE  Report
<1> USE DEF EarlyPCs, ForwardPCs, RollbackPCs, PCs, world, place, traffic, disk, local, actors,
            aside, bounds
<1>1. CASE Acquire
  BY <1>1, GotoRecords DEF Acquire
<1>2. CASE Validate
  BY <1>2, GotoRecords DEF Validate
<1>3. CASE Recheck
  BY <1>3, GotoRecords DEF Recheck, Unlocked
<1>4. CASE Reload
  BY <1>4, GotoRecords DEF Reload
<1>5. CASE Backup
  BY <1>5, GotoRecords DEF Backup, Nothing_done_yet
<1>6. CASE Uncaught
  BY <1>6 DEF Uncaught, Raises
<1>7. CASE RecordGuard
  BY <1>7, GotoRecords DEF RecordGuard
<1>8. CASE Pause
  BY <1>8, GotoRecords DEF Pause
<1>9. CASE StopProducers
  BY <1>9, GotoRecords DEF StopProducers, Stop_processes
<1>10. CASE Latch
  BY <1>10, GotoRecords DEF Latch, Stop_processes
<1>11. CASE OfferStop
  BY <1>11 DEF OfferStop
<1>12. CASE Drained
  BY <1>12, GotoRecords DEF Drained
<1>13. CASE StopAll
  BY <1>13, GotoRecords DEF StopAll, Stop_processes
<1>14. ASSUME NEW a \in Arrs, ArrInventory(a) PROVE Report
  BY <1>14, GotoRecords DEF ArrInventory
<1>15. ASSUME NEW m \in Media, CaptureMedia(m) PROVE Report
  BY <1>15, GotoRecords DEF CaptureMedia, Stop_processes
<1>16. CASE QuiesceTimeout
  BY <1>16, GotoRecords DEF QuiesceTimeout
<1>17. CASE MovePath
  BY <1>17 DEF MovePath
<1>18. CASE PathsMoved
  BY <1>18, GotoRecords DEF PathsMoved
<1>19. CASE SaveConfiguration
  BY <1>19, GotoRecords DEF SaveConfiguration
<1>20. CASE RewriteSymlinks
  BY <1>20, GotoRecords DEF RewriteSymlinks
<1>21. CASE Migrate_infinidysk_database
  BY <1>21, GotoRecords DEF Migrate_infinidysk_database
<1>22. CASE StartServices
  BY <1>22, GotoRecords DEF StartServices, Restart, Start_processes
<1>23. CASE StartProwlarr
  BY <1>23, GotoRecords DEF StartProwlarr, Restart, Start_processes
<1>24. CASE StartProducers
  BY <1>24, GotoRecords DEF StartProducers, Restart, Start_processes
<1>25. ASSUME NEW a \in Apps, UpdateArr(a) PROVE Report
  BY <1>25, GotoRecords
     DEF UpdateArr, UpdateReferences, Apply_snapshot, Validate_snapshot,
         Validate_filesystem, Desired, Reachable
<1>26. ASSUME NEW a \in Apps, UpdateProwlarr(a) PROVE Report
  BY <1>26, GotoRecords
     DEF UpdateProwlarr, UpdateReferences, Apply_snapshot, Validate_snapshot,
         Validate_filesystem, Desired, Reachable
<1>27. ASSUME NEW a \in Apps, UpdateMedia(a) PROVE Report
  BY <1>27, GotoRecords
     DEF UpdateMedia, UpdateReferences, Apply_snapshot, Validate_snapshot,
         Validate_filesystem, Desired, Reachable
<1>28. CASE ReferencesDone("arr", Arrs)
  BY <1>28, GotoRecords DEF ReferencesDone, After
<1>29. CASE ReferencesDone("prowlarr", Prowlarrs)
  BY <1>29, GotoRecords DEF ReferencesDone, After
<1>30. CASE ReferencesDone("media", Media)
  BY <1>30, GotoRecords DEF ReferencesDone, After
<1>31. CASE RestoreScanGuards
  BY <1>31, GotoRecords DEF RestoreScanGuards
<1>32. CASE RestoreHealthChecks
  BY <1>32, GotoRecords DEF RestoreHealthChecks
<1>33. CASE Complete
  BY <1>33, GotoRecords DEF Complete
<1>34. CASE ReportDone
  BY <1>34 DEF ReportDone, Record
<1>35. CASE Fault
  BY <1>35, GotoRecords DEF Fault
<1>36. CASE RollbackHealth
  BY <1>36, GotoRecords DEF RollbackHealth, Works, Fails, Raises
<1>37. CASE RollbackStop
  BY <1>37, GotoRecords DEF RollbackStop, Works, Fails, Raises
<1>38. CASE RollbackSymlinks
  BY <1>38, GotoRecords DEF RollbackSymlinks, Works, Fails, Raises
<1>39. CASE RollbackPaths
  BY <1>39, GotoRecords DEF RollbackPaths, Works, Fails, Raises
<1>40. CASE RollbackManifest
  BY <1>40, GotoRecords DEF RollbackManifest, Works, Fails, Raises
<1>41. CASE RollbackFiles
  BY <1>41, GotoRecords DEF RollbackFiles, Works, Fails, Raises
<1>42. CASE RollbackConfig
  BY <1>42, GotoRecords DEF RollbackConfig, Works, Fails, Raises
<1>43. CASE RollbackServices
  BY <1>43, GotoRecords DEF RollbackServices, Works, Fails, Raises, Start_processes
<1>44. CASE RollbackHealthAgain
  BY <1>44, GotoRecords DEF RollbackHealthAgain, Works, Fails, Raises
<1>45. CASE RollbackArr
  BY <1>45, GotoRecords DEF RollbackArr, Works, Fails, Raises, RestoreReferences, Reachable
<1>46. CASE RollbackProwlarr
  BY <1>46, GotoRecords
     DEF RollbackProwlarr, Works, Fails, Raises, RestoreReferences, Reachable
<1>47. CASE RollbackMedia
  BY <1>47, GotoRecords
     DEF RollbackMedia, Works, Fails, Raises, RestoreReferences, Reachable
<1>48. CASE RollbackScanGuards
  BY <1>48, GotoRecords DEF RollbackScanGuards, Works, Fails, Raises
<1>49. CASE RollbackSave
  BY <1>49 DEF RollbackSave, Raises
<1>50. CASE Report
  BY <1>50 DEF Report, Record
<1>51. CASE PreflightCheck
  BY <1>51 DEF PreflightCheck
<1>52. CASE PreflightRun
  BY <1>52 DEF PreflightRun
<1>53. CASE Start_full_namespace_job
  BY <1>53 DEF Start_full_namespace_job, Record, Unlocked
<1>54. CASE Request_playback_stop
  BY <1>54 DEF Request_playback_stop
<1>55. CASE RemindLoad
  BY <1>55 DEF RemindLoad
<1>56. CASE RemindSave
  BY <1>56 DEF RemindSave
<1>57. CASE Apply_brand_cutover
  BY <1>57 DEF Apply_brand_cutover
<1>58. CASE Cleanup
  BY <1>58 DEF Cleanup, Cleanup_preview, Cleanup_plan, Cleanup_context, Load_job_readonly
<1>59. CASE CleanupSidecars
  BY <1>59 DEF CleanupSidecars
<1>60. CASE CleanupFinalize
  BY <1>60 DEF CleanupFinalize
<1>61. CASE Reserve
  BY <1>61 DEF Reserve
<1>62. CASE Release
  BY <1>62 DEF Release
<1>63. CASE Update
  BY <1>63 DEF Update
<1>64. CASE Traffic
  BY <1>64 DEF Traffic
<1>65. CASE Crash
  BY <1>65 DEF Crash
<1>66. CASE Boot
  BY <1>66 DEF Boot
<1>67. CASE UNCHANGED vars
  BY <1>67 DEF vars
<1> QED BY <1>1, <1>2, <1>3, <1>4, <1>5, <1>6, <1>7, <1>8, <1>9, <1>10, <1>11, <1>12, <1>13,
           <1>14, <1>15, <1>16, <1>17, <1>18, <1>19, <1>20, <1>21, <1>22, <1>23, <1>24,
           <1>25, <1>26, <1>27, <1>28, <1>29, <1>30, <1>31, <1>32, <1>33, <1>34, <1>35,
           <1>36, <1>37, <1>38, <1>39, <1>40, <1>41, <1>42, <1>43, <1>44, <1>45, <1>46,
           <1>47, <1>48, <1>49, <1>50, <1>51, <1>52, <1>53, <1>54, <1>55, <1>56, <1>57,
           <1>58, <1>59, <1>60, <1>61, <1>62, <1>63, <1>64, <1>65, <1>66, <1>67
           DEF Next, Worker, Early, Quiesce, Cutover, RollingBack, Operator

\* A rollback is reported as clean by a worker that has put everything back, where a
\* service that was stopped can be started again.
THEOREM NamespaceCleanRollbackRestores ==
  ASSUME Dependable, Restartable PROVE Spec => CleanRollbackRestores
<1>1. IndInv /\ [Next]_vars
        => [pc = "report" /\ pc' = "idle" /\ job'.status = "failed_rolled_back"
              => Original /\ up = up0]_vars
  <2> SUFFICES ASSUME IndInv, [Next]_vars, pc = "report", pc' = "idle",
                      job'.status = "failed_rolled_back"
               PROVE  Original /\ up = up0
    OBVIOUS
  <2>1. Report BY OnlyReportEnds DEF IndInv
  <2>2. state.status = "failed_rolled_back"
    BY <2>1 DEF Report, Record, Dependable
  <2> QED BY <2>2 DEF IndInv, Bounded
<1> QED BY <1>1, Invariance, PTL DEF Spec, CleanRollbackRestores

\* A completed migration has moved everything and restarted what it stopped.
THEOREM NamespaceCompletionIsWhole == ASSUME Dependable PROVE Spec => CompletionIsWhole
<1>1. IndInv => [pc = "report_done" /\ job'.status = "completed" => Migrated /\ up = up0]_vars
  BY EndsMigrated DEF IndInv
<1> QED BY <1>1, Invariance, PTL DEF CompletionIsWhole

-----------------------------------------------------------------------------
(* The job uses the migration admission as it is meant to be used.           *)

\* The worker's steps leave the reservations of others alone.
LEMMA WorkerReservesNothing == ASSUME Worker PROVE UNCHANGED ext
<1> USE DEF actors
<1>1. CASE Early BY <1>1 DEF Early, Acquire, Validate, Recheck, Reload, Backup, Uncaught
<1>2. CASE Quiesce
  BY <1>2 DEF Quiesce, RecordGuard, Pause, StopProducers, Latch, OfferStop, Drained, StopAll,
     ArrInventory, CaptureMedia, QuiesceTimeout
<1>3. CASE Cutover
  BY <1>3 DEF Cutover, MovePath, PathsMoved, SaveConfiguration, RewriteSymlinks,
     Migrate_infinidysk_database, StartServices, StartProwlarr, StartProducers, Restart,
     UpdateArr, UpdateProwlarr, UpdateMedia, UpdateReferences, ReferencesDone,
     RestoreScanGuards, RestoreHealthChecks, Complete, ReportDone
<1>4. CASE RollingBack
  BY <1>4 DEF RollingBack, Fault, RollbackHealth, RollbackStop, RollbackSymlinks,
     RollbackPaths, RollbackManifest, RollbackFiles, RollbackConfig, RollbackServices,
     RollbackHealthAgain, RollbackArr, RollbackProwlarr, RollbackMedia, RollbackScanGuards,
     RollbackSave, Report, RestoreReferences
<1> QED BY <1>1, <1>2, <1>3, <1>4 DEF Worker

\* A reservation comes, goes or dies with the process.
LEMMA ReservationsChange ==
  ASSUME [Next]_vars, ext' # ext
  PROVE  Reserve \/ Release \/ Crash
<1> USE DEF actors
<1>1. CASE Operator
  BY <1>1 DEF Operator, PreflightCheck, PreflightRun, Start_full_namespace_job,
     Request_playback_stop, RemindLoad, RemindSave, Apply_brand_cutover, Cleanup,
     CleanupSidecars, CleanupFinalize
<1>2. CASE Update \/ Traffic \/ Boot BY <1>2 DEF Update, Traffic, Boot
<1>3. CASE UNCHANGED vars BY <1>3 DEF vars
<1> QED BY <1>1, <1>2, <1>3, WorkerReservesNothing DEF Next

\* What the admission sees: whether a job blocks, and whether there is a reservation.
Blocked == HasBlockingJob \/ pc \notin {"idle", "down"}
External == {p \in {"external"} : ext}
Allowed == Admission!Next \/ (UNCHANGED Blocked /\ External' = External)

LEMMA AdmissionStep ==
  ASSUME Typed, Recorded, Excluded, [Next]_vars
  PROVE  Allowed
<1>1. Excluded' BY ExcludedStep
<1>2. ext \in BOOLEAN /\ ext' \in BOOLEAN BY TypedStep DEF Typed
<1>3. /\ ext => External = {"external"}
      /\ ~ext => External = {}
      /\ ext' => External' = {"external"}
      /\ ~ext' => External' = {}
  BY <1>2 DEF External
<1>4. Blocked \in BOOLEAN /\ Blocked' \in BOOLEAN BY Zenon DEF Blocked
<1>5. (ext => ~Blocked) /\ (ext' => ~Blocked') BY <1>1 DEF Excluded, Blocked
<1>6. CASE ext' = ext
  <2>1. External' = External BY <1>2, <1>3, <1>6
  <2>2. CASE Blocked' = Blocked BY <2>1, <2>2 DEF Allowed
  <2>3. CASE Blocked' /\ ~Blocked
    <3>1. External = {} BY <1>2, <1>3, <1>5, <1>6, <2>3
    <3>2. Admission!Admit_job
      BY <1>4, <2>1, <2>3, <3>1, Zenon DEF Admission!Admit_job, External, Blocked
    <3> QED BY <3>2 DEF Allowed, Admission!Next
  <2>4. CASE ~Blocked' /\ Blocked
    <3>1. Admission!End_job
      BY <1>4, <2>1, <2>4, Zenon DEF Admission!End_job, External, Blocked
    <3> QED BY <3>1 DEF Allowed, Admission!Next
  <2> QED BY <1>4, <2>2, <2>3, <2>4
<1>7. CASE ext' # ext /\ Reserve
  <2>1. ~ext /\ ext' /\ ~HasBlockingJob BY <1>7 DEF Reserve
  <2>2. ~Blocked
    BY <2>1 DEF Blocked, Recorded, Idle, HasBlockingJob, Seen
  <2>3. ~Blocked' BY <1>5, <2>1
  <2>4. External = {} /\ External' = {"external"} BY <1>3, <2>1
  <2>5. Admission!Reserve("external")
    BY <2>2, <2>3, <2>4 DEF Admission!Reserve, Admission!Open, External, Blocked
  <2> QED BY <2>5 DEF Allowed, Admission!Next
<1>8. CASE ext' # ext /\ (Release \/ Crash)
  <2>1. ext /\ ~ext' BY <1>2, <1>8 DEF Release, Crash
  <2>2. pc = "idle" /\ ~HasBlockingJob BY <2>1 DEF Excluded
  <2>3. ~Blocked BY <2>2 DEF Blocked
  <2>4. ~Blocked'
    <3>1. CASE Release BY <2>2, <3>1 DEF Release, Blocked, HasBlockingJob, Seen
    <3>2. CASE Crash
      <4>1. job.status \notin Active \cup RecoveryPending
        BY <2>2 DEF HasBlockingJob, Seen, Typed, JobRecord, RecoveryPending
      <4>2. job'.status = job.status /\ pc' = "down" BY <3>2 DEF Crash, Typed, JobRecord
      <4> QED BY <4>1, <4>2 DEF Blocked, HasBlockingJob, Seen
    <3> QED BY <1>8, <3>1, <3>2
  <2>5. External = {"external"} /\ External' = {} BY <1>3, <2>1
  <2>6. Admission!End("external")
    BY <2>3, <2>4, <2>5 DEF Admission!End, Admission!Open, External, Blocked
  <2> QED BY <2>6 DEF Allowed, Admission!Next
<1> QED BY <1>6, <1>7, <1>8, ReservationsChange

\* The job honours the migration admission: from its admission to the end of its
\* recovery it blocks, the worker never works but under a record that blocks, and what
\* others have reserved is over before.  Whatever fails, and whenever the process dies.
THEOREM JobHonoursAdmission == Spec => AdmissionHonoured
<1>1. Init => Admission!Init
  <2> SUFFICES ASSUME Init PROVE Admission!Init OBVIOUS
  <2> QED BY DEF Init, Admission!Init
<1>2. Typed /\ Recorded /\ Excluded /\ Quiet /\ [Next]_vars
        => [Admission!Next]_(Admission!vars)
  BY AdmissionStep DEF Allowed, Blocked, External, Admission!vars
<1> QED BY <1>1, <1>2, SafeInvariance, PTL DEF Spec, AdmissionHonoured, Admission!Spec
=============================================================================
