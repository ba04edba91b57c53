---------------------- MODULE PostgresMigration_proofs ----------------------
(* Theorems of PostgresMigration for any number of jobs, kills, upgrades and   *)
(* failing steps: InfiniDysk has one worker and never runs on the wrong one of *)
(* its two databases, a cutover loses no write, and a rollback that says so    *)
(* has brought SQLite back.                                                   *)
EXTENDS PostgresMigration, TLAPS

\* The control points, one by one.
LEMMA Points ==
  /\ {"idle", "except", "report", "resave", "end", "begin", "config_backup", "stop", "snapshot",
      "checkpoint", "stage", "schema", "schema_done", "switch", "prepare", "rows",
      "sequences", "counts", "digests", "foreign_keys", "catalog", "validate", "drop",
      "apply", "start", "healthy", "finalize", "marker", "complete", "r_stop",
      "r_data", "r_config", "r_entries", "r_marker", "r_start", "r_healthy"} = PCs
  BY DEF PCs, Leaving, Forward, Restore

\* A record of a job under the edits that are made to it.
LEMMA JobEdits ==
  ASSUME NEW r \in JobRecord
  PROVE  /\ \A s \in Statuses :
              /\ [r EXCEPT !.status = s] \in JobRecord
              /\ \A a \in BOOLEAN : [r EXCEPT !.status = s, !.avail = a] \in JobRecord
         /\ [r EXCEPT !.avail = TRUE, !.ckpt = TRUE] \in JobRecord
         /\ r.status \in Statuses /\ r.avail \in BOOLEAN /\ r.ckpt \in BOOLEAN
  BY DEF JobRecord

\* The record and the memory of a job that does not exist yet.
LEMMA Blank == NoJob \in JobRecord /\ NoLocals \in Locals
  BY PostgresAssumption DEF NoJob, NoLocals, JobRecord, Locals, Statuses, Active, Contents

\* What a thread remembers under the edits that are made to it.
LEMMA LocEdits ==
  ASSUME NEW f \in [Jobs -> Locals], NEW j \in Jobs
  PROVE  /\ f[j].restored \in BOOLEAN /\ f[j].rows \in Contents /\ f[j].was \in BOOLEAN
         /\ f[j].mut \in BOOLEAN /\ f[j].stopped \in BOOLEAN
         /\ [f EXCEPT ![j] = NoLocals] \in [Jobs -> Locals]
         /\ \A b \in BOOLEAN :
              /\ [f EXCEPT ![j].was = b] \in [Jobs -> Locals]
              /\ [f EXCEPT ![j].stopped = b] \in [Jobs -> Locals]
              /\ [f EXCEPT ![j].mut = b] \in [Jobs -> Locals]
              /\ [f EXCEPT ![j].restored = b] \in [Jobs -> Locals]
              /\ [f EXCEPT ![j] = [NoLocals EXCEPT !.was = b, !.by = "operator"]]
                   \in [Jobs -> Locals]
              /\ \A c \in BOOLEAN :
                   [f EXCEPT ![j].restored = b, ![j].mut = c] \in [Jobs -> Locals]
         /\ \A x \in Contents : [f EXCEPT ![j].rows = x] \in [Jobs -> Locals]
  BY Blank DEF Locals, NoLocals

\* No step takes a variable out of its type.
LEMMA TypeStep == ASSUME TypeOK, [Next]_vars PROVE TypeOK'
<1> USE DEF vars, world, records, tail, bounds, Goto
<1>t. job \in [Jobs -> JobRecord] /\ loc \in [Jobs -> Locals] /\ pc \in [Jobs -> PCs]
      /\ late \in [Jobs -> {"none"} \cup Leaving] /\ kept \in [Jobs -> JobRecord]
  BY DEF TypeOK
<1>1. ASSUME NEW j \in Jobs, Begin(j) PROVE TypeOK'
  <2>1. pc' \in [Jobs -> PCs] BY <1>t, <1>1, Points DEF Begin
  <2>2. job' \in [Jobs -> JobRecord] /\ latest' \in Jobs \cup {0}
    BY <1>t, <1>1, JobEdits, LocEdits DEF Begin, Save, Active, Statuses
  <2>3. loc' \in [Jobs -> Locals] BY <1>t, <1>1, LocEdits, ZenonT(60) DEF Begin
  <2> QED BY <1>1, <2>1, <2>2, <2>3 DEF Begin, Save, TypeOK, Databases
<1>2. ASSUME NEW j \in Jobs, Config_backup(j) PROVE TypeOK'
  BY <1>2, Points DEF Config_backup, TypeOK, Databases
<1>3. ASSUME NEW j \in Jobs, Stop(j) PROVE TypeOK'
  <2>1. pc' \in [Jobs -> PCs] BY <1>t, <1>3, Points DEF Stop
  <2>2. loc' \in [Jobs -> Locals]
    <3>1. loc' = loc \/ loc' = [loc EXCEPT ![j].stopped = TRUE]
      BY <1>3 DEF Stop
    <3>2. [loc EXCEPT ![j].stopped = TRUE] \in [Jobs -> Locals] BY <1>t, LocEdits
    <3> QED BY <1>t, <3>1, <3>2
  <2> QED BY <1>3, <2>1, <2>2 DEF Stop, TypeOK, Databases
<1>4. ASSUME NEW j \in Jobs, Backup_sqlite(j) PROVE TypeOK'
  <2>1. pc' \in [Jobs -> PCs] BY <1>t, <1>4, Points DEF Backup_sqlite
  <2> QED BY <1>4, <2>1 DEF Backup_sqlite, TypeOK, Databases
<1>5. ASSUME NEW j \in Jobs, Checkpoint(j) PROVE TypeOK'
  BY <1>5, Points, JobEdits DEF Checkpoint, Save, TypeOK, Databases
<1>6. ASSUME NEW j \in Jobs, Initialize_stage(j) PROVE TypeOK'
  BY <1>6, Points DEF Initialize_stage, TypeOK, Databases
<1>7. ASSUME NEW j \in Jobs, Prepare_service_schema(j) PROVE TypeOK'
  BY <1>7, Points DEF Prepare_service_schema, Started, TypeOK, Databases
<1>8. ASSUME NEW j \in Jobs, Schema_done(j) PROVE TypeOK'
  BY <1>8, Points DEF Schema_done, TypeOK, Databases
<1>9. ASSUME NEW j \in Jobs, Switch(j) PROVE TypeOK'
  <2>1. pc' \in [Jobs -> PCs] BY <1>t, <1>9, Points DEF Switch
  <2>2. loc' \in [Jobs -> Locals]
    <3>1. loc' = loc \/ loc' = [loc EXCEPT ![j].restored = TRUE]
      BY <1>9 DEF Switch
    <3>2. [loc EXCEPT ![j].restored = TRUE] \in [Jobs -> Locals] BY <1>t, LocEdits
    <3> QED BY <1>t, <3>1, <3>2
  <2> QED BY <1>9, <2>1, <2>2
             DEF Switch, Started, Selected, Set_database_entries, Clone_database, Contents,
                 TypeOK, Databases
<1>10. ASSUME NEW j \in Jobs, Prepare_target_for_import(j) PROVE TypeOK'
  <2>1. pc' \in [Jobs -> PCs] BY <1>t, <1>10, Points DEF Prepare_target_for_import, Imported
  <2>2. loc' \in [Jobs -> Locals]
    BY <1>t, <1>10, LocEdits DEF Prepare_target_for_import, Imported, Contents
  <2> QED BY <1>10, <2>1, <2>2
             DEF Prepare_target_for_import, Imported, Contents, TypeOK, Databases
<1>11. ASSUME NEW j \in Jobs, Converted_import_batches(j) PROVE TypeOK'
  <2>1. pc' \in [Jobs -> PCs] BY <1>t, <1>11, Points DEF Converted_import_batches, Imported
  <2>2. loc' \in [Jobs -> Locals]
    <3>1. PICK x \in Contents : loc' = [loc EXCEPT ![j].rows = x]
      BY <1>11 DEF Converted_import_batches, Imported, Contents
    <3>2. [loc EXCEPT ![j].rows = x] \in [Jobs -> Locals] BY <1>t, LocEdits
    <3> QED BY <3>1, <3>2
  <2> QED BY <1>11, <2>1, <2>2
             DEF Converted_import_batches, Imported, Contents, TypeOK, Databases
<1>12. ASSUME NEW j \in Jobs, Reset_postgres_sequences(j) PROVE TypeOK'
  <2>1. pc' \in [Jobs -> PCs] BY <1>t, <1>12, Points DEF Reset_postgres_sequences
  <2>2. loc' \in [Jobs -> Locals] /\ loc[j].rows \in Contents
    BY <1>t, <1>12, LocEdits DEF Reset_postgres_sequences, Imported
  <2> QED BY <1>12, <2>1, <2>2 DEF Reset_postgres_sequences, Imported, TypeOK
<1>13. ASSUME NEW j \in Jobs, Validate_row_counts(j) PROVE TypeOK'
  BY <1>13, Points DEF Validate_row_counts, Compare, TypeOK, Databases
<1>14. ASSUME NEW j \in Jobs, Validate_digests(j) PROVE TypeOK'
  BY <1>14, Points DEF Validate_digests, Compare, TypeOK, Databases
<1>15. ASSUME NEW j \in Jobs, Validate_postgres_foreign_keys(j) PROVE TypeOK'
  BY <1>15, Points DEF Validate_postgres_foreign_keys, Compare, TypeOK, Databases
<1>16. ASSUME NEW j \in Jobs, Validate_infinidysk_postgres_schema(j) PROVE TypeOK'
  BY <1>16, Points DEF Validate_infinidysk_postgres_schema, Compare, TypeOK, Databases
<1>17. ASSUME NEW j \in Jobs, Validate(j) PROVE TypeOK'
  BY <1>17, Points DEF Validate, Compare, TypeOK, Databases
<1>18. ASSUME NEW j \in Jobs, Drop_stage(j) PROVE TypeOK'
  <2>1. pc' \in [Jobs -> PCs] BY <1>t, <1>18, Points DEF Drop_stage
  <2>2. job' \in [Jobs -> JobRecord] /\ latest' \in Jobs \cup {0}
    <3>1. UNCHANGED <<job, latest>> \/ Save(j, [job[j] EXCEPT !.status = "completed"])
      BY <1>18 DEF Drop_stage
    <3>2. [job[j] EXCEPT !.status = "completed"] \in JobRecord
      BY <1>t, JobEdits DEF Statuses, Active
    <3> QED BY <1>t, <3>1, <3>2 DEF Save, TypeOK
  <2> QED BY <1>18, <2>1, <2>2 DEF Drop_stage, Save, TypeOK, Databases
<1>19. ASSUME NEW j \in Jobs, Apply_database_config(j) PROVE TypeOK'
  BY <1>19, Points DEF Apply_database_config, TypeOK, Databases
<1>20. ASSUME NEW j \in Jobs, Start_postgres(j) PROVE TypeOK'
  <2>1. pc' \in [Jobs -> PCs] BY <1>t, <1>20, Points DEF Start_postgres
  <2> QED BY <1>20, <2>1 DEF Start_postgres, Started, Selected, TypeOK, Databases
<1>21. ASSUME NEW j \in Jobs, Wait_for_running_service(j) PROVE TypeOK'
  <2>1. pc' \in [Jobs -> PCs] BY <1>t, <1>21, Points DEF Wait_for_running_service
  <2> QED BY <1>21, <2>1 DEF Wait_for_running_service, TypeOK, Databases
<1>22. ASSUME NEW j \in Jobs, Finalize(j) PROVE TypeOK'
  <2>1. pc' \in [Jobs -> PCs] BY <1>t, <1>22, Points DEF Finalize
  <2>2. job' \in [Jobs -> JobRecord] /\ latest' \in Jobs \cup {0}
    BY <1>t, <1>22, JobEdits, LocEdits DEF Finalize, Save, Active, Statuses
  <2> QED BY <1>22, <2>1, <2>2 DEF Finalize, Save, TypeOK, Databases
<1>23. ASSUME NEW j \in Jobs, Record_completion(j) PROVE TypeOK'
  BY <1>23, Points DEF Record_completion, TypeOK, Databases
<1>24. ASSUME NEW j \in Jobs, Complete(j) PROVE TypeOK'
  <2>1. pc' \in [Jobs -> PCs] BY <1>t, <1>24, Points DEF Complete
  <2>2. job' \in [Jobs -> JobRecord] /\ latest' \in Jobs \cup {0}
    BY <1>t, <1>24, JobEdits, LocEdits DEF Complete, Save, Active, Statuses
  <2> QED BY <1>24, <2>1, <2>2 DEF Complete, Save, TypeOK, Databases
<1>25. ASSUME NEW j \in Jobs, Except(j) PROVE TypeOK'
  <2>1. pc' \in [Jobs -> PCs] BY <1>t, <1>25, Points DEF Except
  <2>2. job' \in [Jobs -> JobRecord] /\ latest' \in Jobs \cup {0}
    <3>1. UNCHANGED <<job, latest>> \/ Save(j, [job[j] EXCEPT !.status = "rolling_back"])
      BY <1>25 DEF Except, records
    <3>2. [job[j] EXCEPT !.status = "rolling_back"] \in JobRecord
      BY <1>t, JobEdits DEF Statuses, Active
    <3> QED BY <1>t, <3>1, <3>2 DEF Save, TypeOK
  <2>3. loc' \in [Jobs -> Locals]
    <3>1. \/ loc' = loc
          \/ loc' = [loc EXCEPT ![j].restored = TRUE]
          \/ loc' = [loc EXCEPT ![j].restored = FALSE]
      BY <1>25 DEF Except
    <3>2. [loc EXCEPT ![j].restored = TRUE] \in [Jobs -> Locals] BY <1>t, LocEdits
    <3>3. [loc EXCEPT ![j].restored = FALSE] \in [Jobs -> Locals] BY <1>t, LocEdits
    <3> QED BY <1>t, <3>1, <3>2, <3>3
  <2> QED BY <1>25, <2>1, <2>2, <2>3 DEF Except, Save, TypeOK, Databases
<1>26. ASSUME NEW j \in Jobs, R_stop(j) PROVE TypeOK'
  BY <1>26, Points DEF R_stop, TypeOK, Databases
<1>27. ASSUME NEW j \in Jobs, R_data(j) PROVE TypeOK'
  <2>1. pc' \in [Jobs -> PCs] BY <1>t, <1>27, Points DEF R_data
  <2>2. loc' \in [Jobs -> Locals]
    <3>1. loc' = loc \/ loc' = [loc EXCEPT ![j].mut = TRUE]
      BY <1>27 DEF R_data
    <3>2. [loc EXCEPT ![j].mut = TRUE] \in [Jobs -> Locals] BY <1>t, LocEdits
    <3> QED BY <1>t, <3>1, <3>2
  <2> QED BY <1>27, <2>1, <2>2 DEF R_data, TypeOK, Databases
<1>28. ASSUME NEW j \in Jobs, R_config(j) PROVE TypeOK'
  BY <1>28, Points, LocEdits DEF R_config, TypeOK, Databases
<1>29. ASSUME NEW j \in Jobs, Restore_database_entries(j) PROVE TypeOK'
  BY <1>29, Points, LocEdits, ZenonT(60) DEF Restore_database_entries, TypeOK, Databases
<1>30. ASSUME NEW j \in Jobs, Clear_authorization(j) PROVE TypeOK'
  BY <1>30, Points, LocEdits DEF Clear_authorization, TypeOK, Databases
<1>31. ASSUME NEW j \in Jobs, R_start(j) PROVE TypeOK'
  <2>1. pc' \in [Jobs -> PCs] BY <1>t, <1>31, Points DEF R_start
  <2> QED BY <1>31, <2>1 DEF R_start, Started, Selected, TypeOK, Databases
<1>32. ASSUME NEW j \in Jobs, R_healthy(j) PROVE TypeOK'
  BY <1>32, Points, LocEdits DEF R_healthy, TypeOK, Databases
<1>33. ASSUME NEW j \in Jobs, Report(j) PROVE TypeOK'
  <2>1. pc' \in [Jobs -> PCs] BY <1>t, <1>33, Points DEF Report, Reports
  <2>2. job' \in [Jobs -> JobRecord] /\ latest' \in Jobs \cup {0}
    BY <1>t, <1>33, JobEdits, LocEdits, ZenonT(60)
       DEF Report, Reports, Save, Reported, Active, Statuses
  <2> QED BY <1>33, <2>1, <2>2 DEF Report, Reports, Save, Reported, TypeOK, Databases
<1>34. ASSUME NEW j \in Jobs, Rollback_job(j) PROVE TypeOK'
  <2>1. pc' \in [Jobs -> PCs] BY <1>t, <1>34, Points DEF Rollback_job
  <2>2. job' \in [Jobs -> JobRecord] /\ latest' \in Jobs \cup {0}
    BY <1>t, <1>34, JobEdits, LocEdits
       DEF Rollback_job, Reserve_rollback, Save, Active, Statuses
  <2>3. loc' \in [Jobs -> Locals] BY <1>t, <1>34, LocEdits DEF Rollback_job
  <2>4. late' \in [Jobs -> {"none"} \cup Leaving] /\ kept' \in [Jobs -> JobRecord]
        /\ slips' = slips
    BY <1>t, <1>34 DEF Rollback_job
  <2> QED BY <1>34, <2>1, <2>2, <2>3, <2>4
             DEF Rollback_job, Reserve_rollback, Save, TypeOK, Databases
<1>35. ASSUME NEW j \in Jobs, Fault(j) PROVE TypeOK'
  <2>1. pc' \in [Jobs -> PCs] BY <1>t, <1>35, Points DEF Fault, Raise
  <2>2. loc' \in [Jobs -> Locals]
    <3>1. \/ loc' = loc
          \/ \E b \in BOOLEAN : loc' = [loc EXCEPT ![j].stopped = b]
          \/ loc' = [loc EXCEPT ![j].restored = FALSE, ![j].mut = @ \/ pc[j] = "r_config"]
      BY <1>35 DEF Fault, Raise
    <3>2. \A b \in BOOLEAN : [loc EXCEPT ![j].stopped = b] \in [Jobs -> Locals]
      BY <1>t, LocEdits
    <3>3. [loc EXCEPT ![j].restored = FALSE, ![j].mut = @ \/ pc[j] = "r_config"] \in [Jobs -> Locals]
      BY <1>t, LocEdits
    <3> QED BY <1>t, <3>1, <3>2, <3>3
  <2>3. faults' \in 0..MaxFaults BY <1>35, PostgresAssumption DEF Fault, TypeOK
  <2>4. slips' \subseteq {"reopened", "unstopped"} /\ up' \in Databases \cup {"down"}
    BY <1>35 DEF Fault, Raise, TypeOK
  <2>5. UNCHANGED <<kind, disk, mem, app, target, stage, marker, latest, job, bk, busy,
                    late, kept, ns, binding, fresh, crashes>>
    BY <1>35 DEF Fault
  <2> QED BY <2>1, <2>2, <2>3, <2>4, <2>5 DEF TypeOK
<1>44. ASSUME NEW j \in Jobs, Resave(j) PROVE TypeOK'
  <2>1. pc' \in [Jobs -> PCs] BY <1>t, <1>44, Points DEF Resave
  <2>2. job' \in [Jobs -> JobRecord] /\ latest' \in Jobs \cup {0}
    BY <1>t, <1>44 DEF Resave, Save
  <2> QED BY <1>44, <2>1, <2>2 DEF Resave, Save, TypeOK
<1>45. ASSUME NEW j \in Jobs, End(j) PROVE TypeOK'
  <2>1. pc' \in [Jobs -> PCs] /\ loc' \in [Jobs -> Locals]
    BY <1>t, <1>45, Points, LocEdits DEF End
  <2>2. stage' \subseteq Jobs BY <1>45 DEF End, Drops, TypeOK
  <2> QED BY <1>45, <2>1, <2>2 DEF End, TypeOK
<1>46. ASSUME NEW j \in Jobs, Late_save(j) PROVE TypeOK'
  <2>1. job' \in [Jobs -> JobRecord] /\ latest' \in Jobs \cup {0}
    BY <1>t, <1>46 DEF Late_save, Save
  <2>2. kept' \in [Jobs -> JobRecord] /\ late' \in [Jobs -> {"none"} \cup Leaving]
    BY <1>t, <1>46, Blank DEF Late_save, Leaving
  <2> QED BY <1>46, <2>1, <2>2 DEF Late_save, Save, TypeOK
<1>47. ASSUME NEW j \in Jobs, Late_end(j) PROVE TypeOK'
  <2>2. kept' \in [Jobs -> JobRecord] /\ late' \in [Jobs -> {"none"} \cup Leaving]
    BY <1>t, <1>47, Blank DEF Late_end, Leaving
  <2> QED BY <1>47, <2>2 DEF Late_end, TypeOK
<1>48. ASSUME NEW j \in Jobs, Swallowed_stop(j) PROVE TypeOK'
  <2>1. pc' \in [Jobs -> PCs] BY <1>t, <1>48, Points DEF Swallowed_stop
  <2>2. faults' \in 0..MaxFaults BY <1>48, PostgresAssumption DEF Swallowed_stop, TypeOK
  <2> QED BY <1>48, <2>1, <2>2 DEF Swallowed_stop, TypeOK, Databases
<1>36. CASE Lifecycle BY <1>36 DEF Lifecycle, Started, Selected, TypeOK, Databases
<1>37. CASE Save_config BY <1>37 DEF Save_config, TypeOK, Databases
<1>38. CASE Write BY <1>38 DEF Write, TypeOK, Databases
<1>39. CASE Upgrade
  <2>1. binding + 1 \in 0..MaxUpgrades BY <1>39, PostgresAssumption DEF Upgrade, TypeOK
  <2> QED BY <1>39, <2>1 DEF Upgrade, TypeOK
<1>40. CASE Namespace BY <1>40 DEF Namespace, TypeOK, Databases
<1>41. CASE Restart
  <2>1. pc' \in [Jobs -> PCs] BY <1>t, <1>41, Points DEF Restart
  <2>2. job' \in [Jobs -> JobRecord]
    <3>1. ASSUME NEW j \in Jobs PROVE Seen(job[j]) \in JobRecord
      BY <1>t, JobEdits DEF Seen, Statuses
    <3> QED BY <1>41, <3>1 DEF Restart
  <2>3. loc' \in [Jobs -> Locals] /\ kept' \in [Jobs -> JobRecord]
        /\ late' \in [Jobs -> {"none"} \cup Leaving]
    BY <1>41, Blank DEF Restart
  <2>4. Adopted \in Databases BY DEF Adopted, TypeOK
  <2>5. {disk', mem', app'} \subseteq Databases /\ up' \in Databases \cup {"down"}
    BY <1>41, <2>4 DEF Restart, TypeOK
  <2>6. crashes' \in 0..MaxCrashes BY <1>41, PostgresAssumption DEF Restart, TypeOK
  <2> QED BY <1>41, <2>1, <2>2, <2>3, <2>5, <2>6 DEF Restart, TypeOK
<1>42. ASSUME NEW j \in Jobs, NEW m \in {"rehearsal", "cutover"}, Create_job(j, m)
      PROVE  TypeOK'
  <2>1. pc' \in [Jobs -> PCs] BY <1>t, <1>42, Points DEF Create_job
  <2>2. [NoJob EXCEPT !.status = "queued", !.mode = m, !.bind = binding] \in JobRecord
    BY DEF NoJob, JobRecord, Statuses, Active, TypeOK
  <2>3. job' \in [Jobs -> JobRecord] /\ latest' \in Jobs \cup {0}
    BY <1>t, <1>42, <2>2 DEF Create_job, Save
  <2>4. loc' \in [Jobs -> Locals] BY <1>t, <1>42, LocEdits DEF Create_job
  <2> QED BY <1>42, <2>1, <2>3, <2>4 DEF Create_job, TypeOK
<1>43. CASE UNCHANGED vars BY <1>43 DEF TypeOK
<1> QED BY <1>1, <1>2, <1>3, <1>4, <1>5, <1>6, <1>7, <1>8, <1>9, <1>10, <1>11, <1>12, <1>13,
           <1>14, <1>15, <1>16, <1>17, <1>18, <1>19, <1>20, <1>21, <1>22, <1>23, <1>24,
           <1>25, <1>26, <1>27, <1>28, <1>29, <1>30, <1>31, <1>32, <1>33, <1>34, <1>35,
           <1>36, <1>37, <1>38, <1>39, <1>40, <1>41, <1>42, <1>43, <1>44, <1>45, <1>46,
           <1>47, <1>48
           DEF Next, JobStep, RestoreStep, LeaveStep

-----------------------------------------------------------------------------
(* The inductive invariant. It speaks of the kinds of service for which the  *)
(* properties hold: InfiniDysk without any condition, the others Sheltered.  *)

\* A job that keeps other jobs of InfiniDysk out.
Live(j) == Unresolved(job[j]) \/ (job[j].status = "completed" /\ Cutover(j))
\* Something of the service is on PostgreSQL, and the job that can bring it back.
Taken == "postgres" \in {disk, mem, app, up} \/ marker
Holder(j) ==
  /\ Cutover(j) /\ job[j].ckpt /\ bk[j] = "full" /\ Live(j)
  /\ job[j].avail \/ job[j].status = "rollback_failed"

\* The stretches of a job, by control point.
Importing == {"prepare", "rows", "sequences", "counts", "digests", "foreign_keys",
              "catalog", "validate", "drop", "apply"}
Saved == {"stage", "schema", "schema_done", "switch"} \cup Importing
Copied == {"checkpoint"} \cup Saved
Before == {"begin", "config_backup", "stop", "snapshot"} \cup Copied
Switched == {"start", "healthy", "finalize", "marker", "complete"}
OnSqlite == disk = "sqlite" /\ mem = "sqlite" /\ app = "sqlite"

\* One thread at a time, and who it keeps out.
OneAtWork ==
  /\ \A i, j \in Jobs : Works(i) /\ Works(j) => i = j
  /\ \A j \in Jobs : Works(j) =>
       IF Guarded THEN ~ns /\ job[j].status \in Active ELSE busy
  /\ ~Guarded => \A i, j \in Jobs : late[i] = "none"
                                    /\ (pc[i] # "idle" => busy /\ (pc[j] # "idle" => i = j))

\* InfiniDysk has one job that is not over, and what its record promises is there.
Kept(j) ==
  /\ job[j].ckpt => Cutover(j) /\ bk[j] = "full"
  /\ job[j].ckpt /\ job[j].status \in Active => job[j].avail
  /\ job[j].status = "completed" /\ Cutover(j) =>
       /\ job[j].avail /\ job[j].ckpt
       /\ marker /\ disk = "postgres" /\ mem = "postgres"
OneLive ==
  Guarded => /\ \A i, j \in Jobs : Live(i) /\ Live(j) => i = j
             /\ \A j \in Jobs : Kept(j)

\* While InfiniDysk is in part on PostgreSQL there is a job to roll back or completed.
TakenIsHeld == Guarded /\ Taken => \E j \in Jobs : Holder(j)

\* Where the databases a service may open are selected, and by whom.
InPlace ==
  /\ disk # "stage"
  /\ "postgres" \in {disk, mem, up} => Trusted
  /\ kind = "arr" /\ app = "postgres" => Trusted
  /\ Guarded => "stage" \notin {mem, app, up}
  /\ mem = "stage" => \E j \in Jobs : bk[j] = "full" /\ pc[j] \in {"schema_done", "except"}
  /\ up = "stage" => \E j \in Jobs : bk[j] = "full" /\ pc[j] \in {"schema_done", "except", "r_stop"}
  /\ kind = "arr" /\ app = "stage" =>
       \E j \in Jobs : /\ bk[j] = "full"
                       /\ pc[j] \in {"schema_done", "except", "r_stop", "r_data", "r_config"}
  /\ Guarded /\ up = "sqlite" => ~marker
  /\ Guarded /\ mem = "postgres" => disk = "postgres"
  /\ ~Guarded => ~marker

\* How far a job has come: where the service is, ...
ServiceShape(j) ==
  /\ pc[j] \in Before /\ (pc[j] = "schema_done" => Guarded) => mem = "sqlite"
  /\ ~Guarded /\ Cutover(j) /\ pc[j] \in Importing => app = "sqlite"
  /\ ~Guarded /\ pc[j] = "switch" => app = "sqlite"
  /\ pc[j] = "config_backup" => loc[j].was = (up # "down")
  /\ pc[j] = "start" => loc[j].was /\ app = "postgres"
  /\ Cutover(j) /\ pc[j] \in {"snapshot", "start"} \cup Copied =>
       up = IF ~Guarded /\ pc[j] = "schema_done" THEN "stage" ELSE "down"
  /\ Cutover(j) /\ pc[j] \in Copied => j \in fresh
  /\ Cutover(j) /\ pc[j] \in Importing => disk = "sqlite"
  /\ pc[j] \in Switched => disk = "postgres" /\ mem = "postgres"
  /\ Guarded /\ pc[j] \in Switched \ {"start"} => up = "postgres"
  /\ Guarded /\ pc[j] = "complete" => marker
\* ... what it is and what its record says, ...
RecordShape(j) ==
  /\ pc[j] \in {"stop", "checkpoint", "apply"} \cup Switched => Cutover(j)
  /\ pc[j] \in {"digests", "foreign_keys", "catalog", "marker", "r_marker"} => Guarded
  /\ pc[j] \in {"begin", "config_backup", "stop", "snapshot"} => ~job[j].ckpt
  /\ pc[j] \in Copied \cup Switched => bk[j] = "full"
  /\ Cutover(j) /\ pc[j] \in Saved \cup Switched => job[j].ckpt /\ job[j].avail
\* ... what was imported, ...
DataShape(j) ==
  /\ Cutover(j) /\ pc[j] \in Importing \ {"prepare"} => target = loc[j].rows
  /\ pc[j] \in {"sequences", "counts"} => loc[j].rows \in {"short", "changed", "whole"}
  /\ pc[j] \in {"digests", "foreign_keys", "catalog", "validate", "drop", "apply"} =>
       loc[j].rows \in {"changed", "whole"}
  /\ Guarded /\ pc[j] \in {"foreign_keys", "catalog", "validate", "drop", "apply"} =>
       loc[j].rows = "whole"
\* ... the rehearsal InfiniDysk's job goes by, ...
Rehearsed(j) ==
  Guarded /\ pc[j] \in Forward =>
    /\ job[j].bind = binding
    /\ Cutover(j) => Matching_rehearsal(binding)
\* ... and how far it is on the way back.
BackShape(j) ==
  /\ pc[j] \in {"r_data", "r_config", "r_entries", "r_marker", "r_start"} => up = "down"
  /\ pc[j] \in {"r_entries", "r_marker", "r_start", "r_healthy"} => OnSqlite
  /\ pc[j] \in {"r_start", "r_healthy"} => ~marker
  /\ pc[j] = "r_healthy" => up = "sqlite"
  /\ pc[j] = "report" /\ loc[j].restored /\ bk[j] # "none" =>
       OnSqlite /\ ~marker /\ up \in {"sqlite", "down"}
  /\ Works(j) /\ loc[j].by = "operator" =>
       bk[j] = "full" /\ pc[j] \in Restore \cup {"report"}
Shaped(j) ==
  ServiceShape(j) /\ RecordShape(j) /\ DataShape(j) /\ Rehearsed(j) /\ BackShape(j)
Shapes == \A j \in Jobs : Shaped(j)

\* A rollback was reserved over no record that says a rollback is done.
KeptIsOver == \A j \in Jobs : kept[j].status \notin {"rolled_back", "failed_rolled_back"}

IndInv ==
  /\ TypeOK /\ KeptIsOver
  /\ Sheltered(kind) /\ Sound => OneAtWork /\ OneLive /\ TakenIsHeld /\ InPlace /\ Shapes

\* The steps of a job's own thread until its record says that it is over, ...
Failing(j) == Fault(j) /\ Works(j)
Thread(j) == JobStep(j) \/ RestoreStep(j) \/ Failing(j)
\* ... those by which it leaves, ...
Departing(j) == Resave(j) \/ End(j) \/ Late_end(j) \/ (Fault(j) /\ ~Works(j) /\ Sound')
\* ... and what everybody else does.
Around == Lifecycle \/ Save_config \/ Write \/ Upgrade \/ Namespace \/ Restart
          \/ UNCHANGED vars
Proper ==
  \/ \E j \in Jobs : \/ \E m \in {"rehearsal", "cutover"} : Create_job(j, m)
                     \/ Thread(j) \/ Rollback_job(j)
  \/ Around

\* A step that does not slip is one of these.
LEMMA ProperSteps ==
  ASSUME [Next]_vars, Sound' PROVE Proper \/ \E j \in Jobs : Departing(j)
<1>1. ASSUME NEW j \in Jobs, Late_save(j) \/ Swallowed_stop(j) PROVE FALSE
  BY <1>1 DEF Late_save, Swallowed_stop, Sound
<1> QED BY <1>1 DEF Next, LeaveStep, Proper, Around, Thread, Failing, Departing

\* Steps of a thread leave the history alone.
LEMMA TailKept ==
  ASSUME NEW j \in Jobs, JobStep(j) \/ RestoreStep(j) PROVE UNCHANGED tail
<1>1. CASE JobStep(j)
  BY <1>1 DEF JobStep, Begin, Config_backup, Stop, Backup_sqlite, Checkpoint,
     Initialize_stage, Prepare_service_schema, Schema_done, Switch,
     Prepare_target_for_import, Converted_import_batches, Reset_postgres_sequences,
     Imported, Validate_row_counts, Validate_digests, Validate_postgres_foreign_keys,
     Validate_infinidysk_postgres_schema, Validate, Compare, Drop_stage,
     Apply_database_config, Start_postgres, Wait_for_running_service, Finalize,
     Record_completion, Complete
<1>2. CASE RestoreStep(j)
  BY <1>2 DEF RestoreStep, Except, R_stop, R_data, R_config, Restore_database_entries,
     Clear_authorization, R_start, R_healthy, Report, Reports
<1> QED BY <1>1, <1>2

\* What went wrong stays gone wrong.
LEMMA SlipsStay == ASSUME [Next]_vars, Sound' PROVE Sound
<1>1. ASSUME NEW j \in Jobs, JobStep(j) \/ RestoreStep(j) PROVE Sound
  BY <1>1, TailKept DEF tail, Sound
<1>2. ASSUME NEW j \in Jobs, LeaveStep(j) \/ Rollback_job(j) \/ Fault(j) \/ Swallowed_stop(j)
      PROVE  Sound
  BY <1>2 DEF LeaveStep, Resave, End, Late_save, Late_end, Rollback_job, Fault, Raise,
     Swallowed_stop, tail, Sound
<1>3. ASSUME NEW j \in Jobs, NEW m \in {"rehearsal", "cutover"}, Create_job(j, m)
      PROVE  Sound
  BY <1>3 DEF Create_job, tail, Sound
<1>4. CASE Around
  BY <1>4 DEF Around, Lifecycle, Save_config, Write, Upgrade, Namespace, Restart, vars, tail,
     Sound
<1> QED BY <1>1, <1>2, <1>3, <1>4 DEF Next, Around

\* They leave the other jobs and their threads alone.
LEMMA OthersAlone ==
  ASSUME TypeOK, NEW j \in Jobs, Thread(j)
  PROVE  /\ Works(j) /\ UNCHANGED <<kind, ns, binding, crashes>>
         /\ \A i \in Jobs \ {j} : UNCHANGED <<pc[i], loc[i], job[i], bk[i]>>
<1> USE DEF world, records, bounds, Goto, At, Works, Leaving, Forward, Restore
<1>t. job \in [Jobs -> JobRecord] /\ loc \in [Jobs -> Locals] /\ pc \in [Jobs -> PCs]
      /\ bk \in [Jobs -> {"none", "config", "full"}]
  BY DEF TypeOK
<1>1. CASE Begin(j) BY <1>t, <1>1 DEF Begin, Save
<1>2. CASE Config_backup(j) BY <1>t, <1>2 DEF Config_backup
<1>3. CASE Stop(j) BY <1>t, <1>3 DEF Stop
<1>4. CASE Backup_sqlite(j) BY <1>t, <1>4 DEF Backup_sqlite
<1>5. CASE Checkpoint(j) BY <1>t, <1>5 DEF Checkpoint, Save
<1>6. CASE Initialize_stage(j) BY <1>t, <1>6 DEF Initialize_stage
<1>7. CASE Prepare_service_schema(j) BY <1>t, <1>7 DEF Prepare_service_schema, Started
<1>8. CASE Schema_done(j) BY <1>t, <1>8 DEF Schema_done
<1>9. CASE Switch(j) BY <1>t, <1>9
                        DEF Switch, Started, Selected, Set_database_entries, Clone_database
<1>10. CASE Prepare_target_for_import(j)
  BY <1>t, <1>10 DEF Prepare_target_for_import, Imported
<1>11. CASE Converted_import_batches(j)
  BY <1>t, <1>11 DEF Converted_import_batches, Imported
<1>12. CASE Reset_postgres_sequences(j)
  BY <1>t, <1>12 DEF Reset_postgres_sequences, Imported
<1>13. CASE Validate_row_counts(j) BY <1>t, <1>13 DEF Validate_row_counts, Compare
<1>14. CASE Validate_digests(j) BY <1>t, <1>14 DEF Validate_digests, Compare
<1>15. CASE Validate_postgres_foreign_keys(j)
  BY <1>t, <1>15 DEF Validate_postgres_foreign_keys, Compare
<1>16. CASE Validate_infinidysk_postgres_schema(j)
  BY <1>t, <1>16 DEF Validate_infinidysk_postgres_schema, Compare
<1>17. CASE Validate(j) BY <1>t, <1>17 DEF Validate, Compare
<1>18. CASE Drop_stage(j) BY <1>t, <1>18 DEF Drop_stage, Save
<1>19. CASE Apply_database_config(j) BY <1>t, <1>19 DEF Apply_database_config
<1>20. CASE Start_postgres(j) BY <1>t, <1>20 DEF Start_postgres, Started, Selected
<1>21. CASE Wait_for_running_service(j) BY <1>t, <1>21 DEF Wait_for_running_service
<1>22. CASE Finalize(j) BY <1>t, <1>22 DEF Finalize, Save
<1>23. CASE Record_completion(j) BY <1>t, <1>23 DEF Record_completion
<1>24. CASE Complete(j) BY <1>t, <1>24 DEF Complete, Save
<1>25. CASE Except(j) BY <1>t, <1>25 DEF Except, Save
<1>26. CASE R_stop(j) BY <1>t, <1>26 DEF R_stop
<1>27. CASE R_data(j) BY <1>t, <1>27 DEF R_data
<1>28. CASE R_config(j) BY <1>t, <1>28 DEF R_config
<1>29. CASE Restore_database_entries(j) BY <1>t, <1>29 DEF Restore_database_entries
<1>30. CASE Clear_authorization(j) BY <1>t, <1>30 DEF Clear_authorization
<1>31. CASE R_start(j) BY <1>t, <1>31 DEF R_start, Started, Selected
<1>32. CASE R_healthy(j) BY <1>t, <1>32 DEF R_healthy
<1>33. CASE Report(j) BY <1>t, <1>33 DEF Report, Reports, Save
<1>34. CASE Failing(j) BY <1>t, <1>34 DEF Failing, Fault, Raise
<1> QED BY <1>1, <1>2, <1>3, <1>4, <1>5, <1>6, <1>7, <1>8, <1>9, <1>10, <1>11, <1>12, <1>13,
           <1>14, <1>15, <1>16, <1>17, <1>18, <1>19, <1>20, <1>21, <1>22, <1>23, <1>24,
           <1>25, <1>26, <1>27, <1>28, <1>29, <1>30, <1>31, <1>32, <1>33, <1>34
           DEF Thread, JobStep, RestoreStep

\* While a job is at work its record says so, and the job holds its place.
LEMMA StaysActive ==
  ASSUME TypeOK, NEW j \in Jobs, Thread(j)
  PROVE  /\ busy' = busy /\ UNCHANGED tail
         /\ Works(j)' => (Guarded /\ job[j].status \in Active => job'[j].status \in Active)
<1> USE DEF world, records, tail, bounds, Goto, Works, Leaving
<1>t. job \in [Jobs -> JobRecord] /\ pc \in [Jobs -> PCs] BY DEF TypeOK
<1>r. job[j] \in JobRecord BY <1>t
<1>1. CASE Begin(j) BY <1>t, <1>r, <1>1 DEF Begin, Save, Active, JobRecord
<1>2. CASE Config_backup(j) BY <1>t, <1>r, <1>2 DEF Config_backup
<1>3. CASE Stop(j) BY <1>t, <1>r, <1>3 DEF Stop
<1>4. CASE Backup_sqlite(j) BY <1>t, <1>r, <1>4 DEF Backup_sqlite
<1>5. CASE Checkpoint(j) BY <1>t, <1>r, <1>5 DEF Checkpoint, Save, JobRecord
<1>6. CASE Initialize_stage(j) BY <1>t, <1>r, <1>6 DEF Initialize_stage
<1>7. CASE Prepare_service_schema(j) BY <1>t, <1>r, <1>7 DEF Prepare_service_schema, Started
<1>8. CASE Schema_done(j) BY <1>t, <1>r, <1>8 DEF Schema_done
<1>9. CASE Switch(j) BY <1>t, <1>r, <1>9
                        DEF Switch, Started, Selected, Set_database_entries, Clone_database
<1>10. CASE Prepare_target_for_import(j)
  BY <1>t, <1>r, <1>10 DEF Prepare_target_for_import, Imported
<1>11. CASE Converted_import_batches(j)
  BY <1>t, <1>r, <1>11 DEF Converted_import_batches, Imported
<1>12. CASE Reset_postgres_sequences(j)
  BY <1>t, <1>r, <1>12 DEF Reset_postgres_sequences, Imported
<1>13. CASE Validate_row_counts(j) BY <1>t, <1>r, <1>13 DEF Validate_row_counts, Compare
<1>14. CASE Validate_digests(j) BY <1>t, <1>r, <1>14 DEF Validate_digests, Compare
<1>15. CASE Validate_postgres_foreign_keys(j)
  BY <1>t, <1>r, <1>15 DEF Validate_postgres_foreign_keys, Compare
<1>16. CASE Validate_infinidysk_postgres_schema(j)
  BY <1>t, <1>r, <1>16 DEF Validate_infinidysk_postgres_schema, Compare
<1>17. CASE Validate(j) BY <1>t, <1>r, <1>17 DEF Validate, Compare
<1>18. CASE Drop_stage(j) BY <1>t, <1>r, <1>18 DEF Drop_stage, Save
<1>19. CASE Apply_database_config(j) BY <1>t, <1>r, <1>19 DEF Apply_database_config
<1>20. CASE Start_postgres(j) BY <1>t, <1>r, <1>20 DEF Start_postgres, Started, Selected
<1>21. CASE Wait_for_running_service(j) BY <1>t, <1>r, <1>21 DEF Wait_for_running_service
<1>22. CASE Finalize(j) BY <1>t, <1>r, <1>22 DEF Finalize, Save, Active, JobRecord
<1>23. CASE Record_completion(j) BY <1>t, <1>r, <1>23 DEF Record_completion
<1>24. CASE Complete(j) BY <1>t, <1>r, <1>24 DEF Complete, Save
<1>25. CASE Except(j) BY <1>t, <1>r, <1>25 DEF Except, Save, Active, JobRecord
<1>26. CASE R_stop(j) BY <1>t, <1>r, <1>26 DEF R_stop
<1>27. CASE R_data(j) BY <1>t, <1>r, <1>27 DEF R_data
<1>28. CASE R_config(j) BY <1>t, <1>r, <1>28 DEF R_config
<1>29. CASE Restore_database_entries(j) BY <1>t, <1>r, <1>29 DEF Restore_database_entries
<1>30. CASE Clear_authorization(j) BY <1>t, <1>r, <1>30 DEF Clear_authorization
<1>31. CASE R_start(j) BY <1>t, <1>r, <1>31 DEF R_start, Started, Selected
<1>32. CASE R_healthy(j) BY <1>t, <1>r, <1>32 DEF R_healthy
<1>33. CASE Report(j) BY <1>t, <1>r, <1>33 DEF Report, Reports, Save
<1>34. CASE Failing(j) BY <1>t, <1>r, <1>34 DEF Failing, Fault, Raise
<1> QED BY <1>1, <1>2, <1>3, <1>4, <1>5, <1>6, <1>7, <1>8, <1>9, <1>10, <1>11, <1>12, <1>13,
           <1>14, <1>15, <1>16, <1>17, <1>18, <1>19, <1>20, <1>21, <1>22, <1>23, <1>24,
           <1>25, <1>26, <1>27, <1>28, <1>29, <1>30, <1>31, <1>32, <1>33, <1>34
           DEF Thread, JobStep, RestoreStep

\* A second thread is never admitted beside one that is at work.
LEMMA OneAtWorkStep ==
  ASSUME TypeOK, Sheltered(kind), OneAtWork, OneLive, Proper
  PROVE  OneAtWork'
<1> USE DEF Guarded
<1>t. job \in [Jobs -> JobRecord] /\ pc \in [Jobs -> PCs] BY DEF TypeOK
<1>0. ASSUME UNCHANGED <<kind, pc, busy, late>>, Guarded => UNCHANGED job,
             Guarded => \A i \in Jobs : Works(i) => ~ns'
      PROVE  OneAtWork'
  BY <1>0 DEF OneAtWork, Works
<1>1. ASSUME NEW j \in Jobs, NEW m \in {"rehearsal", "cutover"}, Create_job(j, m)
      PROVE  OneAtWork'
  <2>1. CASE Guarded
    <3>1. \A i \in Jobs : ~Works(i)
      BY <1>1, <2>1 DEF OneAtWork, Create_job, Has_active_infinidysk_job, Unresolved
    <3>2. job'[j].status \in Active /\ ~ns' /\ kind' = kind
      BY <1>t, <1>1 DEF Create_job, Save, NoJob, Active
    <3>3. \A i \in Jobs : Works(i)' => i = j
      BY <1>t, <1>1, <3>1 DEF Create_job, Goto, Works
    <3> QED BY <2>1, <3>2, <3>3 DEF OneAtWork
  <2>2. CASE ~Guarded
    <3>1. \A i \in Jobs : pc[i] = "idle" /\ late[i] = "none"
      BY <1>1, <2>2 DEF OneAtWork, Create_job
    <3>2. /\ busy' /\ kind' = kind /\ late' = late
          /\ \A i \in Jobs : pc'[i] # "idle" => i = j
      BY <1>t, <1>1, <3>1 DEF Create_job, Goto, tail
    <3> QED BY <2>2, <3>1, <3>2 DEF OneAtWork, Works
  <2> QED BY <2>1, <2>2
<1>2. ASSUME NEW j \in Jobs, Thread(j) PROVE OneAtWork'
  <2>1. Works(j) /\ UNCHANGED <<kind, ns, busy, late>>
        /\ \A i \in Jobs \ {j} : UNCHANGED <<pc[i], job[i]>>
    BY <1>2, OthersAlone, StaysActive DEF tail
  <2>2. \A i \in Jobs \ {j} : ~Works(i)' BY <2>1 DEF OneAtWork, Works
  <2>3. Works(j)' => IF Guarded' THEN ~ns' /\ job'[j].status \in Active ELSE busy'
    BY <1>2, <2>1, StaysActive DEF OneAtWork
  <2>4. ~Guarded => /\ \A i \in Jobs : late[i] = "none"
                    /\ busy /\ \A i \in Jobs \ {j} : pc'[i] = "idle"
    BY <2>1 DEF OneAtWork, Works
  <2> QED BY <2>1, <2>2, <2>3, <2>4 DEF OneAtWork
<1>3. ASSUME NEW j \in Jobs, Rollback_job(j) PROVE OneAtWork'
  <2>u. kind' = kind /\ job'[j].status \in Active /\ busy' /\ ns' = ns /\ (Guarded => ~ns)
        /\ pc' = [pc EXCEPT ![j] = "r_stop"]
    BY <1>t, <1>3 DEF Rollback_job, Reserve_rollback, Save, Active, JobRecord, Goto
  <2>1. CASE Guarded
    <3>1. Live(j) /\ job[j].status \notin Active
      BY <1>3 DEF Rollback_job, Reserve_rollback, Live, Unresolved, Pending, Active
    <3>2. \A i \in Jobs : ~Works(i)
      BY <2>1, <3>1 DEF OneAtWork, OneLive, Live, Unresolved
    <3>3. \A i \in Jobs : Works(i)' => i = j BY <1>t, <2>u, <3>2 DEF Works
    <3> QED BY <2>1, <2>u, <3>3 DEF OneAtWork
  <2>2. CASE ~Guarded
    <3>1. \A i \in Jobs : pc[i] = "idle" /\ late[i] = "none"
      BY <1>3, <2>2 DEF OneAtWork, Rollback_job, Reserve_rollback, Sheltered
    <3>2. late' = late BY <1>3, <3>1 DEF Rollback_job, Leaving
    <3> QED BY <1>t, <2>2, <2>u, <3>1, <3>2 DEF OneAtWork, Works
  <2> QED BY <2>1, <2>2
<1>4. CASE Lifecycle BY <1>0, <1>4 DEF Lifecycle, records, tail, OneAtWork
<1>5. CASE Save_config BY <1>0, <1>5 DEF Save_config, records, tail, OneAtWork
<1>6. CASE Write BY <1>0, <1>6 DEF Write, records, tail, OneAtWork
<1>7. CASE Upgrade BY <1>0, <1>7 DEF Upgrade, records, tail, OneAtWork
<1>8. CASE Namespace
  BY <1>0, <1>8
     DEF Namespace, records, tail, Has_namespace_conflicting_job, Unresolved, OneAtWork
<1>9. CASE Restart
  <2>1. \A i \in Jobs : pc'[i] = "idle" /\ late'[i] = "none" BY <1>9 DEF Restart
  <2> QED BY <2>1 DEF OneAtWork, Works
<1>10. CASE UNCHANGED vars BY <1>0, <1>10 DEF vars, records, tail, OneAtWork
<1> QED BY <1>1, <1>2, <1>3, <1>4, <1>5, <1>6, <1>7, <1>8, <1>9, <1>10 DEF Proper, Around

\* What the record of a job promises, step by step of its thread.
LEMMA KeptStep ==
  ASSUME TypeOK, Guarded, OneAtWork, OneLive, Shapes, NEW j \in Jobs, Thread(j)
  PROVE  Kept(j)'
<1> USE DEF world, records, bounds, Guarded, Kept, Cutover
<1>t. job \in [Jobs -> JobRecord] /\ pc \in [Jobs -> PCs]
      /\ bk \in [Jobs -> {"none", "config", "full"}]
  BY DEF TypeOK
<1>r. job[j] \in JobRecord BY <1>t
<1>k. Kept(j) /\ Works(j) /\ job[j].status \in Active
  BY OthersAlone DEF OneLive, OneAtWork, Works
<1>s. RecordShape(j) /\ ServiceShape(j) BY DEF Shapes, Shaped
<1>1. CASE Begin(j)
  <2>1. job' = [job EXCEPT ![j] = [job[j] EXCEPT !.status = "running"]]
        /\ UNCHANGED <<kind, bk, disk, mem, marker>>
    BY <1>1 DEF Begin, Save
  <2>2. job'[j].status = "running" /\ job'[j].mode = job[j].mode
        /\ job'[j].ckpt = job[j].ckpt /\ job'[j].avail = job[j].avail
    BY <1>t, <1>r, <2>1 DEF JobRecord
  <2> QED BY <1>k, <2>1, <2>2 DEF Active
<1>2. CASE Config_backup(j)
  BY <1>t, <1>r, <1>k, <1>s, <1>2
     DEF Config_backup, Active, RecordShape, ServiceShape, At, Saved, Switched, Copied
<1>3. CASE Stop(j) BY <1>t, <1>r, <1>k, <1>3 DEF Stop, Active
<1>4. CASE Backup_sqlite(j) BY <1>t, <1>r, <1>k, <1>4 DEF Backup_sqlite, Active
<1>5. CASE Checkpoint(j)
  BY <1>t, <1>r, <1>k, <1>s, <1>5
     DEF Checkpoint, Save, Active, JobRecord, RecordShape, ServiceShape, At, Saved,
         Switched, Copied
<1>6. CASE Initialize_stage(j) BY <1>t, <1>r, <1>k, <1>6 DEF Initialize_stage, Active
<1>7. CASE Prepare_service_schema(j)
  BY <1>t, <1>r, <1>k, <1>7 DEF Prepare_service_schema, Started, Active
<1>8. CASE Schema_done(j) BY <1>t, <1>r, <1>k, <1>8 DEF Schema_done, Active
<1>9. CASE Switch(j) BY <1>t, <1>r, <1>k, <1>9
                        DEF Switch, Started, Selected, Set_database_entries, Clone_database,
                            Active
<1>10. CASE Prepare_target_for_import(j)
  BY <1>t, <1>r, <1>k, <1>10 DEF Prepare_target_for_import, Imported, Active
<1>11. CASE Converted_import_batches(j)
  BY <1>t, <1>r, <1>k, <1>11 DEF Converted_import_batches, Imported, Active
<1>12. CASE Reset_postgres_sequences(j)
  BY <1>t, <1>r, <1>k, <1>12 DEF Reset_postgres_sequences, Imported, Active
<1>13. CASE Validate_row_counts(j)
  BY <1>t, <1>r, <1>k, <1>13 DEF Validate_row_counts, Compare, Active
<1>14. CASE Validate_digests(j)
  BY <1>t, <1>r, <1>k, <1>14 DEF Validate_digests, Compare, Active
<1>15. CASE Validate_postgres_foreign_keys(j)
  BY <1>t, <1>r, <1>k, <1>15 DEF Validate_postgres_foreign_keys, Compare, Active
<1>16. CASE Validate_infinidysk_postgres_schema(j)
  BY <1>t, <1>r, <1>k, <1>16 DEF Validate_infinidysk_postgres_schema, Compare, Active
<1>17. CASE Validate(j) BY <1>t, <1>r, <1>k, <1>17 DEF Validate, Compare, Active
<1>18. CASE Drop_stage(j)
  BY <1>t, <1>r, <1>k, <1>18 DEF Drop_stage, Save, Active, JobRecord
<1>19. CASE Apply_database_config(j)
  BY <1>t, <1>r, <1>k, <1>19 DEF Apply_database_config, Active
<1>20. CASE Start_postgres(j)
  BY <1>t, <1>r, <1>k, <1>20 DEF Start_postgres, Started, Selected, Active
<1>21. CASE Wait_for_running_service(j)
  BY <1>t, <1>r, <1>k, <1>21 DEF Wait_for_running_service, Active
<1>22. CASE Finalize(j) BY <1>t, <1>r, <1>k, <1>s, <1>22
                           DEF Finalize, Save, Active, JobRecord, RecordShape, ServiceShape,
                               At, Saved, Switched, Copied
<1>23. CASE Record_completion(j) BY <1>t, <1>r, <1>k, <1>23 DEF Record_completion, Active
<1>24. CASE Complete(j) BY <1>t, <1>r, <1>k, <1>s, <1>24
                           DEF Complete, Save, Active, JobRecord, RecordShape,
                               ServiceShape, At, Saved, Switched, Copied
<1>25. CASE Except(j) BY <1>t, <1>r, <1>k, <1>25 DEF Except, Save, Active, JobRecord
<1>26. CASE R_stop(j) BY <1>t, <1>r, <1>k, <1>26 DEF R_stop, Active
<1>27. CASE R_data(j) BY <1>t, <1>r, <1>k, <1>27 DEF R_data, Active
<1>28. CASE R_config(j) BY <1>t, <1>r, <1>k, <1>28 DEF R_config, Active
<1>29. CASE Restore_database_entries(j)
  BY <1>t, <1>r, <1>k, <1>29 DEF Restore_database_entries, Active
<1>30. CASE Clear_authorization(j)
  BY <1>t, <1>r, <1>k, <1>30 DEF Clear_authorization, Active
<1>31. CASE R_start(j) BY <1>t, <1>r, <1>k, <1>31 DEF R_start, Started, Selected, Active
<1>32. CASE R_healthy(j) BY <1>t, <1>r, <1>k, <1>32 DEF R_healthy, Active
<1>33. CASE Report(j) BY <1>t, <1>r, <1>k, <1>33
                         DEF Report, Reports, Save, Active, JobRecord, Reported
<1>34. CASE Failing(j) BY <1>t, <1>r, <1>k, <1>34 DEF Failing, Fault, Raise, Active
<1> QED BY <1>1, <1>2, <1>3, <1>4, <1>5, <1>6, <1>7, <1>8, <1>9, <1>10, <1>11, <1>12, <1>13,
           <1>14, <1>15, <1>16, <1>17, <1>18, <1>19, <1>20, <1>21, <1>22, <1>23, <1>24,
           <1>25, <1>26, <1>27, <1>28, <1>29, <1>30, <1>31, <1>32, <1>33, <1>34
           DEF Thread, JobStep, RestoreStep

\* A thread makes no job live but its own, which is.
LEMMA OneLiveStep ==
  ASSUME TypeOK, Sheltered(kind), OneAtWork, OneLive, InPlace, Shapes, Proper
  PROVE  OneLive'
<1> SUFFICES ASSUME Guarded PROVE OneLive'
  <2>1. kind' = kind \/ Guarded
    BY OthersAlone
       DEF Proper, Around, Create_job, Rollback_job, Lifecycle, Save_config, Write, Upgrade,
           Namespace, Restart, vars
  <2> QED BY <2>1 DEF OneLive, Guarded
<1> USE DEF Guarded
<1>t. job \in [Jobs -> JobRecord] /\ pc \in [Jobs -> PCs]
      /\ bk \in [Jobs -> {"none", "config", "full"}] /\ loc \in [Jobs -> Locals]
  BY DEF TypeOK
<1>1. ASSUME NEW j \in Jobs, NEW m \in {"rehearsal", "cutover"}, Create_job(j, m)
      PROVE  OneLive'
  <2>1. \A i \in Jobs : ~Live(i)
    BY <1>1
       DEF Create_job, Has_active_infinidysk_job, Preflight, Sqlite_mode, Live, OneLive,
           Kept
  <2>2. \A i \in Jobs \ {j} : UNCHANGED <<job[i], bk[i]>>
    BY <1>t, <1>1 DEF Create_job, Save
  <2>3. job'[j].status = "queued" /\ ~job'[j].ckpt
    BY <1>t, <1>1 DEF Create_job, Save, NoJob
  <2>4. UNCHANGED <<marker, disk, mem, kind>> BY <1>1 DEF Create_job, world
  <2>5. \A i \in Jobs \ {j} : ~Live(i)' /\ Kept(i)'
    BY <2>1, <2>2, <2>4 DEF OneLive, Kept, Live, Unresolved, Pending, Cutover
  <2>6. Kept(j)' BY <2>3 DEF Kept
  <2> QED BY <2>5, <2>6 DEF OneLive
<1>2. ASSUME NEW j \in Jobs, Thread(j) PROVE OneLive'
  <2>1. Live(j) /\ \A i \in Jobs \ {j} : ~Live(i)
    BY <1>2, OthersAlone DEF OneAtWork, Works, OneLive, Live, Unresolved
  <2>2. \A i \in Jobs \ {j} : ~Live(i)' /\ Kept(i)'
    BY <1>2, <2>1, OthersAlone DEF OneLive, Kept, Live, Unresolved, Pending, Cutover
  <2>3. Kept(j)' BY <1>2, KeptStep
  <2> QED BY <2>2, <2>3 DEF OneLive
<1>3. ASSUME NEW j \in Jobs, Rollback_job(j) PROVE OneLive'
  <2>1. Live(j)
    BY <1>3 DEF Rollback_job, Reserve_rollback, Live, Unresolved, Pending, Active
  <2>2. \A i \in Jobs \ {j} : UNCHANGED <<job[i], bk[i]>>
    BY <1>t, <1>3 DEF Rollback_job, Reserve_rollback, Save
  <2>3. job' = [job EXCEPT ![j] = [job[j] EXCEPT !.status = "rolling_back"]]
    BY <1>3 DEF Rollback_job, Reserve_rollback, Save
  <2>4. UNCHANGED <<marker, disk, mem, kind, bk>> /\ job[j].avail
    BY <1>3 DEF Rollback_job, Reserve_rollback, world
  <2>5. \A i \in Jobs \ {j} : ~Live(i)' /\ Kept(i)'
    BY <2>1, <2>2, <2>4 DEF OneLive, Kept, Live, Unresolved, Pending, Cutover
  <2>6. Kept(j)' BY <1>t, <2>3, <2>4 DEF OneLive, Kept, Cutover, JobRecord
  <2> QED BY <2>5, <2>6 DEF OneLive
<1>4. ASSUME UNCHANGED <<job, bk, marker, mem>>, disk' = disk \/ disk' = mem PROVE OneLive'
  BY <1>4 DEF OneLive, Kept, Live, Unresolved, Pending, Cutover
<1>5. CASE Lifecycle BY <1>4, <1>5 DEF Lifecycle, records
<1>6. CASE Save_config BY <1>4, <1>6 DEF Save_config, records
<1>7. CASE Write BY <1>4, <1>7 DEF Write, records, world
<1>8. CASE Upgrade BY <1>4, <1>8 DEF Upgrade, records, world
<1>9. CASE Namespace BY <1>4, <1>9 DEF Namespace, records, world
<1>10. CASE Restart
  <2>1. \A i \in Jobs : job'[i] = Seen(job[i]) BY <1>t, <1>10 DEF Restart
  <2>2. UNCHANGED <<bk, marker>> /\ disk' = disk /\ mem' = disk
    BY <1>10 DEF Restart, Adopted
  <2>3. ASSUME NEW i \in Jobs
        PROVE  (Live(i)' => Live(i)) /\ Kept(i)'
    <3>1. job[i] \in JobRecord /\ job'[i] = Seen(job[i]) BY <1>t, <2>1
    <3>2. /\ job'[i].mode = job[i].mode /\ job'[i].ckpt = job[i].ckpt
          /\ job'[i].avail = job[i].avail /\ job'[i].status \notin Active
          /\ \/ job'[i].status = job[i].status
             \/ job[i].status \in Active /\ job'[i].status = "interrupted"
      <4>1. CASE job[i].status \in Active
        <5>1. job'[i] = [job[i] EXCEPT !.status = "interrupted"]
          BY <3>1, <4>1 DEF Seen
        <5>2. /\ job'[i].mode = job[i].mode /\ job'[i].ckpt = job[i].ckpt
              /\ job'[i].avail = job[i].avail /\ job'[i].status = "interrupted"
          BY <3>1, <5>1 DEF JobRecord
        <5> QED BY <4>1, <5>2 DEF Active
      <4>2. CASE job[i].status \notin Active BY <3>1, <4>2 DEF Seen
      <4> QED BY <4>1, <4>2
    <3>3. Live(i)' => Live(i)
      BY <3>2 DEF Live, Unresolved, Pending, Cutover, Active
    <3>4. Kept(i)' BY <2>2, <3>2 DEF OneLive, Kept, Cutover, Active
    <3> QED BY <3>3, <3>4
  <2> QED BY <2>3 DEF OneLive
<1>11. CASE UNCHANGED vars BY <1>4, <1>11 DEF vars, records, world
<1> QED
  BY <1>1, <1>2, <1>3, <1>5, <1>6, <1>7, <1>8, <1>9, <1>10, <1>11 DEF Proper, Around

\* What a job is and what its record says.
LEMMA RecordStep ==
  ASSUME TypeOK, Sheltered(kind), OneAtWork, OneLive, TakenIsHeld, InPlace, Shapes,
         NEW j \in Jobs, Thread(j)
  PROVE  RecordShape(j)'
<1> USE DEF world, records, bounds, Guarded, RecordShape, Cutover, Importing, Saved,
            Copied, Before, Switched
<1>t. job \in [Jobs -> JobRecord] /\ pc \in [Jobs -> PCs] /\ loc \in [Jobs -> Locals]
      /\ bk \in [Jobs -> {"none", "config", "full"}]
  BY DEF TypeOK
<1>r. job[j] \in JobRecord /\ loc[j] \in Locals BY <1>t
<1>s. RecordShape(j) BY DEF Shapes, Shaped
<1>1. CASE Begin(j)
  BY <1>t, <1>r, <1>s, <1>1 DEF Begin, Save, Goto, At, JobRecord, Locals
<1>2. CASE Config_backup(j)
  BY <1>t, <1>r, <1>s, <1>2 DEF Config_backup, Goto, At
<1>3. CASE Stop(j)
  BY <1>t, <1>r, <1>s, <1>3 DEF Stop, Goto, At, Locals
<1>4. CASE Backup_sqlite(j)
  BY <1>t, <1>r, <1>s, <1>4 DEF Backup_sqlite, Goto, At
<1>5. CASE Checkpoint(j)
  BY <1>t, <1>r, <1>s, <1>5 DEF Checkpoint, Save, Goto, At, JobRecord
<1>6. CASE Initialize_stage(j)
  BY <1>t, <1>r, <1>s, <1>6 DEF Initialize_stage, Goto, At
<1>7. CASE Prepare_service_schema(j)
  BY <1>t, <1>r, <1>s, <1>7 DEF Prepare_service_schema, Started, Goto, At
<1>8. CASE Schema_done(j)
  BY <1>t, <1>r, <1>s, <1>8 DEF Schema_done, Goto, At
<1>9. CASE Switch(j)
  BY <1>t, <1>r, <1>s, <1>9
     DEF Switch, Started, Selected, Set_database_entries, Clone_database, Goto, At, Locals
<1>10. CASE Prepare_target_for_import(j)
  BY <1>t, <1>r, <1>s, <1>10 DEF Prepare_target_for_import, Imported, Goto, At, Locals
<1>11. CASE Converted_import_batches(j)
  BY <1>t, <1>r, <1>s, <1>11 DEF Converted_import_batches, Imported, Goto, At, Locals
<1>12. CASE Reset_postgres_sequences(j)
  BY <1>t, <1>r, <1>s, <1>12 DEF Reset_postgres_sequences, Imported, Goto, At, Locals
<1>13. CASE Validate_row_counts(j)
  BY <1>t, <1>r, <1>s, <1>13 DEF Validate_row_counts, Compare, Goto, At
<1>14. CASE Validate_digests(j)
  BY <1>t, <1>r, <1>s, <1>14 DEF Validate_digests, Compare, Goto, At
<1>15. CASE Validate_postgres_foreign_keys(j)
  BY <1>t, <1>r, <1>s, <1>15 DEF Validate_postgres_foreign_keys, Compare, Goto, At
<1>16. CASE Validate_infinidysk_postgres_schema(j)
  BY <1>t, <1>r, <1>s, <1>16 DEF Validate_infinidysk_postgres_schema, Compare, Goto, At
<1>17. CASE Validate(j)
  BY <1>t, <1>r, <1>s, <1>17 DEF Validate, Compare, Goto, At
<1>18. CASE Drop_stage(j)
  BY <1>t, <1>r, <1>s, <1>18 DEF Drop_stage, Save, Goto, At, JobRecord, NoLocals
<1>19. CASE Apply_database_config(j)
  BY <1>t, <1>r, <1>s, <1>19 DEF Apply_database_config, Goto, At
<1>20. CASE Start_postgres(j)
  BY <1>t, <1>r, <1>s, <1>20 DEF Start_postgres, Started, Selected, Goto, At
<1>21. CASE Wait_for_running_service(j)
  BY <1>t, <1>r, <1>s, <1>21 DEF Wait_for_running_service, Goto, At
<1>22. CASE Finalize(j)
  BY <1>t, <1>r, <1>s, <1>22 DEF Finalize, Save, Goto, At, JobRecord
<1>23. CASE Record_completion(j)
  BY <1>t, <1>r, <1>s, <1>23 DEF Record_completion, Goto, At
<1>24. CASE Complete(j)
  BY <1>t, <1>r, <1>s, <1>24 DEF Complete, Save, Goto, At, JobRecord, NoLocals
<1>25. CASE Except(j)
  BY <1>t, <1>r, <1>s, <1>25 DEF Except, Save, Goto, At, JobRecord, Locals
<1>26. CASE R_stop(j)
  BY <1>t, <1>r, <1>s, <1>26 DEF R_stop, Goto, At
<1>27. CASE R_data(j)
  BY <1>t, <1>r, <1>s, <1>27 DEF R_data, Goto, At, Locals
<1>28. CASE R_config(j)
  BY <1>t, <1>r, <1>s, <1>28 DEF R_config, Goto, At, Locals
<1>29. CASE Restore_database_entries(j)
  BY <1>t, <1>r, <1>s, <1>29 DEF Restore_database_entries, Goto, At, Locals
<1>30. CASE Clear_authorization(j)
  BY <1>t, <1>r, <1>s, <1>30 DEF Clear_authorization, Goto, At, Locals
<1>31. CASE R_start(j)
  BY <1>t, <1>r, <1>s, <1>31 DEF R_start, Started, Selected, Goto, At
<1>32. CASE R_healthy(j)
  BY <1>t, <1>r, <1>s, <1>32 DEF R_healthy, Goto, At, Locals
<1>33. CASE Report(j)
  BY <1>t, <1>r, <1>s, <1>33 DEF Report, Reports, Save, Goto, At, JobRecord, Reported, NoLocals
<1>34. CASE Failing(j)
  BY <1>t, <1>r, <1>s, <1>34 DEF Failing, Fault, Raise, Goto, At, Locals, NoLocals
<1> QED BY <1>1, <1>2, <1>3, <1>4, <1>5, <1>6, <1>7, <1>8, <1>9, <1>10, <1>11, <1>12, <1>13,
           <1>14, <1>15, <1>16, <1>17, <1>18, <1>19, <1>20, <1>21, <1>22, <1>23, <1>24,
           <1>25, <1>26, <1>27, <1>28, <1>29, <1>30, <1>31, <1>32, <1>33, <1>34
           DEF Thread, JobStep, RestoreStep

\* What a job imported.
LEMMA DataStep ==
  ASSUME TypeOK, Sheltered(kind), OneAtWork, OneLive, TakenIsHeld, InPlace, Shapes,
         NEW j \in Jobs, Thread(j)
  PROVE  DataShape(j)'
<1> USE DEF world, records, bounds, Guarded, DataShape, Cutover, Importing
<1>t. job \in [Jobs -> JobRecord] /\ pc \in [Jobs -> PCs] /\ loc \in [Jobs -> Locals]
      /\ bk \in [Jobs -> {"none", "config", "full"}]
  BY DEF TypeOK
<1>r. job[j] \in JobRecord /\ loc[j] \in Locals BY <1>t
<1>s. DataShape(j) /\ RecordShape(j) BY DEF Shapes, Shaped
<1>1. CASE Begin(j)
  BY <1>t, <1>r, <1>s, <1>1 DEF Begin, Save, Goto, At, JobRecord, Locals
<1>2. CASE Config_backup(j)
  BY <1>t, <1>r, <1>s, <1>2 DEF Config_backup, Goto, At
<1>3. CASE Stop(j)
  BY <1>t, <1>r, <1>s, <1>3 DEF Stop, Goto, At, Locals
<1>4. CASE Backup_sqlite(j)
  BY <1>t, <1>r, <1>s, <1>4 DEF Backup_sqlite, Goto, At
<1>5. CASE Checkpoint(j)
  BY <1>t, <1>r, <1>s, <1>5 DEF Checkpoint, Save, Goto, At, JobRecord
<1>6. CASE Initialize_stage(j)
  BY <1>t, <1>r, <1>s, <1>6 DEF Initialize_stage, Goto, At
<1>7. CASE Prepare_service_schema(j)
  BY <1>t, <1>r, <1>s, <1>7 DEF Prepare_service_schema, Started, Goto, At
<1>8. CASE Schema_done(j)
  BY <1>t, <1>r, <1>s, <1>8 DEF Schema_done, Goto, At
<1>9. CASE Switch(j)
  BY <1>t, <1>r, <1>s, <1>9
     DEF Switch, Started, Selected, Set_database_entries, Clone_database, Goto, At, Locals
<1>10. CASE Prepare_target_for_import(j)
  BY <1>t, <1>r, <1>s, <1>10 DEF Prepare_target_for_import, Imported, Goto, At, Locals
<1>11. CASE Converted_import_batches(j)
  BY <1>t, <1>r, <1>s, <1>11 DEF Converted_import_batches, Imported, Goto, At, Locals
<1>12. CASE Reset_postgres_sequences(j)
  BY <1>t, <1>r, <1>s, <1>12 DEF Reset_postgres_sequences, Imported, Goto, At, Locals
<1>13. CASE Validate_row_counts(j)
  BY <1>t, <1>r, <1>s, <1>13 DEF Validate_row_counts, Compare, Goto, At
<1>14. CASE Validate_digests(j)
  BY <1>t, <1>r, <1>s, <1>14 DEF Validate_digests, Compare, Goto, At
<1>15. CASE Validate_postgres_foreign_keys(j)
  BY <1>t, <1>r, <1>s, <1>15 DEF Validate_postgres_foreign_keys, Compare, Goto, At
<1>16. CASE Validate_infinidysk_postgres_schema(j)
  BY <1>t, <1>r, <1>s, <1>16 DEF Validate_infinidysk_postgres_schema, Compare, Goto, At
<1>17. CASE Validate(j)
  BY <1>t, <1>r, <1>s, <1>17 DEF Validate, Compare, Goto, At
<1>18. CASE Drop_stage(j)
  BY <1>t, <1>r, <1>s, <1>18 DEF Drop_stage, Save, Goto, At, JobRecord, NoLocals
<1>19. CASE Apply_database_config(j)
  BY <1>t, <1>r, <1>s, <1>19 DEF Apply_database_config, Goto, At
<1>20. CASE Start_postgres(j)
  BY <1>t, <1>r, <1>s, <1>20 DEF Start_postgres, Started, Selected, Goto, At
<1>21. CASE Wait_for_running_service(j)
  BY <1>t, <1>r, <1>s, <1>21 DEF Wait_for_running_service, Goto, At
<1>22. CASE Finalize(j)
  BY <1>t, <1>r, <1>s, <1>22 DEF Finalize, Save, Goto, At, JobRecord
<1>23. CASE Record_completion(j)
  BY <1>t, <1>r, <1>s, <1>23 DEF Record_completion, Goto, At
<1>24. CASE Complete(j)
  BY <1>t, <1>r, <1>s, <1>24 DEF Complete, Save, Goto, At, JobRecord, NoLocals
<1>25. CASE Except(j)
  BY <1>t, <1>r, <1>s, <1>25 DEF Except, Save, Goto, At, JobRecord, Locals
<1>26. CASE R_stop(j)
  BY <1>t, <1>r, <1>s, <1>26 DEF R_stop, Goto, At
<1>27. CASE R_data(j)
  BY <1>t, <1>r, <1>s, <1>27 DEF R_data, Goto, At, Locals
<1>28. CASE R_config(j)
  BY <1>t, <1>r, <1>s, <1>28 DEF R_config, Goto, At, Locals
<1>29. CASE Restore_database_entries(j)
  BY <1>t, <1>r, <1>s, <1>29 DEF Restore_database_entries, Goto, At, Locals
<1>30. CASE Clear_authorization(j)
  BY <1>t, <1>r, <1>s, <1>30 DEF Clear_authorization, Goto, At, Locals
<1>31. CASE R_start(j)
  BY <1>t, <1>r, <1>s, <1>31 DEF R_start, Started, Selected, Goto, At
<1>32. CASE R_healthy(j)
  BY <1>t, <1>r, <1>s, <1>32 DEF R_healthy, Goto, At, Locals
<1>33. CASE Report(j)
  BY <1>t, <1>r, <1>s, <1>33 DEF Report, Reports, Save, Goto, At, JobRecord, Reported, NoLocals
<1>34. CASE Failing(j)
  BY <1>t, <1>r, <1>s, <1>34 DEF Failing, Fault, Raise, Goto, At, Locals, NoLocals
<1> QED BY <1>1, <1>2, <1>3, <1>4, <1>5, <1>6, <1>7, <1>8, <1>9, <1>10, <1>11, <1>12, <1>13,
           <1>14, <1>15, <1>16, <1>17, <1>18, <1>19, <1>20, <1>21, <1>22, <1>23, <1>24,
           <1>25, <1>26, <1>27, <1>28, <1>29, <1>30, <1>31, <1>32, <1>33, <1>34
           DEF Thread, JobStep, RestoreStep

\* Where the service is while a job is under way.
LEMMA ServiceStep ==
  ASSUME TypeOK, Sheltered(kind), OneAtWork, OneLive, TakenIsHeld, InPlace, Shapes,
         NEW j \in Jobs, Thread(j)
  PROVE  ServiceShape(j)'
<1> USE DEF world, records, bounds, Guarded, ServiceShape, Cutover, Importing, Saved,
            Copied, Before, Switched
<1>t. job \in [Jobs -> JobRecord] /\ pc \in [Jobs -> PCs] /\ loc \in [Jobs -> Locals]
      /\ bk \in [Jobs -> {"none", "config", "full"}]
  BY DEF TypeOK
<1>r. job[j] \in JobRecord /\ loc[j] \in Locals BY <1>t
<1>s. ServiceShape(j) /\ RecordShape(j) BY DEF Shapes, Shaped
<1>1. CASE Begin(j)
  BY <1>t, <1>r, <1>s, <1>1 DEF Begin, Save, Goto, At, JobRecord, Locals
<1>2. CASE Config_backup(j)
  BY <1>t, <1>r, <1>s, <1>2 DEF Config_backup, Goto, At
<1>3. CASE Stop(j)
  BY <1>t, <1>r, <1>s, <1>3 DEF Stop, Goto, At, Locals
<1>4. CASE Backup_sqlite(j)
  BY <1>t, <1>r, <1>s, <1>4 DEF Backup_sqlite, Goto, At
<1>5. CASE Checkpoint(j)
  BY <1>t, <1>r, <1>s, <1>5 DEF Checkpoint, Save, Goto, At, JobRecord
<1>6. CASE Initialize_stage(j)
  BY <1>t, <1>r, <1>s, <1>6 DEF Initialize_stage, Goto, At
<1>7. CASE Prepare_service_schema(j)
  BY <1>t, <1>r, <1>s, <1>7 DEF Prepare_service_schema, Started, Goto, At
<1>8. CASE Schema_done(j)
  <2>1. CASE Guarded
    BY <1>t, <1>r, <1>s, <1>8, <2>1 DEF Schema_done, Goto, At
  <2>2. CASE ~Guarded
    BY <1>t, <1>r, <1>s, <1>8, <2>2 DEF Schema_done, Goto, At
  <2> QED BY <2>1, <2>2
<1>9. CASE Switch(j)
  BY <1>t, <1>r, <1>s, <1>9
     DEF Switch, Started, Selected, Set_database_entries, Clone_database, Goto, At, Locals
<1>10. CASE Prepare_target_for_import(j)
  BY <1>t, <1>r, <1>s, <1>10 DEF Prepare_target_for_import, Imported, Goto, At, Locals
<1>11. CASE Converted_import_batches(j)
  BY <1>t, <1>r, <1>s, <1>11 DEF Converted_import_batches, Imported, Goto, At, Locals
<1>12. CASE Reset_postgres_sequences(j)
  BY <1>t, <1>r, <1>s, <1>12 DEF Reset_postgres_sequences, Imported, Goto, At, Locals
<1>13. CASE Validate_row_counts(j)
  BY <1>t, <1>r, <1>s, <1>13 DEF Validate_row_counts, Compare, Goto, At
<1>14. CASE Validate_digests(j)
  BY <1>t, <1>r, <1>s, <1>14 DEF Validate_digests, Compare, Goto, At
<1>15. CASE Validate_postgres_foreign_keys(j)
  BY <1>t, <1>r, <1>s, <1>15 DEF Validate_postgres_foreign_keys, Compare, Goto, At
<1>16. CASE Validate_infinidysk_postgres_schema(j)
  BY <1>t, <1>r, <1>s, <1>16 DEF Validate_infinidysk_postgres_schema, Compare, Goto, At
<1>17. CASE Validate(j)
  BY <1>t, <1>r, <1>s, <1>17 DEF Validate, Compare, Goto, At
<1>18. CASE Drop_stage(j)
  BY <1>t, <1>r, <1>s, <1>18 DEF Drop_stage, Save, Goto, At, JobRecord, NoLocals
<1>19. CASE Apply_database_config(j)
  BY <1>t, <1>r, <1>s, <1>19 DEF Apply_database_config, Goto, At
<1>20. CASE Start_postgres(j)
  <2>1. pc[j] = "start" /\ up = "down" /\ mem = "postgres" /\ disk = "postgres"
    BY <1>s, <1>20 DEF Start_postgres, At, RecordShape
  <2>2. CASE pc'[j] = "healthy"
    <3>1. up' = mem /\ UNCHANGED <<kind, disk, mem, marker>>
      BY <1>t, <1>20, <2>1, <2>2 DEF Start_postgres, Started, Selected, Goto
    <3> QED BY <2>1, <2>2, <3>1
  <2>3. CASE pc'[j] # "healthy"
    <3>1. pc'[j] = "except" BY <1>t, <1>20, <2>3 DEF Start_postgres, Goto
    <3> QED BY <3>1
  <2> QED BY <2>2, <2>3
<1>21. CASE Wait_for_running_service(j)
  BY <1>t, <1>r, <1>s, <1>21 DEF Wait_for_running_service, Goto, At
<1>22. CASE Finalize(j)
  BY <1>t, <1>r, <1>s, <1>22 DEF Finalize, Save, Goto, At, JobRecord
<1>23. CASE Record_completion(j)
  BY <1>t, <1>r, <1>s, <1>23 DEF Record_completion, Goto, At
<1>24. CASE Complete(j)
  BY <1>t, <1>r, <1>s, <1>24 DEF Complete, Save, Goto, At, JobRecord, NoLocals
<1>25. CASE Except(j)
  BY <1>t, <1>r, <1>s, <1>25 DEF Except, Save, Goto, At, JobRecord, Locals
<1>26. CASE R_stop(j)
  BY <1>t, <1>r, <1>s, <1>26 DEF R_stop, Goto, At
<1>27. CASE R_data(j)
  BY <1>t, <1>r, <1>s, <1>27 DEF R_data, Goto, At, Locals
<1>28. CASE R_config(j)
  BY <1>t, <1>r, <1>s, <1>28 DEF R_config, Goto, At, Locals
<1>29. CASE Restore_database_entries(j)
  BY <1>t, <1>r, <1>s, <1>29 DEF Restore_database_entries, Goto, At, Locals
<1>30. CASE Clear_authorization(j)
  BY <1>t, <1>r, <1>s, <1>30 DEF Clear_authorization, Goto, At, Locals
<1>31. CASE R_start(j)
  BY <1>t, <1>r, <1>s, <1>31 DEF R_start, Started, Selected, Goto, At
<1>32. CASE R_healthy(j)
  BY <1>t, <1>r, <1>s, <1>32 DEF R_healthy, Goto, At, Locals
<1>33. CASE Report(j)
  BY <1>t, <1>r, <1>s, <1>33 DEF Report, Reports, Save, Goto, At, JobRecord, Reported, NoLocals
<1>34. CASE Failing(j)
  BY <1>t, <1>r, <1>s, <1>34 DEF Failing, Fault, Raise, Goto, At, Locals, NoLocals
<1> QED BY <1>1, <1>2, <1>3, <1>4, <1>5, <1>6, <1>7, <1>8, <1>9, <1>10, <1>11, <1>12, <1>13,
           <1>14, <1>15, <1>16, <1>17, <1>18, <1>19, <1>20, <1>21, <1>22, <1>23, <1>24,
           <1>25, <1>26, <1>27, <1>28, <1>29, <1>30, <1>31, <1>32, <1>33, <1>34
           DEF Thread, JobStep, RestoreStep

\* How far a job is on the way back.
LEMMA BackStep ==
  ASSUME TypeOK, Sheltered(kind), OneAtWork, OneLive, TakenIsHeld, InPlace, Shapes,
         NEW j \in Jobs, Thread(j)
  PROVE  BackShape(j)'
<1> USE DEF world, records, bounds, Guarded, BackShape, Cutover, OnSqlite, Works, Leaving,
            Restore, Forward
<1>t. job \in [Jobs -> JobRecord] /\ pc \in [Jobs -> PCs] /\ loc \in [Jobs -> Locals]
      /\ bk \in [Jobs -> {"none", "config", "full"}]
  BY DEF TypeOK
<1>r. job[j] \in JobRecord /\ loc[j] \in Locals BY <1>t
<1>s. BackShape(j) /\ RecordShape(j) BY DEF Shapes, Shaped
<1>1. CASE Begin(j)
  BY <1>t, <1>r, <1>s, <1>1 DEF Begin, Save, Goto, At, JobRecord, Locals
<1>2. CASE Config_backup(j)
  BY <1>t, <1>r, <1>s, <1>2 DEF Config_backup, Goto, At
<1>3. CASE Stop(j)
  BY <1>t, <1>r, <1>s, <1>3 DEF Stop, Goto, At, Locals
<1>4. CASE Backup_sqlite(j)
  BY <1>t, <1>r, <1>s, <1>4 DEF Backup_sqlite, Goto, At
<1>5. CASE Checkpoint(j)
  BY <1>t, <1>r, <1>s, <1>5 DEF Checkpoint, Save, Goto, At, JobRecord
<1>6. CASE Initialize_stage(j)
  BY <1>t, <1>r, <1>s, <1>6 DEF Initialize_stage, Goto, At
<1>7. CASE Prepare_service_schema(j)
  BY <1>t, <1>r, <1>s, <1>7 DEF Prepare_service_schema, Started, Goto, At
<1>8. CASE Schema_done(j)
  BY <1>t, <1>r, <1>s, <1>8 DEF Schema_done, Goto, At
<1>9. CASE Switch(j)
  BY <1>t, <1>r, <1>s, <1>9
     DEF Switch, Started, Selected, Set_database_entries, Clone_database, Goto, At, Locals
<1>10. CASE Prepare_target_for_import(j)
  BY <1>t, <1>r, <1>s, <1>10 DEF Prepare_target_for_import, Imported, Goto, At, Locals
<1>11. CASE Converted_import_batches(j)
  BY <1>t, <1>r, <1>s, <1>11 DEF Converted_import_batches, Imported, Goto, At, Locals
<1>12. CASE Reset_postgres_sequences(j)
  BY <1>t, <1>r, <1>s, <1>12 DEF Reset_postgres_sequences, Imported, Goto, At, Locals
<1>13. CASE Validate_row_counts(j)
  BY <1>t, <1>r, <1>s, <1>13 DEF Validate_row_counts, Compare, Goto, At
<1>14. CASE Validate_digests(j)
  BY <1>t, <1>r, <1>s, <1>14 DEF Validate_digests, Compare, Goto, At
<1>15. CASE Validate_postgres_foreign_keys(j)
  BY <1>t, <1>r, <1>s, <1>15 DEF Validate_postgres_foreign_keys, Compare, Goto, At
<1>16. CASE Validate_infinidysk_postgres_schema(j)
  BY <1>t, <1>r, <1>s, <1>16 DEF Validate_infinidysk_postgres_schema, Compare, Goto, At
<1>17. CASE Validate(j)
  BY <1>t, <1>r, <1>s, <1>17 DEF Validate, Compare, Goto, At
<1>18. CASE Drop_stage(j)
  BY <1>t, <1>r, <1>s, <1>18 DEF Drop_stage, Save, Goto, At, JobRecord, NoLocals
<1>19. CASE Apply_database_config(j)
  BY <1>t, <1>r, <1>s, <1>19 DEF Apply_database_config, Goto, At
<1>20. CASE Start_postgres(j)
  BY <1>t, <1>r, <1>s, <1>20 DEF Start_postgres, Started, Selected, Goto, At
<1>21. CASE Wait_for_running_service(j)
  BY <1>t, <1>r, <1>s, <1>21 DEF Wait_for_running_service, Goto, At
<1>22. CASE Finalize(j)
  BY <1>t, <1>r, <1>s, <1>22 DEF Finalize, Save, Goto, At, JobRecord
<1>23. CASE Record_completion(j)
  BY <1>t, <1>r, <1>s, <1>23 DEF Record_completion, Goto, At
<1>24. CASE Complete(j)
  BY <1>t, <1>r, <1>s, <1>24 DEF Complete, Save, Goto, At, JobRecord, NoLocals
<1>25. CASE Except(j)
  <2>1. CASE loc' = [loc EXCEPT ![j].restored = TRUE] /\ bk[j] # "none"
    <3>1. Guarded /\ (~Cutover(j) \/ ~job[j].ckpt) /\ UNCHANGED <<kind, world, bk>>
      BY <1>t, <1>r, <1>25, <2>1 DEF Except, Locals
    <3>2. Live(j) BY <3>1, OthersAlone DEF OneAtWork, Works, Live, Unresolved
    <3>3. ~Taken BY <3>1, <3>2 DEF TakenIsHeld, OneLive, Holder
    <3>4. OnSqlite /\ ~marker /\ up \in {"sqlite", "down"}
      BY <3>1, <3>3 DEF InPlace, Taken, TypeOK, Databases
    <3> QED BY <1>t, <1>r, <1>s, <1>25, <2>1, <3>1, <3>4 DEF Except, Goto, At, Locals
  <2>2. CASE ~(loc' = [loc EXCEPT ![j].restored = TRUE] /\ bk[j] # "none")
    BY <1>t, <1>r, <1>s, <1>25, <2>2 DEF Except, Goto, At, Locals
  <2> QED BY <2>1, <2>2
<1>26. CASE R_stop(j)
  BY <1>t, <1>r, <1>s, <1>26 DEF R_stop, Goto, At
<1>27. CASE R_data(j)
  BY <1>t, <1>r, <1>s, <1>27 DEF R_data, Goto, At, Locals
<1>28. CASE R_config(j)
  BY <1>t, <1>r, <1>s, <1>28 DEF R_config, Goto, At, Locals
<1>29. CASE Restore_database_entries(j)
  <2>1. ~Guarded => ~marker BY DEF InPlace
  <2> QED BY <1>t, <1>r, <1>s, <1>29, <2>1 DEF Restore_database_entries, Goto, At, Locals
<1>30. CASE Clear_authorization(j)
  BY <1>t, <1>r, <1>s, <1>30 DEF Clear_authorization, Goto, At, Locals
<1>31. CASE R_start(j)
  BY <1>t, <1>r, <1>s, <1>31 DEF R_start, Started, Selected, Goto, At
<1>32. CASE R_healthy(j)
  BY <1>t, <1>r, <1>s, <1>32 DEF R_healthy, Goto, At, Locals
<1>33. CASE Report(j)
  BY <1>t, <1>r, <1>s, <1>33 DEF Report, Reports, Save, Goto, At, JobRecord, Reported, NoLocals
<1>34. CASE Failing(j)
  BY <1>t, <1>r, <1>s, <1>34 DEF Failing, Fault, Raise, Goto, At, Locals, NoLocals
<1> QED BY <1>1, <1>2, <1>3, <1>4, <1>5, <1>6, <1>7, <1>8, <1>9, <1>10, <1>11, <1>12, <1>13,
           <1>14, <1>15, <1>16, <1>17, <1>18, <1>19, <1>20, <1>21, <1>22, <1>23, <1>24,
           <1>25, <1>26, <1>27, <1>28, <1>29, <1>30, <1>31, <1>32, <1>33, <1>34
           DEF Thread, JobStep, RestoreStep

\* A thread changes neither what its job is nor, once it has failed, that it has.
LEMMA StaysItself ==
  ASSUME TypeOK, NEW j \in Jobs, Thread(j)
  PROVE  /\ job'[j].mode = job[j].mode /\ job'[j].bind = job[j].bind
         /\ pc'[j] \in Forward => pc[j] \in Forward
<1> USE DEF world, records, bounds, Goto, At
<1>t. job \in [Jobs -> JobRecord] /\ pc \in [Jobs -> PCs] BY DEF TypeOK
<1>r. job[j] \in JobRecord BY <1>t
<1>1. CASE Begin(j) BY <1>t, <1>r, <1>1 DEF Begin, Save, Forward, JobRecord
<1>2. CASE Config_backup(j) BY <1>t, <1>r, <1>2 DEF Config_backup, Forward
<1>3. CASE Stop(j) BY <1>t, <1>r, <1>3 DEF Stop, Forward
<1>4. CASE Backup_sqlite(j) BY <1>t, <1>r, <1>4 DEF Backup_sqlite, Forward
<1>5. CASE Checkpoint(j) BY <1>t, <1>r, <1>5 DEF Checkpoint, Save, Forward, JobRecord
<1>6. CASE Initialize_stage(j) BY <1>t, <1>r, <1>6 DEF Initialize_stage, Forward
<1>7. CASE Prepare_service_schema(j)
  BY <1>t, <1>r, <1>7 DEF Prepare_service_schema, Started, Forward
<1>8. CASE Schema_done(j) BY <1>t, <1>r, <1>8 DEF Schema_done, Forward
<1>9. CASE Switch(j) BY <1>t, <1>r, <1>9
                        DEF Switch, Started, Selected, Set_database_entries, Clone_database,
                            Forward
<1>10. CASE Prepare_target_for_import(j)
  BY <1>t, <1>r, <1>10 DEF Prepare_target_for_import, Imported, Forward
<1>11. CASE Converted_import_batches(j)
  BY <1>t, <1>r, <1>11 DEF Converted_import_batches, Imported, Forward
<1>12. CASE Reset_postgres_sequences(j)
  BY <1>t, <1>r, <1>12 DEF Reset_postgres_sequences, Imported, Forward
<1>13. CASE Validate_row_counts(j)
  BY <1>t, <1>r, <1>13 DEF Validate_row_counts, Compare, Forward
<1>14. CASE Validate_digests(j) BY <1>t, <1>r, <1>14 DEF Validate_digests, Compare, Forward
<1>15. CASE Validate_postgres_foreign_keys(j)
  BY <1>t, <1>r, <1>15 DEF Validate_postgres_foreign_keys, Compare, Forward
<1>16. CASE Validate_infinidysk_postgres_schema(j)
  BY <1>t, <1>r, <1>16 DEF Validate_infinidysk_postgres_schema, Compare, Forward
<1>17. CASE Validate(j) BY <1>t, <1>r, <1>17 DEF Validate, Compare, Forward
<1>18. CASE Drop_stage(j) BY <1>t, <1>r, <1>18 DEF Drop_stage, Save, Forward, JobRecord
<1>19. CASE Apply_database_config(j) BY <1>t, <1>r, <1>19 DEF Apply_database_config, Forward
<1>20. CASE Start_postgres(j)
  BY <1>t, <1>r, <1>20 DEF Start_postgres, Started, Selected, Forward
<1>21. CASE Wait_for_running_service(j)
  BY <1>t, <1>r, <1>21 DEF Wait_for_running_service, Forward
<1>22. CASE Finalize(j) BY <1>t, <1>r, <1>22 DEF Finalize, Save, Forward, JobRecord
<1>23. CASE Record_completion(j) BY <1>t, <1>r, <1>23 DEF Record_completion, Forward
<1>24. CASE Complete(j) BY <1>t, <1>r, <1>24 DEF Complete, Save, Forward, JobRecord
<1>25. CASE Except(j) BY <1>t, <1>r, <1>25 DEF Except, Save, Forward, JobRecord
<1>26. CASE R_stop(j) BY <1>t, <1>r, <1>26 DEF R_stop, Forward
<1>27. CASE R_data(j) BY <1>t, <1>r, <1>27 DEF R_data, Forward
<1>28. CASE R_config(j) BY <1>t, <1>r, <1>28 DEF R_config, Forward
<1>29. CASE Restore_database_entries(j)
  BY <1>t, <1>r, <1>29 DEF Restore_database_entries, Forward
<1>30. CASE Clear_authorization(j) BY <1>t, <1>r, <1>30 DEF Clear_authorization, Forward
<1>31. CASE R_start(j) BY <1>t, <1>r, <1>31 DEF R_start, Started, Selected, Forward
<1>32. CASE R_healthy(j) BY <1>t, <1>r, <1>32 DEF R_healthy, Forward
<1>33. CASE Report(j) BY <1>t, <1>r, <1>33
                         DEF Report, Reports, Save, Forward, JobRecord, Reported
<1>34. CASE Failing(j) BY <1>t, <1>r, <1>34 DEF Failing, Fault, Raise, Forward
<1> QED BY <1>1, <1>2, <1>3, <1>4, <1>5, <1>6, <1>7, <1>8, <1>9, <1>10, <1>11, <1>12, <1>13,
           <1>14, <1>15, <1>16, <1>17, <1>18, <1>19, <1>20, <1>21, <1>22, <1>23, <1>24,
           <1>25, <1>26, <1>27, <1>28, <1>29, <1>30, <1>31, <1>32, <1>33, <1>34
           DEF Thread, JobStep, RestoreStep

\* The rehearsal a job of InfiniDysk goes by stays one.
LEMMA RehearsedStep ==
  ASSUME TypeOK, Sheltered(kind), OneAtWork, Shapes, NEW j \in Jobs, Thread(j)
  PROVE  Rehearsed(j)'
<1> SUFFICES ASSUME Guarded', pc'[j] \in Forward
             PROVE  /\ job'[j].bind = binding
                    /\ job'[j].mode = "cutover" => Matching_rehearsal(binding)'
  BY OthersAlone DEF Rehearsed, Cutover
<1>1. Guarded /\ pc[j] \in Forward BY OthersAlone, StaysItself DEF Guarded
<1>2. job[j].status \in Active /\ Rehearsed(j)
  BY <1>1, OthersAlone DEF OneAtWork, Works, Shapes, Shaped
<1>3. ASSUME job'[j].mode = "cutover" PROVE Matching_rehearsal(binding)'
  <2>1. PICK i \in Jobs : /\ job[i].status = "completed" /\ job[i].mode = "rehearsal"
                          /\ job[i].bind = binding
    BY <1>1, <1>2, <1>3, StaysItself DEF Rehearsed, Cutover, Matching_rehearsal
  <2>2. job'[i] = job[i] BY <1>2, <2>1, OthersAlone DEF Active
  <2> QED BY <2>1, <2>2, OthersAlone DEF Matching_rehearsal
<1> QED BY <1>1, <1>2, <1>3, StaysItself DEF Rehearsed

\* The databases that are selected while a job is under way.
LEMMA InPlaceThread ==
  ASSUME TypeOK, Sheltered(kind), OneAtWork, InPlace, Shapes, NEW j \in Jobs, Thread(j)
  PROVE  InPlace'
<1> USE DEF world, records, bounds, Guarded, InPlace, Trusted
<1>t. pc \in [Jobs -> PCs] /\ loc \in [Jobs -> Locals] /\ job \in [Jobs -> JobRecord]
      /\ bk \in [Jobs -> {"none", "config", "full"}]
  BY DEF TypeOK
<1>s. ServiceShape(j) /\ RecordShape(j) /\ DataShape(j) /\ BackShape(j)
  BY DEF Shapes, Shaped
<1>e. /\ mem = "stage" => bk[j] = "full" /\ pc[j] \in {"schema_done", "except"}
      /\ up = "stage" => bk[j] = "full" /\ pc[j] \in {"schema_done", "except", "r_stop"}
      /\ kind = "arr" /\ app = "stage" => bk[j] = "full" /\
           pc[j] \in {"schema_done", "except", "r_stop", "r_data", "r_config"}
  BY OthersAlone DEF OneAtWork, Works
<1>1. CASE Begin(j)
  BY <1>t, <1>e, <1>1 DEF Begin, Save, Goto, At
<1>2. CASE Config_backup(j)
  BY <1>t, <1>e, <1>2 DEF Config_backup, Goto, At
<1>3. CASE Stop(j)
  BY <1>t, <1>e, <1>3 DEF Stop, Goto, At
<1>4. CASE Backup_sqlite(j)
  BY <1>t, <1>e, <1>4 DEF Backup_sqlite, Goto, At
<1>5. CASE Checkpoint(j)
  BY <1>t, <1>e, <1>5 DEF Checkpoint, Save, Goto, At
<1>6. CASE Initialize_stage(j)
  BY <1>t, <1>e, <1>6 DEF Initialize_stage, Goto, At
<1>7. CASE Prepare_service_schema(j)
  BY <1>t, <1>e, <1>s, <1>7
     DEF Prepare_service_schema, Started, Goto, At, ServiceShape, RecordShape, DataShape,
         BackShape, Cutover, OnSqlite, Importing, Saved, Copied, Before, Switched
<1>8. CASE Schema_done(j)
  BY <1>t, <1>e, <1>s, <1>8
     DEF Schema_done, Goto, At, ServiceShape, RecordShape, DataShape, BackShape, Cutover,
         OnSqlite, Importing, Saved, Copied, Before, Switched
<1>9. CASE Switch(j)
  BY <1>t, <1>e, <1>s, <1>9
     DEF Switch, Started, Selected, Set_database_entries, Clone_database, Goto, At,
         ServiceShape, RecordShape, DataShape, BackShape, Cutover, OnSqlite, Importing,
         Saved, Copied, Before, Switched
<1>10. CASE Prepare_target_for_import(j)
  BY <1>t, <1>e, <1>s, <1>10
     DEF Prepare_target_for_import, Imported, Goto, At, ServiceShape, RecordShape,
         DataShape, BackShape, Cutover, OnSqlite, Importing, Saved, Copied, Before, Switched
<1>11. CASE Converted_import_batches(j)
  BY <1>t, <1>e, <1>s, <1>11
     DEF Converted_import_batches, Imported, Goto, At, ServiceShape, RecordShape, DataShape,
         BackShape, Cutover, OnSqlite, Importing, Saved, Copied, Before, Switched
<1>12. CASE Reset_postgres_sequences(j)
  BY <1>t, <1>e, <1>s, <1>12
     DEF Reset_postgres_sequences, Imported, Goto, At, ServiceShape, RecordShape, DataShape,
         BackShape, Cutover, OnSqlite, Importing, Saved, Copied, Before, Switched
<1>13. CASE Validate_row_counts(j)
  BY <1>t, <1>e, <1>13 DEF Validate_row_counts, Compare, Goto, At
<1>14. CASE Validate_digests(j)
  BY <1>t, <1>e, <1>14 DEF Validate_digests, Compare, Goto, At
<1>15. CASE Validate_postgres_foreign_keys(j)
  BY <1>t, <1>e, <1>15 DEF Validate_postgres_foreign_keys, Compare, Goto, At
<1>16. CASE Validate_infinidysk_postgres_schema(j)
  BY <1>t, <1>e, <1>16 DEF Validate_infinidysk_postgres_schema, Compare, Goto, At
<1>17. CASE Validate(j)
  BY <1>t, <1>e, <1>17 DEF Validate, Compare, Goto, At
<1>18. CASE Drop_stage(j)
  BY <1>t, <1>e, <1>18 DEF Drop_stage, Save, Goto, At
<1>19. CASE Apply_database_config(j)
  BY <1>t, <1>e, <1>s, <1>19
     DEF Apply_database_config, Goto, At, ServiceShape, RecordShape, DataShape, BackShape,
         Cutover, OnSqlite, Importing, Saved, Copied, Before, Switched
<1>20. CASE Start_postgres(j)
  BY <1>t, <1>e, <1>s, <1>20
     DEF Start_postgres, Started, Selected, Goto, At, ServiceShape, RecordShape, DataShape,
         BackShape, Cutover, OnSqlite, Importing, Saved, Copied, Before, Switched
<1>21. CASE Wait_for_running_service(j)
  BY <1>t, <1>e, <1>21 DEF Wait_for_running_service, Goto, At
<1>22. CASE Finalize(j)
  BY <1>t, <1>e, <1>22 DEF Finalize, Save, Goto, At
<1>23. CASE Record_completion(j)
  BY <1>t, <1>e, <1>s, <1>23
     DEF Record_completion, Goto, At, ServiceShape, RecordShape, DataShape, BackShape,
         Cutover, OnSqlite, Importing, Saved, Copied, Before, Switched
<1>24. CASE Complete(j)
  BY <1>t, <1>e, <1>24 DEF Complete, Save, Goto, At
<1>25. CASE Except(j)
  BY <1>t, <1>e, <1>25 DEF Except, Save, Goto, At
<1>26. CASE R_stop(j)
  BY <1>t, <1>e, <1>26 DEF R_stop, Goto, At
<1>27. CASE R_data(j)
  BY <1>t, <1>e, <1>27 DEF R_data, Goto, At
<1>28. CASE R_config(j)
  BY <1>t, <1>e, <1>28 DEF R_config, Goto, At
<1>29. CASE Restore_database_entries(j)
  BY <1>t, <1>e, <1>s, <1>29
     DEF Restore_database_entries, Goto, At, ServiceShape, RecordShape, DataShape,
         BackShape, Cutover, OnSqlite, Importing, Saved, Copied, Before, Switched
<1>30. CASE Clear_authorization(j)
  BY <1>t, <1>e, <1>30 DEF Clear_authorization, Goto, At
<1>31. CASE R_start(j)
  BY <1>t, <1>e, <1>s, <1>31
     DEF R_start, Started, Selected, Goto, At, ServiceShape, RecordShape, DataShape,
         BackShape, Cutover, OnSqlite, Importing, Saved, Copied, Before, Switched
<1>32. CASE R_healthy(j)
  BY <1>t, <1>e, <1>32 DEF R_healthy, Goto, At
<1>33. CASE Report(j)
  BY <1>t, <1>e, <1>33 DEF Report, Reports, Save, Goto, At
<1>34. CASE Failing(j)
  BY <1>t, <1>e, <1>34 DEF Failing, Fault, Raise, Goto, At, Sheltered, Forward, Restore
<1> QED BY <1>1, <1>2, <1>3, <1>4, <1>5, <1>6, <1>7, <1>8, <1>9, <1>10, <1>11, <1>12, <1>13,
           <1>14, <1>15, <1>16, <1>17, <1>18, <1>19, <1>20, <1>21, <1>22, <1>23, <1>24,
           <1>25, <1>26, <1>27, <1>28, <1>29, <1>30, <1>31, <1>32, <1>33, <1>34
           DEF Thread, JobStep, RestoreStep

\* A thread keeps hold of what it has to bring back.
LEMMA HeldThread ==
  ASSUME TypeOK, Guarded, OneAtWork, OneLive, TakenIsHeld, InPlace, Shapes,
         NEW j \in Jobs, Thread(j)
  PROVE  Taken' => Holder(j)'
<1> USE DEF world, records, bounds, Guarded, Taken
<1>t. pc \in [Jobs -> PCs] /\ loc \in [Jobs -> Locals] /\ job \in [Jobs -> JobRecord]
      /\ bk \in [Jobs -> {"none", "config", "full"}]
  BY DEF TypeOK
<1>r. job[j] \in JobRecord /\ loc[j] \in Locals BY <1>t
<1>s. ServiceShape(j) /\ RecordShape(j) /\ BackShape(j) BY DEF Shapes, Shaped
<1>a. job[j].status \in Active /\ Live(j)
  BY OthersAlone DEF OneAtWork, Works, Live, Unresolved
<1>h. Taken => /\ job[j].mode = "cutover" /\ job[j].ckpt /\ bk[j] = "full"
               /\ job[j].avail
  BY <1>a DEF TakenIsHeld, OneLive, Holder, Kept, Cutover
<1>1. CASE Begin(j)
  BY <1>t, <1>r, <1>a, <1>h, <1>1
     DEF Begin, Save, Goto, At, Holder, Live, Unresolved, Pending, Active, Cutover,
         JobRecord
<1>2. CASE Config_backup(j)
  BY <1>t, <1>r, <1>a, <1>h, <1>s, <1>2
     DEF Config_backup, Goto, At, Holder, Live, Unresolved, Pending, Active, Cutover,
         ServiceShape, RecordShape, BackShape, OnSqlite, Importing, Saved, Copied, Before,
         Switched
<1>3. CASE Stop(j)
  BY <1>t, <1>r, <1>a, <1>h, <1>3
     DEF Stop, Goto, At, Holder, Live, Unresolved, Pending, Active, Cutover
<1>4. CASE Backup_sqlite(j)
  BY <1>t, <1>r, <1>a, <1>h, <1>4
     DEF Backup_sqlite, Goto, At, Holder, Live, Unresolved, Pending, Active, Cutover
<1>5. CASE Checkpoint(j)
  BY <1>t, <1>r, <1>a, <1>h, <1>5
     DEF Checkpoint, Save, Goto, At, Holder, Live, Unresolved, Pending, Active, Cutover,
         JobRecord
<1>6. CASE Initialize_stage(j)
  BY <1>t, <1>r, <1>a, <1>h, <1>6
     DEF Initialize_stage, Goto, At, Holder, Live, Unresolved, Pending, Active, Cutover
<1>7. CASE Prepare_service_schema(j)
  BY <1>t, <1>r, <1>a, <1>h, <1>7
     DEF Prepare_service_schema, Started, Goto, At, Holder, Live, Unresolved, Pending,
         Active, Cutover
<1>8. CASE Schema_done(j)
  BY <1>t, <1>r, <1>a, <1>h, <1>8
     DEF Schema_done, Goto, At, Holder, Live, Unresolved, Pending, Active, Cutover
<1>9. CASE Switch(j)
  BY <1>t, <1>r, <1>a, <1>h, <1>s, <1>9
     DEF Switch, Started, Selected, Set_database_entries, Clone_database, Goto, At, Holder,
         Live, Unresolved, Pending, Active, Cutover, ServiceShape, RecordShape, BackShape,
         OnSqlite, Importing, Saved, Copied, Before, Switched
<1>10. CASE Prepare_target_for_import(j)
  BY <1>t, <1>r, <1>a, <1>h, <1>10
     DEF Prepare_target_for_import, Imported, Goto, At, Holder, Live, Unresolved, Pending,
         Active, Cutover
<1>11. CASE Converted_import_batches(j)
  BY <1>t, <1>r, <1>a, <1>h, <1>11
     DEF Converted_import_batches, Imported, Goto, At, Holder, Live, Unresolved, Pending,
         Active, Cutover
<1>12. CASE Reset_postgres_sequences(j)
  BY <1>t, <1>r, <1>a, <1>h, <1>12
     DEF Reset_postgres_sequences, Imported, Goto, At, Holder, Live, Unresolved, Pending,
         Active, Cutover
<1>13. CASE Validate_row_counts(j)
  BY <1>t, <1>r, <1>a, <1>h, <1>13
     DEF Validate_row_counts, Compare, Goto, At, Holder, Live, Unresolved, Pending, Active,
         Cutover
<1>14. CASE Validate_digests(j)
  BY <1>t, <1>r, <1>a, <1>h, <1>14
     DEF Validate_digests, Compare, Goto, At, Holder, Live, Unresolved, Pending, Active,
         Cutover
<1>15. CASE Validate_postgres_foreign_keys(j)
  BY <1>t, <1>r, <1>a, <1>h, <1>15
     DEF Validate_postgres_foreign_keys, Compare, Goto, At, Holder, Live, Unresolved,
         Pending, Active, Cutover
<1>16. CASE Validate_infinidysk_postgres_schema(j)
  BY <1>t, <1>r, <1>a, <1>h, <1>16
     DEF Validate_infinidysk_postgres_schema, Compare, Goto, At, Holder, Live, Unresolved,
         Pending, Active, Cutover
<1>17. CASE Validate(j)
  BY <1>t, <1>r, <1>a, <1>h, <1>17
     DEF Validate, Compare, Goto, At, Holder, Live, Unresolved, Pending, Active, Cutover
<1>18. CASE Drop_stage(j)
  BY <1>t, <1>r, <1>a, <1>h, <1>18
     DEF Drop_stage, Save, Goto, At, Holder, Live, Unresolved, Pending, Active,
         Cutover, JobRecord
<1>19. CASE Apply_database_config(j)
  BY <1>t, <1>r, <1>a, <1>h, <1>s, <1>19
     DEF Apply_database_config, Goto, At, Holder, Live, Unresolved, Pending, Active,
         Cutover, ServiceShape, RecordShape, BackShape, OnSqlite, Importing, Saved, Copied,
         Before, Switched
<1>20. CASE Start_postgres(j)
  BY <1>t, <1>r, <1>a, <1>h, <1>s, <1>20
     DEF Start_postgres, Started, Selected, Goto, At, Holder, Live, Unresolved, Pending,
         Active, Cutover, ServiceShape, RecordShape, BackShape, OnSqlite, Importing, Saved,
         Copied, Before, Switched
<1>21. CASE Wait_for_running_service(j)
  BY <1>t, <1>r, <1>a, <1>h, <1>21
     DEF Wait_for_running_service, Goto, At, Holder, Live, Unresolved, Pending, Active,
         Cutover
<1>22. CASE Finalize(j)
  BY <1>t, <1>r, <1>a, <1>h, <1>22
     DEF Finalize, Save, Goto, At, Holder, Live, Unresolved, Pending, Active, Cutover,
         JobRecord
<1>23. CASE Record_completion(j)
  BY <1>t, <1>r, <1>a, <1>h, <1>s, <1>23
     DEF Record_completion, Goto, At, Holder, Live, Unresolved, Pending, Active, Cutover,
         ServiceShape, RecordShape, BackShape, OnSqlite, Importing, Saved, Copied, Before,
         Switched
<1>24. CASE Complete(j)
  BY <1>t, <1>r, <1>a, <1>h, <1>s, <1>24
     DEF Complete, Save, Goto, At, Holder, Live, Unresolved, Pending, Active, Cutover,
         JobRecord, ServiceShape, RecordShape, BackShape, OnSqlite, Importing, Saved,
         Copied, Before, Switched
<1>25. CASE Except(j)
  BY <1>t, <1>r, <1>a, <1>h, <1>25, SMTT(30)
     DEF Except, Save, Goto, At, Holder, Live, Unresolved, Pending, Active, Cutover,
         JobRecord
<1>26. CASE R_stop(j)
  BY <1>t, <1>r, <1>a, <1>h, <1>26
     DEF R_stop, Goto, At, Holder, Live, Unresolved, Pending, Active, Cutover
<1>27. CASE R_data(j)
  BY <1>t, <1>r, <1>a, <1>h, <1>27
     DEF R_data, Goto, At, Holder, Live, Unresolved, Pending, Active, Cutover
<1>28. CASE R_config(j)
  BY <1>t, <1>r, <1>a, <1>h, <1>28
     DEF R_config, Goto, At, Holder, Live, Unresolved, Pending, Active, Cutover
<1>29. CASE Restore_database_entries(j)
  BY <1>t, <1>r, <1>a, <1>h, <1>29
     DEF Restore_database_entries, Goto, At, Holder, Live, Unresolved, Pending, Active,
         Cutover
<1>30. CASE Clear_authorization(j)
  BY <1>t, <1>r, <1>a, <1>h, <1>30
     DEF Clear_authorization, Goto, At, Holder, Live, Unresolved, Pending, Active, Cutover
<1>31. CASE R_start(j)
  BY <1>t, <1>r, <1>a, <1>h, <1>s, <1>31
     DEF R_start, Started, Selected, Goto, At, Holder, Live, Unresolved, Pending, Active,
         Cutover, ServiceShape, RecordShape, BackShape, OnSqlite, Importing, Saved, Copied,
         Before, Switched
<1>32. CASE R_healthy(j)
  BY <1>t, <1>r, <1>a, <1>h, <1>32
     DEF R_healthy, Goto, At, Holder, Live, Unresolved, Pending, Active, Cutover
<1>33. CASE Report(j)
  <2>1. bk[j] # "none" /\ loc[j].restored => ~Taken
    BY <1>s, <1>33 DEF Report, Reports, At, BackShape, OnSqlite
  <2>2. UNCHANGED <<disk, mem, app, up, marker, bk>> /\ job'[j] = Reported(j)
    BY <1>t, <1>33 DEF Report, Reports, Save
  <2>3. ASSUME Taken, ~loc[j].restored PROVE Holder(j)'
    <3>1. CASE loc[j].by = "operator"
      <4>1. job'[j].status = "rollback_failed" /\ job'[j].mode = "cutover" /\ job'[j].ckpt
        BY <1>r, <1>h, <2>2, <2>3, <3>1 DEF Reported, JobRecord
      <4> QED BY <1>h, <2>2, <2>3, <4>1 DEF Holder, Live, Unresolved, Pending, Cutover
    <3>2. CASE loc[j].by # "operator"
      <4>1. /\ job'[j].status = "failed" /\ job'[j].mode = "cutover" /\ job'[j].ckpt
            /\ job'[j].avail
        BY <1>r, <1>h, <2>2, <2>3, <3>2 DEF Reported, JobRecord, Valid_backup, Cutover
      <4> QED BY <1>h, <2>2, <2>3, <4>1 DEF Holder, Live, Unresolved, Pending, Cutover
    <3> QED BY <3>1, <3>2
  <2> QED BY <1>h, <2>1, <2>2, <2>3
<1>34. CASE Failing(j)
  BY <1>t, <1>r, <1>a, <1>h, <1>34
     DEF Failing, Fault, Raise, Goto, At, Holder, Live, Unresolved, Pending, Active, Cutover
<1> QED BY <1>1, <1>2, <1>3, <1>4, <1>5, <1>6, <1>7, <1>8, <1>9, <1>10, <1>11, <1>12, <1>13,
           <1>14, <1>15, <1>16, <1>17, <1>18, <1>19, <1>20, <1>21, <1>22, <1>23, <1>24,
           <1>25, <1>26, <1>27, <1>28, <1>29, <1>30, <1>31, <1>32, <1>33, <1>34
           DEF Thread, JobStep, RestoreStep

\* A job that is not at work is in no stretch.
LEMMA IdleShaped == ASSUME NEW i \in Jobs, ~Works(i)' PROVE Shaped(i)'
  BY DEF Shaped, ServiceShape, RecordShape, DataShape, Rehearsed, BackShape, Works,
         Leaving, Importing, Saved, Copied, Before, Switched, Forward

\* A new job begins on a service that is on SQLite.
LEMMA CreatePreserves ==
  ASSUME TypeOK, Sheltered(kind), OneAtWork, OneLive, TakenIsHeld, InPlace, Shapes,
         NEW j \in Jobs, NEW m \in {"rehearsal", "cutover"}, Create_job(j, m)
  PROVE  TakenIsHeld' /\ InPlace' /\ Shapes'
<1> USE DEF Guarded
<1>t. pc \in [Jobs -> PCs] /\ loc \in [Jobs -> Locals] /\ job \in [Jobs -> JobRecord]
      /\ bk \in [Jobs -> {"none", "config", "full"}]
  BY DEF TypeOK
<1>i. \A i \in Jobs : ~Works(i)
  BY DEF Create_job, OneAtWork, Has_active_infinidysk_job, Unresolved
<1>u. UNCHANGED <<kind, disk, mem, app, target, marker, up, bk, binding, fresh>>
  BY DEF Create_job, world
<1>o. \A i \in Jobs \ {j} : UNCHANGED <<pc[i], loc[i], job[i]>>
  BY <1>t DEF Create_job, Save, Goto
<1>j. /\ pc'[j] = "begin" /\ loc'[j] = NoLocals
      /\ job'[j].ckpt = FALSE /\ job'[j].mode = m /\ job'[j].bind = binding
  BY <1>t DEF Create_job, Save, Goto, NoJob
<1>1. TakenIsHeld'
  <2>1. Guarded => \A i \in Jobs : ~Live(i)
    BY DEF Create_job, Has_active_infinidysk_job, Preflight, Sqlite_mode, Live, OneLive,
           Kept
  <2>2. Guarded => ~Taken BY <2>1 DEF TakenIsHeld, Holder
  <2> QED BY <1>u, <2>2 DEF TakenIsHeld, Taken
<1>2. InPlace' BY <1>i, <1>u DEF InPlace, Trusted, Works, Leaving
<1>3. Shaped(j)'
  <2>1. ServiceShape(j)'
    BY <1>j, <1>u
       DEF Create_job, Preflight, Sqlite_mode, ServiceShape, Importing, Saved, Copied,
           Before, Switched
  <2>2. RecordShape(j)' /\ DataShape(j)'
    BY <1>j, <1>u DEF RecordShape, DataShape, Importing, Saved, Copied, Switched
  <2>3. Rehearsed(j)'
    <3>1. Guarded /\ m = "cutover" => Matching_rehearsal(binding)
      BY DEF Create_job
    <3>2. job[j].status = "none" BY DEF Create_job, New_job
    <3>3. Guarded /\ m = "cutover" => Matching_rehearsal(binding)'
      BY <1>o, <1>u, <3>1, <3>2 DEF Matching_rehearsal
    <3> QED BY <1>j, <1>u, <3>3 DEF Rehearsed, Cutover
  <2>4. BackShape(j)' BY <1>j DEF BackShape, NoLocals
  <2> QED BY <2>1, <2>2, <2>3, <2>4 DEF Shaped
<1>4. \A i \in Jobs \ {j} : Shaped(i)'
  <2>1. \A i \in Jobs \ {j} : ~Works(i)' BY <1>i, <1>o DEF Works
  <2> QED BY <2>1, IdleShaped
<1> QED BY <1>1, <1>2, <1>3, <1>4 DEF Shapes

\* An operator's rollback takes over the job that holds what there is to bring back.
LEMMA RollbackPreserves ==
  ASSUME TypeOK, Sheltered(kind), OneAtWork, OneLive, TakenIsHeld, InPlace, Shapes,
         NEW j \in Jobs, Rollback_job(j)
  PROVE  TakenIsHeld' /\ InPlace' /\ Shapes'
<1> USE DEF Guarded
<1>t. pc \in [Jobs -> PCs] /\ loc \in [Jobs -> Locals] /\ job \in [Jobs -> JobRecord]
  BY DEF TypeOK
<1>r. job[j] \in JobRecord BY <1>t
<1>l. Live(j) /\ Cutover(j) /\ job[j].avail /\ bk[j] = "full" /\ (Guarded => job[j].ckpt)
      /\ job[j].status \notin Active
  BY DEF Rollback_job, Reserve_rollback, Valid_backup, Live, Unresolved, Pending, Active
<1>i. \A i \in Jobs : ~Works(i)
  <2>1. CASE Guarded BY <1>l, <2>1 DEF OneAtWork, OneLive, Live, Unresolved
  <2>2. CASE ~Guarded
    BY <2>2 DEF Rollback_job, Reserve_rollback, Sheltered, OneAtWork
  <2> QED BY <2>1, <2>2
<1>u. UNCHANGED <<kind, disk, mem, app, target, marker, up, bk, binding, fresh>>
  BY DEF Rollback_job, world
<1>o. \A i \in Jobs \ {j} : UNCHANGED <<pc[i], job[i]>>
  BY <1>t DEF Rollback_job, Reserve_rollback, Save, Goto
<1>j. /\ pc'[j] = "r_stop" /\ loc'[j].restored = FALSE
      /\ job' = [job EXCEPT ![j] = [job[j] EXCEPT !.status = "rolling_back"]]
  BY <1>t DEF Rollback_job, Reserve_rollback, Save, Goto, NoLocals
<1>1. TakenIsHeld'
  <2>1. /\ job'[j].status = "rolling_back" /\ job'[j].mode = job[j].mode
        /\ job'[j].ckpt = job[j].ckpt /\ job'[j].avail = job[j].avail
    BY <1>t, <1>r, <1>j DEF JobRecord
  <2>2. Guarded => Holder(j)'
    BY <1>l, <1>u, <2>1 DEF Holder, Cutover, Live, Unresolved, Active
  <2> QED BY <1>u, <2>2 DEF TakenIsHeld
<1>2. InPlace' BY <1>i, <1>u DEF InPlace, Trusted, Works, Leaving
<1>3. Shaped(j)'
  <2>1. ServiceShape(j)' /\ RecordShape(j)' /\ DataShape(j)' /\ Rehearsed(j)'
    BY <1>j DEF ServiceShape, RecordShape, DataShape, Rehearsed, Importing, Saved,
                Copied, Before, Switched, Forward
  <2>2. BackShape(j)' BY <1>l, <1>j, <1>u DEF BackShape, Restore
  <2> QED BY <2>1, <2>2 DEF Shaped
<1>4. \A i \in Jobs \ {j} : Shaped(i)'
  <2>1. \A i \in Jobs \ {j} : ~Works(i)' BY <1>i, <1>o DEF Works
  <2> QED BY <2>1, IdleShaped
<1> QED BY <1>1, <1>2, <1>3, <1>4 DEF Shapes

\* What the others do: they keep away from a job of InfiniDysk that is not over, and from a
\* sheltered service while it has one.
LEMMA EnvironmentPreserves ==
  ASSUME TypeOK, Sheltered(kind), OneAtWork, OneLive, TakenIsHeld, InPlace, Shapes,
         Around
  PROVE  TakenIsHeld' /\ InPlace' /\ Shapes'
<1> USE DEF Guarded
<1>t. pc \in [Jobs -> PCs] /\ loc \in [Jobs -> Locals] /\ job \in [Jobs -> JobRecord]
      /\ bk \in [Jobs -> {"none", "config", "full"}] /\ {disk, mem, app} \subseteq Databases
      /\ marker \in BOOLEAN
  BY DEF TypeOK
<1>s. \A j \in Jobs : Shaped(j) BY DEF Shapes
<1>1. CASE Lifecycle
  <2>u. UNCHANGED <<kind, disk, mem, target, marker, job, bk, pc, loc, fresh>>
    BY <1>1 DEF Lifecycle, records
  <2>i. \A j \in Jobs : ~Works(j) /\ ~Works(j)'
    <3>1. CASE Guarded
      BY <1>1, <2>u, <3>1
         DEF Lifecycle, OneAtWork, Works, Has_active_infinidysk_job, Unresolved
    <3>2. CASE ~Guarded BY <1>1, <2>u, <3>2 DEF Lifecycle, Sheltered, OneAtWork, Works
    <3> QED BY <3>1, <3>2
  <2>m. mem # "stage" /\ (kind = "arr" => app # "stage") BY <2>i DEF InPlace, Works, Leaving
  <2>a. \/ up' = Selected /\ app' = Selected /\ StartAllowed(Selected, FALSE)
        \/ up' = "down" /\ app' = app
    BY <1>1 DEF Lifecycle, Started
  <2>1. TakenIsHeld'
    BY <2>u, <2>a
       DEF TakenIsHeld, Taken, Selected, Holder, Cutover, Live, Unresolved, Pending
  <2>2. InPlace'
    BY <2>u, <2>a, <2>m, <2>i DEF InPlace, Selected, StartAllowed, Trusted, Works, Leaving
  <2>3. Shapes' BY <2>i, IdleShaped DEF Shapes
  <2> QED BY <2>1, <2>2, <2>3
<1>2. CASE Save_config
  <2>u. UNCHANGED <<kind, mem, app, up, target, marker, job, bk, pc, loc, fresh, binding>>
    BY <1>2 DEF Save_config, records
  <2>d. Guarded /\ mem = "sqlite" /\ disk = "postgres" /\ disk' = "sqlite"
    BY <1>t, <1>2 DEF Save_config, Sheltered, InPlace, Databases
  <2>1. TakenIsHeld'
    BY <2>u, <2>d DEF TakenIsHeld, Taken, Holder, Cutover, Live, Unresolved, Pending
  <2>2. InPlace' BY <2>u, <2>d DEF InPlace, Trusted
  <2>3. ASSUME NEW j \in Jobs PROVE Shaped(j)'
    <3>1. ServiceShape(j)'
      BY <1>s, <2>u, <2>d DEF Shaped, ServiceShape, Cutover
    <3>2. RecordShape(j)' /\ DataShape(j)' /\ Rehearsed(j)'
      BY <1>s, <2>u
         DEF Shaped, RecordShape, DataShape, Rehearsed, Matching_rehearsal, Cutover
    <3>3. BackShape(j)'
      BY <1>s, <2>u, <2>d DEF Shaped, BackShape, OnSqlite, Works
    <3> QED BY <3>1, <3>2, <3>3 DEF Shaped
  <2> QED BY <2>1, <2>2, <2>3 DEF Shapes
<1>3. CASE Write
  <2>u. UNCHANGED <<kind, disk, mem, app, up, target, marker, job, bk, pc, loc, binding>>
        /\ up = "sqlite"
    BY <1>3 DEF Write, records, world
  <2>1. TakenIsHeld' /\ InPlace'
    BY <2>u DEF TakenIsHeld, Taken, Holder, Cutover, Live, Unresolved, Pending, InPlace,
                Trusted
  <2>2. ASSUME NEW j \in Jobs PROVE Shaped(j)'
    <3>1. ServiceShape(j)'
      BY <1>s, <2>u DEF Shaped, ServiceShape, Cutover, Copied
    <3>2. RecordShape(j)' /\ DataShape(j)' /\ Rehearsed(j)' /\ BackShape(j)'
      BY <1>s, <2>u DEF Shaped, RecordShape, DataShape, Rehearsed, Matching_rehearsal,
                        Cutover, BackShape, OnSqlite, Works
    <3> QED BY <3>1, <3>2 DEF Shaped
  <2> QED BY <2>1, <2>2 DEF Shapes
<1>4. CASE Upgrade
  <2>u. UNCHANGED <<kind, disk, mem, app, up, target, marker, job, bk, pc, loc>>
    BY <1>4 DEF Upgrade, records, world
  <2>i. \A j \in Jobs : ~Works(j)'
    BY <1>4, <2>u DEF Upgrade, OneAtWork, Works, Has_active_infinidysk_job, Unresolved
  <2>1. TakenIsHeld' /\ InPlace'
    BY <2>u DEF TakenIsHeld, Taken, Holder, Cutover, Live, Unresolved, Pending, InPlace,
                Trusted
  <2>2. Shapes' BY <2>i, IdleShaped DEF Shapes
  <2> QED BY <2>1, <2>2
<1>5. CASE Namespace \/ UNCHANGED vars
  <2>u. UNCHANGED <<kind, disk, mem, app, up, target, marker, job, bk, pc, loc, binding,
                    fresh>>
    BY <1>5 DEF Namespace, vars, records, world
  <2>1. TakenIsHeld' /\ InPlace'
    BY <2>u DEF TakenIsHeld, Taken, Holder, Cutover, Live, Unresolved, Pending, InPlace,
                Trusted
  <2>2. ASSUME NEW j \in Jobs PROVE Shaped(j)'
    BY <1>s, <2>u DEF Shaped, ServiceShape, RecordShape, DataShape, Rehearsed,
                      Matching_rehearsal, Cutover, BackShape, OnSqlite, Works
  <2> QED BY <2>1, <2>2 DEF Shapes
<1>6. CASE Restart
  <2>k. kind # "arr" BY <1>6 DEF Restart, Sheltered
  <2>u. /\ UNCHANGED <<kind, target, marker, bk>> /\ disk' = disk /\ mem' = disk
        /\ \A j \in Jobs : pc'[j] = "idle"
        /\ job' = [j \in Jobs |-> Seen(job[j])]
    BY <1>6, <2>k DEF Restart, Adopted
  <2>a. \/ up' = "down" /\ app' = app
        \/ /\ up' = disk /\ app' = disk
           /\ Guarded => (disk = "sqlite") # marker
    BY <1>6, <2>k DEF Restart, Adopted
  <2>1. TakenIsHeld'
    <3> SUFFICES ASSUME Guarded, Taken' PROVE (\E j \in Jobs : Holder(j))'
      BY <2>u DEF TakenIsHeld
    <3>1. Taken BY <2>u, <2>a DEF Taken
    <3>2. PICK j \in Jobs : Holder(j) BY <3>1 DEF TakenIsHeld
    <3>3. job[j] \in JobRecord BY <1>t
    <3>4. /\ job'[j] = Seen(job[j]) /\ job'[j].mode = job[j].mode
          /\ job'[j].ckpt = job[j].ckpt /\ job'[j].avail = job[j].avail
          /\ job'[j].status = IF job[j].status \in Active THEN "interrupted"
                                                          ELSE job[j].status
      BY <2>u, <3>3 DEF Seen, JobRecord
    <3>5. Holder(j)'
      BY <2>u, <3>2, <3>4 DEF Holder, Cutover, Live, Unresolved, Pending, Active
    <3> QED BY <3>5
  <2>2. InPlace' BY <1>t, <2>u, <2>k, <2>a DEF InPlace, Trusted
  <2>3. Shapes'
    <3>1. \A j \in Jobs : ~Works(j)' BY <2>u DEF Works
    <3> QED BY <3>1, IdleShaped DEF Shapes
  <2> QED BY <2>1, <2>2, <2>3
<1> QED BY <1>1, <1>2, <1>3, <1>4, <1>5, <1>6 DEF Around

\* The step of a thread keeps its own stretch; nobody else has one.
LEMMA ThreadPreserves ==
  ASSUME TypeOK, Sheltered(kind), OneAtWork, OneLive, TakenIsHeld, InPlace, Shapes,
         NEW j \in Jobs, Thread(j)
  PROVE  TakenIsHeld' /\ InPlace' /\ Shapes'
<1>1. UNCHANGED kind /\ \A i \in Jobs \ {j} : ~Works(i)'
  BY OthersAlone DEF OneAtWork, Works
<1>2. TakenIsHeld' BY <1>1, HeldThread DEF TakenIsHeld, Guarded
<1>3. InPlace' BY InPlaceThread
<1>4. Shaped(j)'
  BY ServiceStep, RecordStep, DataStep, RehearsedStep, BackStep DEF Shaped
<1>5. \A i \in Jobs \ {j} : Shaped(i)' BY <1>1, IdleShaped
<1> QED BY <1>2, <1>3, <1>4, <1>5 DEF Shapes

\* A thread that leaves disturbs nothing: what it saves again is what the record says.
LEMMA DepartPreserves ==
  ASSUME TypeOK, OneAtWork, OneLive, TakenIsHeld, InPlace, Shapes,
         NEW j \in Jobs, Departing(j)
  PROVE  OneAtWork' /\ OneLive' /\ TakenIsHeld' /\ InPlace' /\ Shapes'
<1>t. job \in [Jobs -> JobRecord] /\ pc \in [Jobs -> PCs] /\ loc \in [Jobs -> Locals]
      /\ late \in [Jobs -> {"none"} \cup Leaving]
  BY DEF TypeOK
<1>u. UNCHANGED <<kind, disk, mem, app, up, target, marker, job, bk, ns, binding, fresh>>
  <2>1. CASE Resave(j) BY <1>t, <2>1 DEF Resave, Save, world
  <2>2. CASE End(j) BY <2>2 DEF End, records
  <2>3. CASE Late_end(j) BY <2>3 DEF Late_end, records
  <2>4. CASE Fault(j) /\ ~Works(j)
    BY <2>4 DEF Fault, Raise, Works, Leaving, Forward, Restore, records
  <2> QED BY <2>1, <2>2, <2>3, <2>4 DEF Departing
<1>p. /\ \A i \in Jobs \ {j} : UNCHANGED <<pc[i], loc[i]>>
      /\ UNCHANGED <<pc[j], loc[j]>> \/ (~Works(j) /\ ~Works(j)')
  <2>1. CASE Resave(j)
    BY <1>t, <2>1 DEF Resave, Goto, At, Works, Leaving
  <2>2. CASE End(j) BY <1>t, <2>2 DEF End, Goto, At, Works, Leaving
  <2>3. CASE Late_end(j) BY <2>3 DEF Late_end
  <2>4. CASE Fault(j) /\ ~Works(j) /\ Sound'
    BY <1>t, <2>4
       DEF Fault, Raise, Goto, Works, Leaving, Forward, Restore, Sound
  <2> QED BY <2>1, <2>2, <2>3, <2>4 DEF Departing
<1>w. \A i \in Jobs : Works(i)' <=> Works(i) BY <1>p DEF Works
<1>1. OneAtWork'
  <2>1. CASE Guarded BY <1>u, <1>w, <2>1 DEF OneAtWork, Guarded
  <2>2. CASE ~Guarded
    <3>1. \A i \in Jobs : late[i] = "none" BY <2>2 DEF OneAtWork
    <3>2. ~Late_end(j) BY <3>1 DEF Late_end
    <3>3. late' = late
      BY <3>2 DEF Departing, Resave, End, Fault, tail
    <3>4. CASE End(j)
      <4>1. \A i \in Jobs : pc'[i] = "idle"
        BY <1>t, <2>2, <3>4 DEF OneAtWork, End, At, Goto
      <4> QED BY <1>u, <2>2, <3>1, <3>3, <4>1 DEF OneAtWork, Works, Guarded
    <3>5. CASE ~End(j)
      <4>1. busy' = busy /\ pc[j] # "idle"
        BY <3>2, <3>5
           DEF Departing, Resave, Fault, Raise, At, Forward, Restore
      <4>2. \A i \in Jobs : pc'[i] # "idle" => pc[i] # "idle" BY <1>p, <4>1
      <4> QED BY <1>u, <1>w, <2>2, <3>1, <3>3, <4>1, <4>2 DEF OneAtWork, Guarded
    <3> QED BY <3>4, <3>5
  <2> QED BY <2>1, <2>2
<1>2. OneLive' /\ TakenIsHeld'
  BY <1>u DEF OneLive, Kept, Live, Unresolved, Pending, Cutover, TakenIsHeld, Taken, Holder,
              Guarded
<1>3. InPlace'
  <2>1. ASSUME NEW i \in Jobs, Works(i) PROVE pc'[i] = pc[i] BY <1>p, <2>1
  <2> QED BY <1>u, <2>1 DEF InPlace, Trusted, Guarded, Works, Leaving
<1>4. ASSUME NEW i \in Jobs PROVE Shaped(i)'
  <2>1. CASE Works(i)
    <3>1. pc'[i] = pc[i] /\ loc'[i] = loc[i] BY <1>p, <2>1
    <3>2. Shaped(i) BY DEF Shapes
    <3> QED
      BY <1>u, <1>w, <3>1, <3>2
         DEF Shaped, ServiceShape, RecordShape, DataShape, Rehearsed, Matching_rehearsal,
             Cutover, BackShape, OnSqlite, Guarded
  <2>2. CASE ~Works(i) BY <1>w, <2>2, IdleShaped
  <2> QED BY <2>1, <2>2
<1> QED BY <1>1, <1>2, <1>3, <1>4 DEF Shapes

\* At first nothing has begun.
LEMMA InitIndInv == Init => IndInv
<1> SUFFICES ASSUME Init PROVE IndInv OBVIOUS
<1>1. TypeOK
  <2>1. job \in [Jobs -> JobRecord] /\ loc \in [Jobs -> Locals] BY Blank DEF Init
  <2>2. "idle" \in PCs BY Points
  <2>3. pc \in [Jobs -> PCs] BY <2>2 DEF Init
  <2>4. binding \in 0..MaxUpgrades /\ faults \in 0..MaxFaults /\ crashes \in 0..MaxCrashes
    BY PostgresAssumption DEF Init
  <2>5. kind \in Kinds /\ {disk, mem, app} \subseteq Databases /\ target \in Contents
        /\ stage \subseteq Jobs /\ marker \in BOOLEAN /\ up \in Databases \cup {"down"}
    BY DEF Init, Databases, Contents
  <2>6. latest \in Jobs \cup {0} /\ bk \in [Jobs -> {"none", "config", "full"}]
        /\ busy \in BOOLEAN /\ ns \in BOOLEAN /\ fresh \subseteq Jobs
    BY DEF Init
  <2>7. late \in [Jobs -> {"none"} \cup Leaving] /\ kept \in [Jobs -> JobRecord]
        /\ slips \subseteq {"reopened", "unstopped"}
    BY Blank DEF Init
  <2> QED BY <2>1, <2>3, <2>4, <2>5, <2>6, <2>7 DEF TypeOK
<1>2. \A j \in Jobs : pc[j] = "idle" /\ job[j].status = "none" /\ job[j].ckpt = FALSE
  BY DEF Init, NoJob
<1>3. OneAtWork
  <2>1. \A j \in Jobs : late[j] = "none" BY DEF Init
  <2> QED BY <1>2, <2>1 DEF OneAtWork, Works
<1>4. OneLive BY <1>2 DEF OneLive, Live, Unresolved, Pending, Active, Kept
<1>5. TakenIsHeld /\ InPlace BY DEF Init, TakenIsHeld, Taken, InPlace
<1>6. Shapes
  BY <1>2 DEF Shapes, Shaped, ServiceShape, RecordShape, DataShape, Rehearsed, BackShape,
              Works, Importing, Saved, Copied, Before, Switched, Forward
<1>7. KeptIsOver BY DEF Init, KeptIsOver, NoJob
<1> QED BY <1>1, <1>3, <1>4, <1>5, <1>6, <1>7 DEF IndInv

\* No step changes which kind of service is migrated.
LEMMA SameKind == ASSUME TypeOK, [Next]_vars PROVE kind' = kind
<1>1. ASSUME NEW j \in Jobs, JobStep(j) \/ RestoreStep(j) PROVE kind' = kind
  BY <1>1, OthersAlone DEF Thread
<1>2. ASSUME NEW j \in Jobs, LeaveStep(j) \/ Rollback_job(j) \/ Fault(j) \/ Swallowed_stop(j)
      PROVE  kind' = kind
  BY <1>2 DEF LeaveStep, Resave, End, Late_save, Late_end, Rollback_job, Fault, Swallowed_stop
<1> QED BY <1>1, <1>2 DEF Next, Create_job, Lifecycle, Save_config, Write, Upgrade,
                          Namespace, Restart, vars

\* What a worker that has not ended still has to save is a record of a job that could be
\* rolled back.
LEMMA KeptIsOverStep == ASSUME TypeOK, KeptIsOver, [Next]_vars PROVE KeptIsOver'
<1>t. kept \in [Jobs -> JobRecord] BY DEF TypeOK
<1>1. ASSUME UNCHANGED kept PROVE KeptIsOver' BY <1>1 DEF KeptIsOver
<1>2. ASSUME NEW j \in Jobs, JobStep(j) \/ RestoreStep(j) PROVE KeptIsOver'
  BY <1>1, <1>2, TailKept DEF tail
<1>3. ASSUME NEW j \in Jobs, Rollback_job(j) PROVE KeptIsOver'
  <2>1. job[j].status \in {"completed", "failed", "interrupted", "rollback_failed"}
        /\ (kept' = kept \/ kept' = [kept EXCEPT ![j] = job[j]])
    BY <1>3 DEF Rollback_job, Reserve_rollback
  <2>2. \A i \in Jobs : kept'[i] = kept[i] \/ kept'[i] = job[j] BY <1>t, <2>1
  <2> QED BY <2>1, <2>2 DEF KeptIsOver
<1>4. ASSUME NEW j \in Jobs, Late_save(j) \/ Late_end(j) PROVE KeptIsOver'
  <2>1. kept' = [kept EXCEPT ![j] = NoJob] BY <1>4 DEF Late_save, Late_end
  <2>2. \A i \in Jobs : kept'[i] = kept[i] \/ kept'[i] = NoJob BY <1>t, <2>1
  <2> QED BY <2>2 DEF KeptIsOver, NoJob
<1>5. ASSUME NEW j \in Jobs, Resave(j) \/ End(j) \/ Fault(j) \/ Swallowed_stop(j)
      PROVE  KeptIsOver'
  BY <1>1, <1>5 DEF Resave, End, Fault, Swallowed_stop, tail
<1>6. CASE Restart BY <1>6 DEF Restart, KeptIsOver, NoJob
<1>7. CASE Lifecycle \/ Save_config \/ Write \/ Upgrade \/ Namespace \/ UNCHANGED vars
  BY <1>1, <1>7 DEF Lifecycle, Save_config, Write, Upgrade, Namespace, vars, tail
<1>8. ASSUME NEW j \in Jobs, NEW m \in {"rehearsal", "cutover"}, Create_job(j, m)
      PROVE  KeptIsOver'
  BY <1>1, <1>8 DEF Create_job, tail
<1> QED BY <1>2, <1>3, <1>4, <1>5, <1>6, <1>7, <1>8 DEF Next, LeaveStep

\* Every step keeps the inductive invariant.
LEMMA NextPreservesIndInv == IndInv /\ [Next]_vars => IndInv'
<1> SUFFICES ASSUME IndInv, [Next]_vars PROVE IndInv' OBVIOUS
<1>1. TypeOK' /\ KeptIsOver' BY TypeStep, KeptIsOverStep DEF IndInv
<1>2. kind' = kind BY SameKind DEF IndInv
<1> SUFFICES ASSUME Sheltered(kind), Sound'
             PROVE  OneAtWork' /\ OneLive' /\ TakenIsHeld' /\ InPlace' /\ Shapes'
  BY <1>1, <1>2 DEF IndInv, Sheltered
<1>3. Sound BY SlipsStay
<1>4. TypeOK /\ OneAtWork /\ OneLive /\ TakenIsHeld /\ InPlace /\ Shapes
  BY <1>3 DEF IndInv
<1>5. CASE Proper
  <2>1. OneAtWork' /\ OneLive' BY <1>4, <1>5, OneAtWorkStep, OneLiveStep
  <2>2. TakenIsHeld' /\ InPlace' /\ Shapes'
    BY <1>4, <1>5, ThreadPreserves, CreatePreserves, RollbackPreserves,
       EnvironmentPreserves DEF Proper
  <2> QED BY <2>1, <2>2
<1>6. ASSUME NEW j \in Jobs, Departing(j)
      PROVE  OneAtWork' /\ OneLive' /\ TakenIsHeld' /\ InPlace' /\ Shapes'
  BY <1>4, <1>6, DepartPreserves
<1> QED BY <1>5, <1>6, ProperSteps

\* The inductive invariant holds whenever DUMB runs.
LEMMA Invariance == Spec => []IndInv
  BY InitIndInv, NextPreservesIndInv, PTL DEF Spec

-----------------------------------------------------------------------------
(* What follows.                                                             *)

\* Every variable keeps its type.
THEOREM PostgresTypeCorrect == Spec => []TypeOK
<1>1. IndInv => TypeOK BY DEF IndInv
<1> QED BY <1>1, Invariance, PTL

\* InfiniDysk has one worker, whatever raises, wherever DUMB is killed and even if a
\* rollback is reserved while a worker has yet to end, until such a worker's second save
\* overwrites the reservation (or fails).
THEOREM InfiniDyskOneWorker == Spec => []OneWorker
<1>1. IndInv => OneWorker
  <2> SUFFICES ASSUME IndInv, Guarded, Sound PROVE OneWorker BY DEF OneWorker
  <2>1. Sheltered(kind) /\ Sound BY DEF Sheltered, Guarded
  <2>2. OneAtWork /\ OneLive /\ TakenIsHeld BY <2>1 DEF IndInv
  <2>3. ASSUME disk = "postgres", ~marker PROVE Has_active_infinidysk_job
    <3>1. PICK j \in Jobs : Holder(j) BY <2>2, <2>3 DEF TakenIsHeld, Taken
    <3>2. Unresolved(job[j]) BY <2>2, <2>3, <3>1 DEF OneLive, Holder, Live, Kept
    <3> QED BY <3>2 DEF Has_active_infinidysk_job
  <2> QED BY <2>2, <2>3 DEF OneWorker, OneAtWork, Works
<1> QED BY <1>1, Invariance, PTL

\* The service never runs on the wrong database, while it stops when it is told to.
THEOREM PostgresNoSplitBrain ==
  ASSUME \A k \in Kinds : Sheltered(k) PROVE Spec => []NoSplitBrain
<1>1. IndInv => NoSplitBrain
  <2> SUFFICES ASSUME IndInv, Sound PROVE NoSplitBrain BY DEF NoSplitBrain
  <2>1. InPlace BY DEF IndInv, TypeOK
  <2> QED BY <2>1 DEF InPlace, NoSplitBrain
<1> QED BY <1>1, Invariance, PTL

\* A kill and the boot after it: the configuration that is loaded never selects a staging
\* database, and selects PostgreSQL only if the import into it was validated.
THEOREM PostgresBootsOnItsData ==
  ASSUME \A k \in Kinds : Sheltered(k) PROVE Spec => BootsOnItsData
<1>1. IndInv /\ IndInv' /\ [Next]_vars
        => [Sound /\ crashes' # crashes =>
              disk' # "stage" /\ (disk' = "postgres" => Trusted)]_vars
  <2> SUFFICES ASSUME IndInv, IndInv', [Next]_vars, Sound, crashes' # crashes
               PROVE  disk' # "stage" /\ (disk' = "postgres" => Trusted)
    OBVIOUS
  <2>1. TypeOK /\ TypeOK' /\ kind' = kind BY SameKind DEF IndInv
  <2>2. ASSUME NEW j \in Jobs, JobStep(j) \/ RestoreStep(j) PROVE FALSE
    BY <2>1, <2>2, OthersAlone DEF Thread
  <2>3. ASSUME NEW j \in Jobs,
               LeaveStep(j) \/ Rollback_job(j) \/ Fault(j) \/ Swallowed_stop(j)
        PROVE  FALSE
    BY <2>3 DEF LeaveStep, Resave, End, Late_save, Late_end, Rollback_job, Fault,
                Swallowed_stop, bounds
  <2>4. Restart
    BY <2>2, <2>3 DEF Next, Create_job, Lifecycle, Save_config, Write, Upgrade,
                      Namespace, vars, bounds
  <2>5. Sound' BY <2>4 DEF Restart, Sound
  <2>6. InPlace' BY <2>1, <2>5 DEF IndInv, TypeOK
  <2> QED BY <2>1, <2>4, <2>6 DEF InPlace, Trusted, Guarded, Restart
<1> QED BY <1>1, Invariance, PTL DEF Spec, BootsOnItsData

\* A thread selects PostgreSQL in the saved configuration only where it applies the cutover.
LEMMA OnlyApplySwitches ==
  ASSUME TypeOK, InPlace, Shapes, NEW j \in Jobs, Thread(j),
         disk # "postgres", disk' = "postgres"
  PROVE  Apply_database_config(j)
<1> USE DEF world, records
<1>s. ServiceShape(j) /\ BackShape(j) BY DEF Shapes, Shaped
<1>1. CASE Switch(j)
  BY <1>s, <1>1 DEF Switch, Set_database_entries, At, ServiceShape, Before, Copied, Saved
<1>2. CASE R_config(j) BY <1>2 DEF R_config
<1>3. CASE Restore_database_entries(j)
  BY <1>s, <1>3 DEF Restore_database_entries, At, BackShape, OnSqlite
<1>4. CASE Failing(j) BY <1>4 DEF Failing, Fault
<1> QED
  BY <1>1, <1>2, <1>3, <1>4
     DEF Thread, JobStep, RestoreStep, Begin, Config_backup, Stop, Backup_sqlite, Checkpoint,
         Initialize_stage, Prepare_service_schema, Schema_done, Prepare_target_for_import,
         Converted_import_batches, Reset_postgres_sequences, Imported, Validate_row_counts,
         Validate_digests, Validate_postgres_foreign_keys,
         Validate_infinidysk_postgres_schema, Validate, Compare, Drop_stage, Start_postgres,
         Wait_for_running_service, Finalize, Record_completion, Complete, Except, R_stop,
         R_data, Clear_authorization, R_start, R_healthy, Report, Reports

\* While services stop when they are told to: when the saved configuration turns to PostgreSQL, the snapshot that was imported still
\* holds all that SQLite holds, and InfiniDysk's cutover was rehearsed as it is.
THEOREM PostgresCutoverKeepsWrites ==
  ASSUME \A k \in Kinds : Sheltered(k) PROVE Spec => CutoverKeepsWrites
<1> DEFINE Kept_by(j) ==
      /\ pc[j] = "apply" /\ j \in fresh /\ job[j].mode = "cutover"
      /\ Guarded => \E i \in Jobs : /\ job[i].status = "completed"
                                    /\ job[i].mode = "rehearsal"
                                    /\ job[i].bind = binding
<1>1. IndInv /\ [Next]_vars
        => [Sound /\ disk # "postgres" /\ disk' = "postgres"
              => \E j \in Jobs : Kept_by(j)]_vars
  <2> SUFFICES ASSUME IndInv, [Next]_vars, Sound, disk # "postgres", disk' = "postgres"
               PROVE  \E j \in Jobs : Kept_by(j)
    OBVIOUS
  <2>1. TypeOK /\ InPlace /\ Shapes /\ Sheltered(kind) BY DEF IndInv, TypeOK
  <2>2. ASSUME NEW j \in Jobs, Thread(j) PROVE Kept_by(j)
    <3>1. Apply_database_config(j) BY <2>1, <2>2, OnlyApplySwitches
    <3>2. ServiceShape(j) /\ RecordShape(j) /\ Rehearsed(j) /\ pc[j] = "apply"
      BY <2>1, <3>1 DEF Shapes, Shaped, Apply_database_config, At
    <3>3. Cutover(j) BY <3>2 DEF RecordShape
    <3>4. j \in fresh BY <3>2, <3>3 DEF ServiceShape, Copied, Saved, Importing
    <3>5. Guarded => Matching_rehearsal(binding) BY <3>2, <3>3 DEF Rehearsed, Forward
    <3> QED BY <3>2, <3>3, <3>4, <3>5 DEF Cutover, Matching_rehearsal
  <2>3. ~Save_config /\ ~Restart
    BY <2>1 DEF Save_config, Restart, Adopted, Sheltered, InPlace, Guarded
  <2>4. ASSUME NEW j \in Jobs,
               LeaveStep(j) \/ Rollback_job(j) \/ Fault(j) \/ Swallowed_stop(j)
        PROVE  FALSE
    BY <2>4 DEF LeaveStep, Resave, End, Late_save, Late_end, Rollback_job, Fault,
                Swallowed_stop, world
  <2> QED
    BY <2>2, <2>3, <2>4 DEF Next, Thread, Create_job, Lifecycle, Write, Upgrade,
                            Namespace, vars, world
<1> QED BY <1>1, Invariance, PTL DEF Spec, CutoverKeepsWrites

\* Only the report of a way back calls a job rolled back.
LEMMA OnlyReportRollsBack ==
  ASSUME TypeOK, NEW j \in Jobs, Thread(j), job[j].status # job'[j].status,
         job'[j].status \in {"failed_rolled_back", "rolled_back"}
  PROVE  Report(j)
<1> USE DEF world, records, Save
<1>t. job \in [Jobs -> JobRecord] BY DEF TypeOK
<1>r. job[j] \in JobRecord BY <1>t
<1>1. CASE Begin(j) BY <1>t, <1>r, <1>1 DEF Begin, JobRecord
<1>2. CASE Checkpoint(j) BY <1>t, <1>r, <1>2 DEF Checkpoint, JobRecord
<1>3. CASE Drop_stage(j) BY <1>t, <1>r, <1>3 DEF Drop_stage, JobRecord
<1>4. CASE Finalize(j) BY <1>t, <1>r, <1>4 DEF Finalize, JobRecord
<1>5. CASE Complete(j) BY <1>t, <1>r, <1>5 DEF Complete, JobRecord
<1>6. CASE Except(j) BY <1>t, <1>r, <1>6 DEF Except, JobRecord
<1>7. CASE Failing(j) BY <1>7 DEF Failing, Fault
<1> QED
  BY <1>1, <1>2, <1>3, <1>4, <1>5, <1>6, <1>7
     DEF Thread, JobStep, RestoreStep, Config_backup, Stop, Backup_sqlite,
         Initialize_stage, Prepare_service_schema, Schema_done, Switch,
         Prepare_target_for_import,
         Converted_import_batches, Reset_postgres_sequences, Imported, Validate_row_counts,
         Validate_digests, Validate_postgres_foreign_keys,
         Validate_infinidysk_postgres_schema, Validate, Compare, Apply_database_config,
         Start_postgres, Wait_for_running_service, Record_completion, R_stop,
         R_data, R_config, Restore_database_entries, Clear_authorization, R_start, R_healthy

\* A job that is called rolled back has brought the service back to SQLite, if the
\* service did stop when it was told to.
THEOREM PostgresRolledBackIsSqlite ==
  ASSUME \A k \in Kinds : Sheltered(k) PROVE Spec => RolledBackIsSqlite
<1> DEFINE Back == disk = "sqlite" /\ mem = "sqlite" /\ app = "sqlite" /\ ~marker
                   /\ up \in {"sqlite", "down"}
<1>1. IndInv /\ [Next]_vars
        => [\A j \in Jobs :
              /\ Sound /\ job[j].status # job'[j].status
              /\ job'[j].status \in {"failed_rolled_back", "rolled_back"}
              => Back]_vars
  <2> SUFFICES ASSUME IndInv, [Next]_vars, Sound, NEW i \in Jobs,
                      job[i].status # job'[i].status,
                      job'[i].status \in {"failed_rolled_back", "rolled_back"}
               PROVE  Back
    OBVIOUS
  <2>1. TypeOK /\ Shapes BY DEF IndInv, TypeOK
  <2>t. job \in [Jobs -> JobRecord] /\ job[i] \in JobRecord BY <2>1 DEF TypeOK
  <2>2. ASSUME NEW j \in Jobs, Thread(j) PROVE Back
    <3>1. i = j BY <2>1, <2>2, OthersAlone
    <3>2. Report(j) BY <2>1, <2>2, <3>1, OnlyReportRollsBack
    <3>3. BackShape(j) /\ pc[j] = "report"
      BY <2>1, <3>2 DEF Shapes, Shaped, Report, Reports, At
    <3>4. loc[j].restored /\ bk[j] # "none"
      <4>1. job'[j] = Reported(j) /\ job[j] \in JobRecord
        BY <2>t, <3>1, <3>2 DEF Report, Reports, Save
      <4>2. CASE loc[j].by = "operator"
        <5>1. bk[j] = "full" BY <3>3, <4>2 DEF BackShape, Works, Leaving
        <5> QED BY <2>2, <3>1, <4>1, <4>2, <5>1 DEF Reported, JobRecord
      <4>3. CASE loc[j].by # "operator"
        BY <2>2, <3>1, <4>1, <4>3 DEF Reported, JobRecord
      <4> QED BY <4>2, <4>3
    <3> QED BY <3>3, <3>4 DEF BackShape, OnSqlite
  <2>3. ASSUME NEW j \in Jobs, NEW m \in {"rehearsal", "cutover"}, Create_job(j, m)
        PROVE  FALSE
    BY <2>t, <2>3 DEF Create_job, Save, NoJob
  <2>4. ASSUME NEW j \in Jobs, Rollback_job(j) PROVE FALSE
    <3>1. job' = [job EXCEPT ![j] = [job[j] EXCEPT !.status = "rolling_back"]]
          /\ job[j] \in JobRecord
      BY <2>t, <2>1, <2>4 DEF Rollback_job, Reserve_rollback, Save, TypeOK
    <3> QED BY <2>t, <3>1 DEF JobRecord
  <2>5. ASSUME Restart PROVE FALSE
    <3>1. job'[i] = Seen(job[i]) BY <2>5 DEF Restart
    <3>2. job[i].status \in Active
      BY <3>1 DEF Seen
    <3>3. job'[i] = [job[i] EXCEPT !.status = "interrupted"] BY <3>1, <3>2 DEF Seen
    <3>4. job'[i].status = "interrupted" BY <2>t, <3>3 DEF JobRecord
    <3> QED BY <3>4
  <2>6. ASSUME NEW j \in Jobs, LeaveStep(j) \/ Fault(j) \/ Swallowed_stop(j) PROVE FALSE
    <3>1. job' = job \/ job' = [job EXCEPT ![j] = job[j]]
          \/ job' = [job EXCEPT ![j] = kept[j]]
      BY <2>6 DEF LeaveStep, Resave, End, Late_save, Late_end, Fault, Swallowed_stop, Save,
                  records
    <3>2. kept[j].status \notin {"rolled_back", "failed_rolled_back"}
      BY DEF IndInv, KeptIsOver
    <3> QED BY <2>t, <3>1, <3>2
  <2> QED
    BY <2>2, <2>3, <2>4, <2>5, <2>6 DEF Next, Thread, Lifecycle, Save_config, Write, Upgrade,
                                        Namespace, vars, records
<1> QED BY <1>1, Invariance, PTL DEF Spec, RolledBackIsSqlite
=============================================================================
