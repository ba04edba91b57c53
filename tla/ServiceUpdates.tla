--------------------------- MODULE ServiceUpdates ---------------------------
(* Updates of managed services: utils/auto_update.py, with the threads that  *)
(* run it.  The scheduler runs the checks that are due, requests of the API  *)
(* update, start, restart and stop services, and main.py's starter starts    *)
(* every service once, in the order of its dependencies.  The admission lock *)
(* and the lock "updating" keep them apart.  A setup is the two steps an     *)
(* update sees of it (ServiceSetup is the detail), a candidate release three *)
(* (ReleaseTransaction).  Nothing here ends before DUMB is shut down.        *)
EXTENDS Integers, FiniteSets

CONSTANTS
  Services, Family,    \* and which of update_check's variants each has
  Candidates,    \* of them, the ones whose new release is built beside the old
  Unprotected,   \* the ones _snapshot_target names no directory for
  DataInTarget,      \* the ones whose database lies where their snapshot is taken
  RuntimeElsewhere,  \* the ones whose runtime does not
  Dependencies,  \* [Services -> SUBSET Services]: main.py's dependency map
  Mounts,        \* [Services -> SUBSET Services]: wait_for_mounts
  Boots, Requests, Scheduler, Nobody,   \* threads, and none
  Asked,         \* what is asked of the API
  Choices, Modes,    \* the selections an operator saves for each service, and the values
                     \* of auto_update_mode
  Configured,    \* the configurations DUMB is started with, each for the enabled services
  MaxVersion, MaxWrites, MaxSaves, MaxRequests, MaxFaults,
  Down, Torn, Api

Version == 1 .. MaxVersion
Threads == Boots \cup Requests \cup {Scheduler}
Kinds == {"none", "latest", "prerelease", "release", "pinned_version", "branch", "commit"}
Selections == [kind : Kinds, version : 0 .. MaxVersion]
\* A selection that pins a version names it.
Sources == {c \in Selections : c.kind \in {"commit", "release", "pinned_version"} => c.version # 0}
Updates == {"update", "override", "prerelease", "configured"}
Lifecycles == {"start", "restart"}

Families == {"repo", "arr", "jellyfin", "emby", "plex", "oci"}
Released == {"latest", "prerelease", "release"}    \* what sets release_version_enabled

ASSUME UpdatesAssumption ==
  /\ Family \in [Services -> Families]
  /\ {MaxVersion, MaxWrites, MaxSaves, MaxRequests, MaxFaults} \subseteq Nat
  /\ MaxVersion > 0
  /\ Candidates \subseteq {s \in Services : Family[s] = "repo"} /\ Unprotected \subseteq Services
  /\ DataInTarget \subseteq Services /\ RuntimeElsewhere \subseteq Services
  /\ Candidates \cap (Unprotected \cup DataInTarget \cup RuntimeElsewhere) = {}
  /\ Choices \in [Services -> SUBSET Sources] /\ Modes \subseteq {"off", "check_only", "install"}
  /\ \A c \in Configured :
       /\ DOMAIN c \subseteq Services
       /\ \A s \in DOMAIN c : c[s] \in [selection : Choices[s], auto : Modes]
  /\ Asked \subseteq Updates \cup Lifecycles \cup {"stop"}
  /\ {Dependencies, Mounts} \subseteq [Services -> SUBSET Services]
  /\ Services # {} /\ Boots \cap Requests = {} /\ Scheduler \notin Boots \cup Requests
  /\ Nobody \notin Threads /\ Down # Torn /\ {Down, Torn} \cap Version = {}
  /\ Api \notin Services

VARIABLES
  admission,   \* who holds INFINIDYSK_MIGRATION_ADMISSION_LOCK
  updating,    \* who holds Update.updating
  th,          \* what each thread is doing
  selection,   \* the source each service is configured for
  auto,        \* "off", "check_only" or "install"
  upstream,    \* the newest version
  runtime,     \* what is installed
  process,     \* what runs
  snapshot,    \* Update._rollback_snapshots
  data,        \* writes the service has kept
  written,     \* ghost: writes it has made
  jobs,        \* the jobs of the scheduler
  scheduler,   \* whether its loop runs
  spawned,     \* update_schedule threads not yet run
  pending, completed,   \* the starter's sets
  chosen,      \* ghost: the selection the operator last saved
  overlapped,  \* ghost: what it was saved for while boot's first check was under way
  saves, requests, faults

locks    == <<admission, updating>>
config   == <<selection, auto, chosen, overlapped>>
service  == <<runtime, process, snapshot, data, written>>
schedule == <<jobs, scheduler, spawned>>
starter  == <<pending, completed>>
bounds   == <<saves, requests, faults>>
vars == <<locks, th, config, upstream, service, schedule, starter, bounds>>

Content == Version \cup {Torn}
Process == Content \cup {Down}
None == [kind |-> "none", version |-> 0]
NoSnapshot == [runtime |-> Down, data |-> 0]
Idle == [pc |-> "idle", s |-> CHOOSE s \in Services : TRUE, why |-> "none", target |-> 0,
         result |-> "none", undo |-> FALSE, original |-> None, guard |-> None, channel |-> None,
         moving |-> FALSE, was |-> Down, had |-> Torn, kept |-> 0, calm |-> FALSE,
         faults |-> 0]

-----------------------------------------------------------------------------
(* Helpers.                                                                  *)

Get_update_block_reason(c) == c.kind \in {"pinned_version", "commit", "branch", "release"}

\* The checks: the status of a service on r that is configured for c.
Status(c, wanted, r) ==
  IF wanted = r THEN "no_update"
  ELSE IF Get_update_block_reason(c) THEN "blocked" ELSE "update_available"
Manual_check_generic_repo(c, r) ==
  IF c.kind = "commit" THEN "blocked"
  ELSE Status(c, IF c.kind = "release" THEN c.version ELSE upstream, r)
Manual_check_arr(c, r) ==
  IF c.kind \in Released THEN Manual_check_generic_repo(c, r) ELSE Status(c, upstream, r)
Manual_check_jellyfin(c, r) == Status(c, upstream, r)
Manual_check_emby(c, r) == Status(c, upstream, r)
Manual_check_plex(c, r) == Status(c, upstream, r)
Manual_check_oci(c, r) == Status(c, IF c.kind = "release" THEN c.version ELSE upstream, r)
Manual_update_check_internal(s) ==
  LET c == selection[s] r == runtime[s] IN
  CASE Family[s] = "repo" -> Manual_check_generic_repo(c, r)
    [] Family[s] = "arr" -> Manual_check_arr(c, r)
    [] Family[s] = "jellyfin" -> Manual_check_jellyfin(c, r)
    [] Family[s] = "emby" -> Manual_check_emby(c, r)
    [] Family[s] = "plex" -> Manual_check_plex(c, r)
    [] Family[s] = "oci" -> Manual_check_oci(c, r)

\* The variants of update_check, which decide anew: the version each goes to, or 0.
Unless(v, r) == IF v = r THEN 0 ELSE v
Update_check_repo(c, r) == Unless(upstream, r)    \* whatever version is pinned
Update_check_pinned_version(c, r) == Unless(c.version, r)
Update_check_arr_latest(c, r) ==
  IF c.kind \in Released THEN Update_check_repo(c, r)
  ELSE IF c.kind = "pinned_version" THEN Update_check_pinned_version(c, r)
  ELSE Unless(upstream, r)
Update_check_jellyfin_latest(c, r) ==
  IF c.kind = "pinned_version" THEN Update_check_pinned_version(c, r) ELSE Unless(upstream, r)
\* A version is never called "latest" or "prerelease", so these are always installed.
Update_check_emby_latest(c, r) ==
  IF c.kind = "release" THEN Update_check_pinned_version(c, r)
  ELSE IF c.kind \in Released THEN upstream ELSE Unless(upstream, r)
Update_check_plex(c, r) ==
  IF c.kind = "pinned_version" /\ c.version # upstream THEN 0 ELSE Unless(upstream, r)
Update_check_oci(c, r) == IF c.kind = "release" THEN 0 ELSE Unless(upstream, r)
Update_target(s) ==
  LET c == selection[s] r == runtime[s] IN
  IF c.kind = "commit" THEN 0
  ELSE CASE Family[s] = "repo" -> Update_check_repo(c, r)
         [] Family[s] = "arr" -> Update_check_arr_latest(c, r)
         [] Family[s] = "jellyfin" -> Update_check_jellyfin_latest(c, r)
         [] Family[s] = "emby" -> Update_check_emby_latest(c, r)
         [] Family[s] = "plex" -> Update_check_plex(c, r)
         [] Family[s] = "oci" -> Update_check_oci(c, r)

\* The generic variant and the Arr services' that falls through to it.
Generic(s) ==
  \/ Family[s] = "repo"
  \/ Family[s] = "arr" /\ selection[s].kind \in Released
\* What setup_project alone installs: a pinned version, and any of Emby's.
Setup_installs(s) ==
  \/ Family[s] = "emby"
  \/ Family[s] \in {"arr", "jellyfin"} /\ selection[s].kind = "pinned_version"

\* What setup_project brings a service to.
Configured_target(c) ==
  IF c.kind \in {"commit", "release", "pinned_version"} THEN c.version ELSE upstream

\* The fields of temporary_source_guard: release_version is not one of them.
Source_guard(c) ==
  IF c.kind \in Released THEN [kind |-> "release", version |-> 0]
  ELSE c

Snapshot_target(s) == s \notin Unprotected

Fault == faults < MaxFaults /\ faults' = faults + 1
Sound == UNCHANGED faults

Enabled == DOMAIN selection
S(t)   == th[t].s
Sel(t) == selection[S(t)]
At(t, pc) == th[t].pc = pc
To(t, pc) == th' = [th EXCEPT ![t].pc = pc]
Boot_like(t) == th[t].why \in Lifecycles \cup {"boot"}

\* Emby's newest release is installed where none is selected.
Emby_selects(t) ==
  Family[S(t)] = "emby" /\ th[t].why # "configured" /\ Sel(t).kind \notin Released

\* Where an update goes on after its last step, or after the undoing of it.
After(t) == IF updating = t \/ Boot_like(t) THEN "leave" ELSE "finally"
End(t, r) ==
  th' = [th EXCEPT ![t].pc = After(t),
                   ![t].result = IF th[t].undo THEN th[t].result ELSE r]

Take(t, s, why, pc) == th' = [th EXCEPT ![t] = [Idle EXCEPT !.pc = pc, !.s = s, !.why = why]]
Put_down(t) == th' = [th EXCEPT ![t] = Idle]
Give_back(lock, t) == IF lock = t THEN Nobody ELSE lock

-----------------------------------------------------------------------------
(* The operator, upstream and the services.                                  *)

\* Boot's first check holds no lock that a save waits for.  It has looked at the pins,
\* and has not written a release yet or put one back.
First_check(b) ==
  th[b].pc \in {"updating", "initial", "check", "record", "stop", "stopping", "emby", "setup"}

\* update_config waits for the admission lock and keeps it to its end.
Save(s, c, a) ==
  /\ admission = Nobody /\ saves < MaxSaves /\ saves' = saves + 1
  /\ selection' = [selection EXCEPT ![s] = c]
  /\ chosen' = [chosen EXCEPT ![s] = c]
  /\ auto' = [auto EXCEPT ![s] = a]
  /\ overlapped' = IF \E b \in Boots : S(b) = s /\ First_check(b)
                   THEN overlapped \cup {s} ELSE overlapped \ {s}
  /\ UNCHANGED <<locks, th, upstream, service, schedule, starter, requests, faults>>

Publish ==
  /\ upstream < MaxVersion /\ upstream' = upstream + 1
  /\ UNCHANGED <<locks, th, config, service, schedule, starter, bounds>>

Write(s) ==
  /\ process[s] \in Version /\ written[s] < MaxWrites
  /\ data' = [data EXCEPT ![s] = @ + 1]
  /\ written' = [written EXCEPT ![s] = @ + 1]
  /\ UNCHANGED <<locks, th, config, upstream, runtime, process, snapshot, schedule,
                 starter, bounds>>

-----------------------------------------------------------------------------
(* The scheduler.                                                            *)

\* update_schedule, in the thread that _auto_update_admitted starts for it.
Update_schedule(s) ==
  /\ s \in spawned /\ spawned' = spawned \ {s}
  /\ IF selection[s].kind = "commit"
     THEN jobs' = jobs \ {s} /\ UNCHANGED scheduler
     ELSE jobs' = jobs \cup {s} /\ scheduler' = TRUE
  /\ UNCHANGED <<locks, th, config, upstream, service, starter, bounds>>

\* A request that takes no lock.
Reschedule_auto_update(s) ==
  /\ requests < MaxRequests /\ requests' = requests + 1
  /\ IF auto[s] = "off" \/ Get_update_block_reason(selection[s])
     THEN jobs' = jobs \ {s} /\ UNCHANGED scheduler
     ELSE jobs' = jobs \cup {s} /\ scheduler' = TRUE
  /\ UNCHANGED <<locks, th, config, upstream, service, spawned, starter, saves, faults>>

Run_scheduled_update_if_due(s) ==
  LET t == Scheduler IN
  /\ scheduler /\ At(t, "idle") /\ s \in jobs
  /\ IF Get_update_block_reason(selection[s])
     THEN jobs' = jobs \ {s} /\ UNCHANGED th
     ELSE auto[s] # "off" /\ Take(t, s, "scheduled", "admission") /\ UNCHANGED jobs
  /\ UNCHANGED <<locks, config, upstream, service, scheduler, spawned, starter, bounds>>

-----------------------------------------------------------------------------
(* What an update is preceded by.                                            *)

Ask(t, s, why) ==
  /\ t \in Requests /\ At(t, "idle")
  /\ requests < MaxRequests /\ requests' = requests + 1
  /\ Take(t, s, why, "admission")
  /\ UNCHANGED <<locks, config, upstream, service, schedule, starter, saves, faults>>

\* With what the service was then, for the properties.
Take_admission(t) ==
  LET s == S(t) IN
  /\ At(t, "admission") /\ admission = Nobody /\ admission' = t
  /\ th' = [th EXCEPT ![t] = [@ EXCEPT !.pc = "judge", !.was = process[s], !.had = runtime[s],
                                       !.kept = data[s], !.calm = s \in completed,
                                       !.faults = faults]]
  /\ UNCHANGED <<updating, config, upstream, service, schedule, starter, bounds>>

Return(t) ==
  /\ admission' = Give_back(admission, t) /\ Put_down(t)
  /\ UNCHANGED <<updating, config, upstream, service, schedule, starter, bounds>>

\* Mutant: what the check found out before the lock was taken still holds.
Scheduled_update_check_BugTrustsTheJob(t) ==
  /\ At(t, "judge") /\ th[t].why = "scheduled"
  /\ \/ auto[S(t)] = "install" /\ To(t, "updating")
        /\ UNCHANGED <<locks, config, upstream, service, schedule, starter, bounds>>
     \/ Return(t)

\* The check may fail, and media protection may defer the update.
Scheduled_update_check(t) ==
  /\ At(t, "judge") /\ th[t].why = "scheduled"
  /\ \/ /\ Manual_update_check_internal(S(t)) = "update_available"
        /\ auto[S(t)] # "check_only"
        /\ To(t, "updating")
        /\ UNCHANGED <<locks, config, upstream, service, schedule, starter, bounds>>
     \/ Return(t)

Refused(t) ==
  IF Get_update_block_reason(Sel(t)) THEN th[t].why \in {"update", "prerelease"}
  ELSE th[t].why = "configured"

\* Media protection may defer what is not refused.
Manual_update_install(t) ==
  /\ At(t, "judge") /\ th[t].why \in Updates
  /\ \/ /\ th' = [th EXCEPT ![t].pc = "updating",
                             ![t].result = IF Refused(t) THEN "refused" ELSE @]
        /\ UNCHANGED <<locks, config, upstream, service, schedule, starter, bounds>>
     \/ ~ Refused(t) /\ Return(t)

Take_updating(t) ==
  /\ At(t, "updating") /\ updating = Nobody /\ updating' = t
  /\ To(t, IF th[t].why \in Updates THEN "select" ELSE IF Boot_like(t) THEN "initial" ELSE "check")
  /\ UNCHANGED <<admission, config, upstream, service, schedule, starter, bounds>>

\* Mutant: the pins an override clears are still expected when it is over.
Select_source_BugOldGuard(t) ==
  /\ At(t, "select")
  /\ IF Refused(t)
     THEN End(t, IF th[t].result = "refused" THEN "refused" ELSE "failed")
          /\ UNCHANGED selection
     ELSE /\ selection' = [selection EXCEPT ![S(t)] =
               IF th[t].why = "override" THEN None
               ELSE IF th[t].why = "prerelease" THEN [kind |-> "prerelease", version |-> 0] ELSE @]
          /\ th' = [th EXCEPT ![t].original = Sel(t), ![t].guard = Source_guard(Sel(t)),
                              ![t].pc = IF th[t].why = "configured" THEN "configured" ELSE "check"]
  /\ UNCHANGED <<locks, auto, chosen, overlapped, upstream, service, schedule, starter, bounds>>

\* _manual_update_install_unprotected looks at the live configuration again, and
\* changes it for the time of the update.
Select_source(t) ==
  /\ At(t, "select")
  /\ IF Refused(t)
     THEN End(t, IF th[t].result = "refused" THEN "refused" ELSE "failed")
          /\ UNCHANGED selection
     ELSE LET chosen_for == IF th[t].why = "override" THEN None
                            ELSE IF th[t].why = "prerelease"
                                 THEN [kind |-> "prerelease", version |-> 0]
                                 ELSE Sel(t)
          IN /\ selection' = [selection EXCEPT ![S(t)] = chosen_for]
             /\ th' = [th EXCEPT ![t].original = Sel(t), ![t].guard = Source_guard(chosen_for),
                                 ![t].pc = IF th[t].why = "configured" THEN "configured"
                                           ELSE "check"]
  /\ UNCHANGED <<locks, auto, chosen, overlapped, upstream, service, schedule, starter, bounds>>

-----------------------------------------------------------------------------
(* The update itself.                                                        *)

\* The version is 0 where the installer asks again which is the newest.
Begin_install(t, v) ==
  th' = [th EXCEPT ![t].target = v,
                   ![t].pc = IF S(t) \in Candidates THEN "build" ELSE "stop"]

Brought(t) == IF th[t].target = 0 THEN upstream ELSE th[t].target

\* compare_versions and the installers ask the network; the selection is not read
\* again after it.
Update_check(t) ==
  LET s == S(t) v == Update_target(s) IN
  /\ At(t, "check")
  /\ \/ v = 0 /\ End(t, "no_update") /\ Sound
     \/ /\ v # 0 /\ Sound
        /\ IF Generic(s) /\ Sel(t).kind \notin {"prerelease", "branch"}
           THEN th' = [th EXCEPT ![t].pc = "record", ![t].target = v]
           ELSE Begin_install(t, IF Setup_installs(s) THEN v ELSE 0)
     \/ Fault /\ End(t, "failed")
  /\ UNCHANGED <<locks, config, upstream, service, schedule, starter, saves, requests>>

\* A release that is no nightly or prerelease is written into the configuration as
\* the version it is, and so becomes a pin where a release is selected.
Record_release(t) ==
  LET c == [kind |-> "release", version |-> th[t].target] IN
  /\ At(t, "record") /\ Begin_install(t, th[t].target)
  /\ selection' = [selection EXCEPT ![S(t)] = IF @.kind \in Released THEN c ELSE @]
  /\ UNCHANGED <<locks, auto, chosen, overlapped, upstream, service, schedule, starter, bounds>>

\* What is configured is left to setup_project, but for a candidate.
Install_configured_target(t) ==
  /\ At(t, "configured") /\ Begin_install(t, Configured_target(Sel(t)))
  /\ UNCHANGED <<locks, config, upstream, service, schedule, starter, bounds>>

\* Update.stop_process: what runs is copied, then stopped.
Capture_rollback_snapshot(t) ==
  LET s == S(t) IN
  /\ At(t, "stop")
  /\ \/ /\ To(t, "stopping") /\ Sound
        /\ snapshot' = IF process[s] # Down /\ Snapshot_target(s) /\ snapshot[s] = NoSnapshot
                       THEN [snapshot EXCEPT ![s] = [runtime |-> runtime[s], data |-> data[s]]]
                       ELSE snapshot
     \/ /\ process[s] # Down /\ Snapshot_target(s) /\ snapshot[s] = NoSnapshot
        /\ Fault /\ End(t, "failed") /\ UNCHANGED snapshot
  /\ UNCHANGED <<locks, config, upstream, runtime, process, data, written, schedule, starter,
                 saves, requests>>

Stop_process(t) ==
  LET whole == th[t].why = "configured" \/ Setup_installs(S(t)) IN
  /\ At(t, "stopping")
  /\ To(t, IF Emby_selects(t) THEN "emby" ELSE IF whole THEN "setup" ELSE "install")
  /\ process' = [process EXCEPT ![S(t)] = Down]
  /\ UNCHANGED <<locks, config, upstream, runtime, snapshot, data, written, schedule,
                 starter, bounds>>

\* update_check_emby_latest tells setup_project by way of the configuration.
Select_emby_release(t) ==
  /\ At(t, "emby")
  /\ th' = [th EXCEPT ![t].pc = "setup", ![t].channel = Sel(t), ![t].moving = TRUE]
  /\ selection' = [selection EXCEPT ![S(t)] = [kind |-> "release", version |-> th[t].target]]
  /\ UNCHANGED <<locks, auto, chosen, overlapped, upstream, service, schedule, starter, bounds>>

\* setup_release_version, or the installer the service has in its place: it overwrites.
Setup_release_version(t) ==
  LET s == S(t) IN
  /\ At(t, "install")
  /\ \/ runtime' = [runtime EXCEPT ![s] = Torn] /\ To(t, "setup") /\ Sound
     \/ /\ \E v \in {runtime[s], Torn} : runtime' = [runtime EXCEPT ![s] = v]
        /\ Fault /\ End(t, "failed")
  /\ UNCHANGED <<locks, config, upstream, process, snapshot, data, written, schedule,
                 starter, saves, requests>>

\* Afterwards update_check_emby_latest puts the two fields of the release back, over
\* whatever was saved meanwhile.
Setup_project(t) ==
  LET s == S(t) IN
  /\ At(t, "setup")
  /\ \/ /\ runtime' = [runtime EXCEPT ![s] =
                         IF th[t].moving THEN Configured_target(Sel(t)) ELSE Brought(t)]
        /\ To(t, "start") /\ Sound
     \/ /\ \E w \in {runtime[s], Torn} : runtime' = [runtime EXCEPT ![s] = w]
        /\ Fault /\ End(t, "failed")
  /\ selection' = IF th[t].moving /\ Sel(t).kind \in Released
                  THEN [selection EXCEPT ![s] = th[t].channel] ELSE selection
  /\ UNCHANGED <<locks, auto, chosen, overlapped, upstream, process, snapshot, data, written,
                 schedule, starter, saves, requests>>

\* The candidate is built and verified while the old release runs.
Build_candidate(t) ==
  /\ At(t, "build")
  /\ \/ To(t, "activate") /\ Sound
     \/ Fault /\ End(t, "failed")
  /\ UNCHANGED <<locks, config, upstream, service, schedule, starter, saves, requests>>

\* The previous release, which the transaction keeps, stands where a snapshot would.
Activate_candidate(t) ==
  LET s == S(t) IN
  /\ At(t, "activate")
  /\ process' = [process EXCEPT ![s] = Down]
  /\ runtime' = [runtime EXCEPT ![s] = Brought(t)]
  /\ snapshot' = [snapshot EXCEPT ![s] = [runtime |-> runtime[s], data |-> data[s]]]
  /\ \/ To(t, "start") /\ Sound
     \/ Fault /\ th' = [th EXCEPT ![t].pc = "recover", ![t].result = "failed"]
  /\ UNCHANGED <<locks, config, upstream, data, written, schedule, starter, saves, requests>>

-----------------------------------------------------------------------------
(* Starting a service, and going back to what ran before.                    *)

Roll_back(t) == th' = [th EXCEPT ![t].pc = "recover", ![t].result = "failed"]

\* _finalize_runtime_snapshot, when there is no process or it is not healthy.
Not_running(t) ==
  IF snapshot[S(t)] # NoSnapshot THEN Roll_back(t) ELSE End(t, "failed")

\* The mounts are waited for with whatever is held; the launch takes the admission
\* lock for a moment.
Start_process(t) ==
  LET s == S(t) IN
  /\ At(t, "start")
  /\ \A m \in Mounts[s] : process[m] # Down
  /\ admission \in {Nobody, t}
  /\ \/ /\ process' = [process EXCEPT ![s] = IF @ = Down THEN runtime[s] ELSE @]
        /\ To(t, "health") /\ Sound
     \/ process[s] = Down /\ Fault /\ Not_running(t) /\ UNCHANGED process
  /\ UNCHANGED <<locks, config, upstream, runtime, snapshot, data, written, schedule, starter,
                 saves, requests>>

\* Mutant: the snapshot is given up before the new process has shown it is well.
Wait_for_update_health_BugCommitsFirst(t) ==
  LET s == S(t) IN
  /\ At(t, "health")
  /\ \/ process[s] \in Version /\ End(t, "updated") /\ Sound
     \/ process[s] \notin Version /\ End(t, "failed") /\ Sound
     \/ Fault /\ End(t, "failed")
  /\ snapshot' = [snapshot EXCEPT ![s] = NoSnapshot]
  /\ UNCHANGED <<locks, config, upstream, runtime, process, data, written, schedule, starter,
                 saves, requests>>

Wait_for_update_health(t) ==
  LET s == S(t) IN
  /\ At(t, "health")
  /\ \/ /\ process[s] \in Version /\ End(t, "updated") /\ Sound
        /\ snapshot' = [snapshot EXCEPT ![s] = NoSnapshot]
     \/ process[s] \notin Version /\ Not_running(t) /\ Sound /\ UNCHANGED snapshot
     \/ Fault /\ Not_running(t) /\ UNCHANGED snapshot
  /\ UNCHANGED <<locks, config, upstream, runtime, process, data, written, schedule, starter,
                 saves, requests>>

\* The snapshot is gone whether or not it could be restored, and another thread may
\* have taken it.
Recover_pending_snapshot(t) ==
  LET s == S(t) IN
  /\ At(t, "recover") /\ snapshot' = [snapshot EXCEPT ![s] = NoSnapshot]
  /\ \/ /\ snapshot[s] # NoSnapshot /\ Sound
        /\ process' = [process EXCEPT ![s] = Down]
        /\ runtime' = [runtime EXCEPT ![s] = IF s \in RuntimeElsewhere THEN @
                                             ELSE snapshot[s].runtime]
        /\ data' = [data EXCEPT ![s] = IF s \in DataInTarget THEN snapshot[s].data ELSE @]
        /\ th' = [th EXCEPT ![t].pc = "start", ![t].undo = TRUE]
     \/ /\ snapshot[s] # NoSnapshot /\ Fault /\ To(t, After(t))
        /\ process' = [process EXCEPT ![s] = Down] /\ UNCHANGED <<runtime, data>>
     \/ /\ snapshot[s] = NoSnapshot /\ Sound /\ To(t, After(t))
        /\ UNCHANGED <<process, runtime, data>>
  /\ UNCHANGED <<locks, config, upstream, written, schedule, starter, saves, requests>>

-----------------------------------------------------------------------------
(* How an update ends.                                                       *)

\* A scheduled one that is not successful is undone, then raises what no caller
\* catches: the thread of the scheduler ends.
Leave_scheduled(t) ==
  LET pending_snapshot == th[t].result # "updated" /\ snapshot[S(t)] # NoSnapshot IN
  /\ At(t, "leave") /\ th[t].why = "scheduled"
  /\ IF pending_snapshot
     THEN To(t, "recover") /\ UNCHANGED <<locks, scheduler>>
     ELSE /\ Put_down(t)
          /\ updating' = Nobody /\ admission' = Nobody
          /\ scheduler' = (scheduler /\ th[t].result # "failed")
  /\ UNCHANGED <<config, upstream, service, jobs, spawned, starter, bounds>>

\* Mutant: a second install of a service leaves the lock where it was.
Leave_manual_BugKeepsLock(t) ==
  /\ At(t, "leave") /\ th[t].why \in Updates
  /\ selection' = IF Source_guard(Sel(t)) = th[t].guard
                  THEN [selection EXCEPT ![S(t)] = th[t].original] ELSE selection
  /\ To(t, "finally")
  /\ UNCHANGED <<locks, auto, chosen, overlapped, upstream, service, schedule, starter, bounds>>

\* The selection is put back unless it is no longer the one that was put in its place.
Leave_manual(t) ==
  /\ At(t, "leave") /\ th[t].why \in Updates
  /\ selection' = IF Source_guard(Sel(t)) = th[t].guard
                  THEN [selection EXCEPT ![S(t)] = th[t].original] ELSE selection
  /\ updating' = Nobody /\ To(t, "finally")
  /\ UNCHANGED <<admission, auto, chosen, overlapped, upstream, service, schedule, starter,
                 bounds>>

Finally_manual(t) ==
  /\ At(t, "finally")
  /\ IF th[t].result = "failed" /\ snapshot[S(t)] # NoSnapshot
     THEN /\ To(t, "recover")
          /\ UNCHANGED <<locks, config, upstream, service, schedule, starter, bounds>>
     ELSE Return(t)

-----------------------------------------------------------------------------
(* Starting: the starter of main.py and the requests.                        *)

Start_key(b, s) ==
  /\ b \in Boots /\ At(b, "idle")
  /\ s \in pending /\ Dependencies[s] \cap Enabled \subseteq completed
  /\ pending' = pending \ {s} /\ Take(b, s, "boot", "auto_update")
  /\ UNCHANGED <<locks, config, upstream, service, schedule, completed, bounds>>

\* What a setup outside an update leaves: ServiceSetup says which of them.
Set_up(s) == {runtime[s], Configured_target(selection[s])}

\* What a version is pinned for is installed, what follows a channel is as it was.
Should_run_install_phase_for_preinstalled(s) ==
  /\ Get_update_block_reason(selection[s])
  /\ runtime[s] # Configured_target(selection[s])

\* stop_service and restart_service, which media protection may defer.
Stop_service(t) ==
  LET s == S(t) IN
  /\ At(t, "judge") /\ th[t].why \in {"stop", "restart"}
  /\ \/ Return(t)
     \/ /\ process' = [process EXCEPT ![s] = Down]
        /\ IF th[t].why = "restart" THEN To(t, "auto_update") /\ UNCHANGED admission
           ELSE Put_down(t) /\ admission' = Nobody
        /\ UNCHANGED <<updating, config, upstream, runtime, snapshot, data, written, schedule,
                       starter, bounds>>

\* start_service, which may set the project up first.
Start_service(t) ==
  LET s == S(t) IN
  /\ At(t, "judge") /\ th[t].why = "start"
  /\ \/ /\ \E v \in {runtime[s]} \cup Set_up(s) : runtime' = [runtime EXCEPT ![s] = v]
        /\ To(t, "auto_update") /\ Sound /\ UNCHANGED admission
     \/ Fault /\ Put_down(t) /\ admission' = Nobody /\ UNCHANGED runtime
  /\ UNCHANGED <<updating, config, upstream, process, snapshot, data, written, schedule,
                 starter, saves, requests>>

\* The admission lock is held for the first look only, unless a request holds it.
Auto_update(t) ==
  LET s == S(t)
      enabled == auto[s] # "off" /\ ~ Get_update_block_reason(selection[s])
  IN
  /\ At(t, "auto_update") /\ admission \in {Nobody, t}
  /\ spawned' = IF enabled THEN spawned \cup {s} ELSE spawned
  /\ jobs' = IF selection[s].kind = "commit" THEN jobs \ {s} ELSE jobs
  /\ \/ enabled /\ To(t, "updating")
     \/ ~ enabled /\ To(t, "configure")
     \/ (enabled => th[t].why # "start") /\ To(t, "preinstalled")
  /\ UNCHANGED <<locks, config, upstream, service, scheduler, starter, bounds>>

Initial_update_check(t) ==
  /\ At(t, "initial")
  /\ \/ auto[S(t)] # "check_only" /\ To(t, "check") /\ Sound
     \/ auto[S(t)] = "check_only" /\ To(t, "start") /\ Sound
     \/ auto[S(t)] = "check_only" /\ Fault /\ End(t, "failed")
  /\ UNCHANGED <<locks, config, upstream, service, schedule, starter, saves, requests>>

\* A service that main.py has preinstalled; setup_project is tried where this fails.
Start_preinstalled(t) ==
  LET s == S(t) IN
  /\ At(t, "preinstalled")
  /\ \/ /\ runtime' = [runtime EXCEPT ![s] =
                         IF Should_run_install_phase_for_preinstalled(s)
                         THEN Configured_target(selection[s]) ELSE @]
        /\ To(t, "start") /\ Sound
     \/ Fault /\ To(t, "configure") /\ UNCHANGED runtime
  /\ UNCHANGED <<locks, config, upstream, process, snapshot, data, written, schedule, starter,
                 saves, requests>>

\* configure_project, or setup_project where that fails or something is not installed.
Configure_or_set_up(t) ==
  LET s == S(t) IN
  /\ At(t, "configure")
  /\ \/ /\ \E v \in Set_up(s) : runtime' = [runtime EXCEPT ![s] = v]
        /\ To(t, "start") /\ Sound
     \/ /\ Fault /\ End(t, "failed")
        /\ \E v \in {runtime[s], Torn} : runtime' = [runtime EXCEPT ![s] = v]
  /\ UNCHANGED <<locks, config, upstream, process, snapshot, data, written, schedule, starter,
                 saves, requests>>

\* Where the first update check found nothing the service is set up under the lock;
\* where it failed, without it.  The starter goes on even if the service did not start.
Leave_boot(t) ==
  LET again(held) == /\ th' = [th EXCEPT ![t].pc = "configure", ![t].result = "none",
                                         ![t].undo = FALSE]
                     /\ updating' = held /\ UNCHANGED <<admission, completed>>
  IN
  /\ At(t, "leave") /\ Boot_like(t)
  /\ IF updating = t /\ th[t].result = "no_update" THEN again(t)
     ELSE IF updating = t /\ th[t].result = "failed" THEN again(Nobody)
     ELSE /\ Put_down(t)
          /\ updating' = Give_back(updating, t) /\ admission' = Give_back(admission, t)
          /\ completed' = IF th[t].why = "boot" THEN completed \cup {S(t)} ELSE completed
  /\ UNCHANGED <<config, upstream, service, schedule, pending, bounds>>

-----------------------------------------------------------------------------

\* Every service is installed, none is started, and the API's own check is scheduled.
Init ==
  \E c \in Configured : LET enabled == DOMAIN c IN
    /\ selection = [s \in enabled |-> c[s].selection] /\ chosen = selection
    /\ auto = [s \in enabled |-> c[s].auto] /\ overlapped = {}
    /\ admission = Nobody /\ updating = Nobody
    /\ th = [t \in Threads |-> Idle]
    /\ upstream = 1 /\ runtime = [s \in enabled |-> 1]
    /\ process = [s \in enabled |-> Down]
    /\ snapshot = [s \in enabled |-> NoSnapshot]
    /\ data = [s \in enabled |-> 0] /\ written = data
    /\ jobs = {Api} /\ scheduler = TRUE /\ spawned = {}
    /\ pending = enabled /\ completed = {}
    /\ saves = 0 /\ requests = 0 /\ faults = 0

Next ==
  \/ \E s \in Enabled : \E c \in Choices[s], a \in Modes : Save(s, c, a)
  \/ Publish
  \/ \E s \in Enabled : Write(s)
  \/ \E s \in Enabled : Update_schedule(s)
  \/ \E s \in Enabled : Reschedule_auto_update(s)
  \/ \E s \in Enabled : Run_scheduled_update_if_due(s)
  \/ \E t \in Requests, s \in Enabled, why \in Asked : Ask(t, s, why)
  \/ \E b \in Boots, s \in Enabled : Start_key(b, s)
  \/ \E t \in Threads : Take_admission(t)
  \/ \E t \in Threads : Scheduled_update_check(t)
  \/ \E t \in Threads : Manual_update_install(t)
  \/ \E t \in Threads : Stop_service(t)
  \/ \E t \in Threads : Start_service(t)
  \/ \E t \in Threads : Auto_update(t)
  \/ \E t \in Threads : Take_updating(t)
  \/ \E t \in Threads : Initial_update_check(t)
  \/ \E t \in Threads : Start_preinstalled(t)
  \/ \E t \in Threads : Configure_or_set_up(t)
  \/ \E t \in Threads : Select_source(t)
  \/ \E t \in Threads : Install_configured_target(t)
  \/ \E t \in Threads : Update_check(t)
  \/ \E t \in Threads : Record_release(t)
  \/ \E t \in Threads : Capture_rollback_snapshot(t)
  \/ \E t \in Threads : Stop_process(t)
  \/ \E t \in Threads : Select_emby_release(t)
  \/ \E t \in Threads : Setup_release_version(t)
  \/ \E t \in Threads : Setup_project(t)
  \/ \E t \in Threads : Build_candidate(t)
  \/ \E t \in Threads : Activate_candidate(t)
  \/ \E t \in Threads : Start_process(t)
  \/ \E t \in Threads : Wait_for_update_health(t)
  \/ \E t \in Threads : Recover_pending_snapshot(t)
  \/ \E t \in Threads : Leave_scheduled(t)
  \/ \E t \in Threads : Leave_manual(t)
  \/ \E t \in Threads : Finally_manual(t)
  \/ \E t \in Threads : Leave_boot(t)

Spec == Init /\ [][Next]_vars

-----------------------------------------------------------------------------
(* Properties.                                                               *)

\* Every variable holds what it may; a thread past "updating" holds that lock, a
\* request or the scheduler past "admission" the other one.
Inside == {"initial", "select", "check", "record", "configured", "build", "activate", "emby"}
TypeOK ==
  /\ {admission, updating} \subseteq Threads \cup {Nobody}
  /\ \A t \in Threads :
       /\ S(t) \in Services
       /\ th[t].pc \in Inside => updating = t
       /\ updating = t => th[t].pc \notin {"idle", "admission", "judge", "finally", "auto_update",
                                           "preinstalled"}
       /\ admission = t <=> (t \notin Boots /\ th[t].pc \notin {"idle", "admission"})
  /\ {selection, chosen} \subseteq [Enabled -> Selections] /\ overlapped \subseteq Enabled
  /\ upstream \in Version /\ runtime \in [Enabled -> Content]
  /\ process \in [Enabled -> Process]
  /\ snapshot \in [Enabled -> [runtime : Process, data : 0 .. MaxWrites]]
  /\ {data, written} \subseteq [Enabled -> 0 .. MaxWrites]
  /\ jobs \subseteq Enabled \cup {Api} /\ spawned \subseteq Enabled
  /\ scheduler \in BOOLEAN
  /\ pending \subseteq Enabled /\ completed \subseteq Enabled
  /\ pending \cap completed = {}

\* A service whose operator has pinned it is not moved by an update nobody asked to
\* override the pin, whenever the pin was saved: _get_update_block_reason is asked
\* before and after the locks are waited for.  Emby's may have been lost (below).
PinnedNotUpdated ==
  [][\A t \in Threads, s \in Enabled :
       (th[t].s = s /\ th[t].why \in {"scheduled", "update"} /\ th'[t] # th[t]
        /\ runtime'[s] # runtime[s] /\ Family[s] # "emby")
       => ~ Get_update_block_reason(chosen[s])]_vars

\* An update of a running, started service that fails once leaves it running, on what
\* was installed before (_finalize_runtime_snapshot's "previous runtime restored"),
\* and with everything it has written; where its database lies among what is
\* restored, with everything it had written when the update began.
FailedUpdateKeepsService ==
  [][\A t \in Threads :
       LET s == S(t) IN
       (/\ th[t].why \in Updates \cup {"scheduled"} /\ th[t].result = "failed"
        /\ th'[t].pc = "idle" /\ th[t].calm /\ {th[t].was, th[t].had} \subseteq Version
        /\ s \notin Unprotected /\ faults <= th[t].faults + 1)
       => /\ s \notin RuntimeElsewhere
             => runtime'[s] = th[t].had /\ process'[s] \in {th[t].was, th[t].had}
          /\ data'[s] >= IF s \in DataInTarget THEN th[t].kept ELSE written'[s]]_vars

\* What an override, a prerelease or a release of Emby's changes in the selection
\* lasts as long as the update (_manual_update_install_unprotected's finally):
\* afterwards the service is configured as the operator saved it last.  An update of
\* a service that follows the latest release writes that release's version, and boot's
\* first check may write over a release that is saved while it is under way.
OverrideIsTemporary ==
  \A s \in Enabled :
    \/ \E t \in Threads : updating = t /\ S(t) = s
    \/ selection[s] = chosen[s]
    \/ chosen[s].kind = "latest" /\ selection[s].kind = "release"
    \/ /\ s \in overlapped /\ chosen[s].kind \in Released
       /\ selection[s].kind = "release" \/ Family[s] = "emby"

=============================================================================
