-------------------------- MODULE MediaProtection --------------------------
(***************************************************************************)
(* MediaProtectionManager (utils/media_protection.py): before a storage    *)
(* service goes down for an API request or an update, and when it exits by *)
(* itself, the media servers that read from it have their library scans    *)
(* guarded and are stopped; a monitor thread undoes both once the storage  *)
(* has been healthy for a while.  Incidents are saved at every change and  *)
(* loaded again when DUMB restarts.                                        *)
(*                                                                         *)
(* Durations, activity probes and policies are nondeterministic choices.   *)
(* The scan settings of a media server are one Boolean: switched off by    *)
(* DUMB or as the user has them.                                           *)
(***************************************************************************)
EXTENDS Integers, FiniteSets

CONSTANTS
  Stores, Media,      \* storage services and media servers (process names)
  Readers,            \* Readers[s]: media servers that use a mount of s
  ApiThreads,         \* serve stop and restart requests, lock held throughout
  UpdateThreads,      \* updates: lock held only while protection begins
  OutageThreads,      \* run begin_unplanned
  Monitor,            \* the media-protection-monitor thread
  MaxIncidents,       \* bound on incidents
  MaxFaults,          \* bound on failing calls to media servers
  MaxOutages,         \* bound on storage failures, and on media-server stops
  MaxCrashes,         \* bound on restarts of DUMB
  MaxMigrations,      \* bound on namespace migrations
  CrashAt,            \* control points at which DUMB may be killed
  PartialGuards,      \* may enter_scan_guard raise with settings changed?
  NoStore, NoMedia, NoThread

\* self.incidents keeps them in the order in which they were opened.
Ids == 1 .. MaxIncidents

NoId == 0
Planners == ApiThreads \cup UpdateThreads
Threads == Planners \cup OutageThreads \cup {Monitor}

ASSUME MediaAssumption ==
  /\ Readers \in [Stores -> SUBSET Media]
  /\ MaxFaults \in Nat /\ MaxOutages \in Nat /\ MaxCrashes \in Nat
  /\ MaxMigrations \in Nat /\ MaxIncidents \in Nat /\ PartialGuards \in BOOLEAN
  /\ NoStore \notin Stores /\ NoMedia \notin Media
  /\ NoThread \notin Threads
  /\ ApiThreads \cap UpdateThreads = {} /\ Planners \cap OutageThreads = {}
  /\ Monitor \notin Planners \cup OutageThreads

VARIABLES
  up,          \* storage services that are healthy, with their mounts in place
  running,     \* media servers that run
  guarded,     \* media servers whose scans DUMB has switched off
  incidents,   \* self.incidents, and the state file, which is always equal
  lock,        \* owner of INFINIDYSK_MIGRATION_ADMISSION_LOCK
  migration,   \* the namespace job: none, queued, working or interrupted
  pc, inc, tgt,     \* per thread: control point, incident, storage service
  todo, med, snap,  \* per thread: media servers left, current one, its guard_snapshot
  failed,           \* the recovery under way has met an error
  held,        \* media servers that are down because protection stopped them
  out,         \* storage services down by themselves, their outage dealt with
  faults, outages, crashes, migrations

world   == <<up, running, guarded, held, out>>
admit   == <<lock, migration, migrations>>
threads == <<pc, inc, tgt, todo, med, snap, failed>>
counts  == <<faults, outages, crashes>>
vars    == <<world, incidents, admit, threads, counts>>

Jobs == {"none", "queued", "working", "interrupted"}
Statuses == {"none", "active", "waiting_for_recovery", "recovering",
             "recovery_failed", "recovered"}
Incident == [target : Stores \cup {NoStore}, planned : BOOLEAN, status : Statuses,
             awaiting : BOOLEAN,      \* awaiting_operation_completion
             servers : SUBSET Media,  \* entries of media_servers
             guards : SUBSET Media,   \* ... that have a guard_snapshot
             changed : SUBSET Media,  \* ... whose snapshot lists a change
             stopped : SUBSET Media]  \* ... with stopped_by_dumb
Blank == [target |-> NoStore, planned |-> FALSE, status |-> "none",
          awaiting |-> FALSE, servers |-> {}, guards |-> {}, changed |-> {},
          stopped |-> {}]

BeginPCs   == {"guard", "record", "stop"}
RecoverPCs == {"revive", "restore", "settle"}
\* Control points inside begin_*_admitted, _recover_admitted and the idle stop.
ProtectPCs == BeginPCs \cup RecoverPCs \cup {"idle_mark"}
PCs == {"idle", "report", "operate", "start_again", "complete", "idle_stop", "ready",
        "recover"}
         \cup ProtectPCs

TypeOK ==
  /\ up \subseteq Stores /\ out \subseteq Stores /\ running \subseteq Media
  /\ guarded \subseteq Media /\ held \subseteq Media
  /\ incidents \in [Ids -> Incident]
  /\ lock \in Threads \cup {NoThread} /\ migration \in Jobs
  /\ pc \in [Threads -> PCs]
  /\ inc \in [Threads -> 0 .. MaxIncidents]
  /\ tgt \in [Threads -> Stores \cup {NoStore}]
  /\ todo \in [Threads -> SUBSET Media]
  /\ med \in [Threads -> Media \cup {NoMedia}]
  /\ snap \in [Threads -> {"none", "taken", "changed"}]
  /\ failed \in BOOLEAN
  /\ faults \in 0 .. MaxFaults /\ crashes \in 0 .. MaxCrashes
  /\ outages \in Nat /\ migrations \in Nat

Init ==
  /\ up = Stores /\ running = Media /\ guarded = {} /\ held = {} /\ out = {}
  /\ incidents = [i \in Ids |-> Blank]
  /\ lock = NoThread /\ migration = "none"
  /\ pc = [t \in Threads |-> "idle"] /\ inc = [t \in Threads |-> NoId]
  /\ tgt = [t \in Threads |-> NoStore]
  /\ todo = [t \in Threads |-> {}] /\ med = [t \in Threads |-> NoMedia]
  /\ snap = [t \in Threads |-> "none"]
  /\ failed = FALSE
  /\ faults = 0 /\ outages = 0 /\ crashes = 0 /\ migrations = 0

-----------------------------------------------------------------------------
(* Conditions of the code.                                                 *)

LockFree == lock = NoThread

\* infinidysk_namespace_migration_active(): also after an interruption.
Blocking == migration # "none"

\* A call returns: the thread's locals are gone.
Return(t) ==
  /\ pc' = [pc EXCEPT ![t] = "idle"]
  /\ inc' = [inc EXCEPT ![t] = NoId] /\ tgt' = [tgt EXCEPT ![t] = NoStore]
  /\ todo' = [todo EXCEPT ![t] = {}] /\ med' = [med EXCEPT ![t] = NoMedia]
  /\ snap' = [snap EXCEPT ![t] = "none"]

\* affected_media_servers: only those that run.
Affected(s) == Readers[s] \cap running

Unrecovered(i) == incidents[i].status \notin {"none", "recovered"}

\* begin_unplanned joins an incident of the same storage service.
Joinable == {"active", "waiting_for_recovery"}
Joins(i, s) == incidents[i].target = s /\ incidents[i].status \in Joinable

\* What the monitor goes through in each round.
Watched_BugNoHold(i) ==
  incidents[i].status \in {"active", "waiting_for_recovery", "recovery_failed"}
Watched(i) ==
  /\ incidents[i].status \in {"active", "waiting_for_recovery", "recovery_failed"}
  /\ ~incidents[i].awaiting

\* The check that _recover makes with the admission lock.
RecoveryRefused_BugIgnoresMigration == FALSE
RecoveryRefused == Blocking

\* _recover_admitted starts again what protection stopped.
NeedsStart(i, m) == m \in incidents[i].stopped /\ m \notin running

\* _load: no operation and no recovery has survived a restart of DUMB.
Loaded_BugKeepsHold(r) ==
  [r EXCEPT !.status = IF @ \in {"recovering", "recovery_failed"}
                         THEN "waiting_for_recovery" ELSE @]
Loaded(r) ==
  [r EXCEPT !.status = IF @ \in {"recovering", "recovery_failed"} \/ r.awaiting
                         THEN "waiting_for_recovery" ELSE @,
            !.awaiting = FALSE]

-----------------------------------------------------------------------------
(* begin_planned and begin_unplanned.                                      *)

NewIncident(s, planned) ==
  [Blank EXCEPT !.target = s, !.planned = planned, !.status = "active",
                !.awaiting = planned]

\* A new incident is saved before anything is done to a media server.
Opens(t, s, planned, i) ==
  /\ incidents[i].status = "none"
  /\ \A j \in Ids : j < i => incidents[j].status # "none"
  /\ incidents' = [incidents EXCEPT ![i] = NewIncident(s, planned)]
  /\ inc' = [inc EXCEPT ![t] = i] /\ tgt' = [tgt EXCEPT ![t] = s]
  /\ todo' = [todo EXCEPT ![t] = Affected(s)]
  /\ pc' = [pc EXCEPT ![t] = "guard"] /\ lock' = t
  /\ UNCHANGED <<med, snap, failed>>
OpenIncident(t, s, planned) == \E i \in Ids : Opens(t, s, planned, i)

\* A request or an update that is not deferred.  Without an affected media
\* server it goes ahead and has no token.
Plan(t, s) ==
  /\ pc[t] = "idle" /\ LockFree /\ ~Blocking
  /\ \/ /\ Affected(s) = {}
        /\ pc' = [pc EXCEPT ![t] = "operate"] /\ tgt' = [tgt EXCEPT ![t] = s]
        /\ inc' = [inc EXCEPT ![t] = NoId]
        /\ lock' = IF t \in ApiThreads THEN t ELSE lock
        /\ UNCHANGED <<incidents, todo, med, snap, failed>>
     \/ Affected(s) # {} /\ OpenIncident(t, s, TRUE)
  /\ UNCHANGED <<world, migration, migrations, counts>>

\* The thread that handle_unexpected_exit started gets the lock.
Report(t) ==
  /\ pc[t] = "report" /\ LockFree
  /\ LET s == tgt[t]
         joined == \E i \in Ids : Joins(i, s)
     IN \/ /\ Blocking \/ joined \/ Affected(s) = {}
           /\ Return(t)
           /\ out' = IF joined /\ ~Blocking /\ s \notin up THEN out \cup {s} ELSE out
           /\ UNCHANGED <<incidents, lock, failed>>
        \/ /\ ~Blocking /\ ~joined /\ Affected(s) # {}
           /\ OpenIncident(t, s, FALSE)
           /\ out' = IF s \notin up THEN out \cup {s} ELSE out
  /\ UNCHANGED <<up, running, guarded, held, migration, migrations, counts>>

\* enter_scan_guard returns a snapshot, or raises, having changed nothing or not all.
Guard(t) ==
  /\ pc[t] = "guard"
  /\ \E m \in todo[t] :
       /\ todo' = [todo EXCEPT ![t] = @ \ {m}]
       /\ med' = [med EXCEPT ![t] = m]
       /\ \/ /\ m \in running
             /\ guarded' = guarded \cup {m}
             /\ snap' = [snap EXCEPT ![t] = IF m \in guarded THEN "taken" ELSE "changed"]
             /\ UNCHANGED faults
          \/ /\ m \notin running \/ faults < MaxFaults
             /\ faults' = IF m \in running THEN faults + 1 ELSE faults
             /\ snap' = [snap EXCEPT ![t] = "none"]
             /\ guarded' \in {guarded} \cup
                  (IF PartialGuards /\ m \in running THEN {guarded \cup {m}} ELSE {})
  /\ pc' = [pc EXCEPT ![t] = "record"]
  /\ UNCHANGED <<up, running, held, out, incidents, admit, inc, tgt, failed, outages,
                 crashes>>

\* An incident with one more entry in media_servers.
WithEntry(r, m, guard, stops) ==
  [r EXCEPT !.servers = @ \cup {m},
            !.guards  = IF guard # "none" THEN @ \cup {m} ELSE @,
            !.changed = IF guard = "changed" THEN @ \cup {m} ELSE @,
            !.stopped = IF stops THEN @ \cup {m} ELSE @]

\* The entry is saved with the decision to stop the server: for a planned action
\* the same for all (protection_override), for an outage if it is idle.
Record(t) ==
  /\ pc[t] = "record"
  /\ \E stops \in BOOLEAN :
       /\ incidents[inc[t]].planned /\ incidents[inc[t]].servers # {}
            => stops = (incidents[inc[t]].stopped # {})
       /\ incidents' = [incidents EXCEPT
            ![inc[t]] = WithEntry(@, med[t], snap[t], stops)]
  /\ pc' = [pc EXCEPT ![t] = "stop"]
  /\ UNCHANGED <<world, admit, inc, tgt, todo, med, snap, failed, counts>>

\* The server is stopped if so decided; after the last one begin_* returns.
StopServer(t) ==
  /\ pc[t] = "stop"
  /\ IF med[t] \in incidents[inc[t]].stopped
       THEN /\ running' = running \ {med[t]}
            /\ held' = IF med[t] \in running THEN held \cup {med[t]} ELSE held
       ELSE UNCHANGED <<running, held>>
  /\ IF todo[t] # {}
       THEN /\ pc' = [pc EXCEPT ![t] = "guard"]
            /\ UNCHANGED <<lock, inc, tgt, todo, med, snap>>
       ELSE /\ lock' = IF t \in ApiThreads THEN lock ELSE NoThread
            /\ \/ /\ t \in Planners
                  /\ pc' = [pc EXCEPT ![t] = "operate"]
                  /\ med' = [med EXCEPT ![t] = NoMedia]
                  /\ snap' = [snap EXCEPT ![t] = "none"]
                  /\ UNCHANGED <<inc, tgt, todo>>
               \/ t \in OutageThreads /\ Return(t)
  /\ UNCHANGED <<up, guarded, out, incidents, migration, migrations, failed, counts>>

-----------------------------------------------------------------------------
(* The planned action and complete_planned.                                *)

Operate(t) ==
  /\ pc[t] = "operate"
  /\ t \in UpdateThreads => migration # "working"       \* the updater's lock
  /\ \/ up' = up \ {tgt[t]} /\ out' = out \ {tgt[t]}
     \/ UNCHANGED <<up, out>>          \* an update finds nothing to install
  /\ pc' = [pc EXCEPT ![t] = "start_again"]
  /\ UNCHANGED <<running, guarded, held, incidents, admit, inc, tgt, todo, med, snap,
                 failed, counts>>

StartAgain(t) ==
  /\ pc[t] = "start_again"
  /\ \/ up' = up \cup {tgt[t]} /\ out' = out \ {tgt[t]}
     \/ UNCHANGED <<up, out>>          \* a stop, or a start that failed
  /\ pc' = [pc EXCEPT ![t] = "complete"]
  /\ UNCHANGED <<running, guarded, held, incidents, admit, inc, tgt, todo, med, snap,
                 failed, counts>>

Complete_BugUnknownStatus(t) ==
  /\ pc[t] = "complete" /\ inc[t] # NoId
  /\ incidents' = [incidents EXCEPT ![inc[t]].awaiting = FALSE,
                                    ![inc[t]].status = "completed"]
  /\ lock' = IF t \in ApiThreads THEN NoThread ELSE lock
  /\ Return(t)
  /\ UNCHANGED <<world, migration, migrations, failed, counts>>
Complete(t) ==
  /\ pc[t] = "complete"
  /\ incidents' = IF inc[t] = NoId THEN incidents
                  ELSE [incidents EXCEPT ![inc[t]] =
                          [@ EXCEPT !.awaiting = FALSE, !.status = "waiting_for_recovery"]]
  /\ lock' = IF t \in ApiThreads THEN NoThread ELSE lock
  /\ Return(t)
  /\ UNCHANGED <<world, migration, migrations, failed, counts>>

-----------------------------------------------------------------------------
(* The monitor thread.                                                     *)

Look(i) ==
  /\ pc[Monitor] = "idle" /\ Watched(i)
  /\ inc' = [inc EXCEPT ![Monitor] = i]
  /\ tgt' = [tgt EXCEPT ![Monitor] = incidents[i].target]
  /\ todo' = [todo EXCEPT ![Monitor] =
                IF incidents[i].planned THEN {} ELSE incidents[i].servers]
  /\ pc' = [pc EXCEPT ![Monitor] = "idle_stop"]
  /\ UNCHANGED <<world, incidents, admit, med, snap, failed, counts>>

\* _stop_idle_media_if_admitted, for each server of an outage.
IdleStop ==
  /\ pc[Monitor] = "idle_stop"
  /\ \/ /\ todo[Monitor] = {}
        /\ pc' = [pc EXCEPT ![Monitor] = "ready"]
        /\ UNCHANGED <<running, held, lock, todo, med>>
     \/ \E m \in todo[Monitor] :
          /\ LockFree
          /\ todo' = [todo EXCEPT ![Monitor] = @ \ {m}]
          /\ \/ UNCHANGED <<running, held, lock, pc, med>>    \* busy, or refused
             \/ /\ ~Blocking /\ m \in running
                /\ m \in incidents[inc[Monitor]].servers
                /\ m \notin incidents[inc[Monitor]].stopped
                /\ running' = running \ {m} /\ held' = held \cup {m}
                /\ lock' = Monitor /\ med' = [med EXCEPT ![Monitor] = m]
                /\ pc' = [pc EXCEPT ![Monitor] = "idle_mark"]
  /\ UNCHANGED <<up, guarded, out, incidents, migration, migrations, inc, tgt, snap,
                 failed, counts>>

IdleMark ==
  /\ pc[Monitor] = "idle_mark"
  /\ incidents' = [incidents EXCEPT ![inc[Monitor]].stopped = @ \cup {med[Monitor]}]
  /\ lock' = NoThread
  /\ pc' = [pc EXCEPT ![Monitor] = "idle_stop"]
  /\ med' = [med EXCEPT ![Monitor] = NoMedia]
  /\ UNCHANGED <<world, migration, migrations, inc, tgt, todo, snap, failed, counts>>

\* _ready_for_recovery, without the lock: healthy and, for long enough, stable.
Stable ==
  /\ pc[Monitor] = "ready" /\ tgt[Monitor] \in up
  /\ pc' = [pc EXCEPT ![Monitor] = "recover"]
  /\ UNCHANGED <<world, incidents, admit, inc, tgt, todo, med, snap, failed, counts>>
NotYet ==
  /\ pc[Monitor] = "ready" /\ Return(Monitor)
  /\ UNCHANGED <<world, incidents, admit, failed, counts>>

Recover ==
  /\ pc[Monitor] = "recover" /\ LockFree
  /\ IF RecoveryRefused
       THEN Return(Monitor) /\ UNCHANGED <<incidents, lock, failed>>
       ELSE /\ incidents' = [incidents EXCEPT ![inc[Monitor]].status = "recovering"]
            /\ todo' = [todo EXCEPT ![Monitor] = incidents[inc[Monitor]].servers]
            /\ lock' = Monitor /\ pc' = [pc EXCEPT ![Monitor] = "revive"]
            /\ UNCHANGED <<inc, tgt, med, snap, failed>>
  /\ UNCHANGED <<world, migration, migrations, counts>>

Revive ==
  /\ pc[Monitor] = "revive"
  /\ \/ /\ todo[Monitor] = {}
        /\ pc' = [pc EXCEPT ![Monitor] = "settle"]
        /\ UNCHANGED <<running, held, todo, med, failed, faults>>
     \/ \E m \in todo[Monitor] :
          /\ todo' = [todo EXCEPT ![Monitor] = @ \ {m}]
          /\ med' = [med EXCEPT ![Monitor] = m]
          /\ \/ /\ NeedsStart(inc[Monitor], m)
                /\ running' = running \cup {m} /\ held' = held \ {m}
                /\ pc' = [pc EXCEPT ![Monitor] = "restore"]
                /\ UNCHANGED <<failed, faults>>
             \/ /\ NeedsStart(inc[Monitor], m) /\ faults < MaxFaults
                /\ failed' = TRUE /\ faults' = faults + 1
                /\ UNCHANGED <<running, held, pc>>
             \/ /\ ~NeedsStart(inc[Monitor], m)
                /\ pc' = [pc EXCEPT ![Monitor] = "restore"]
                /\ UNCHANGED <<running, held, failed, faults>>
  /\ UNCHANGED <<up, guarded, out, incidents, admit, inc, tgt, snap, outages, crashes>>

\* restore_scan_guard undoes the changes that the snapshot lists.
RestoreGuard ==
  /\ pc[Monitor] = "restore"
  /\ LET r == incidents[inc[Monitor]]
         m == med[Monitor]
     IN \/ /\ m \notin r.guards
           /\ UNCHANGED <<guarded, failed, faults>>
        \/ /\ m \in r.guards /\ m \in running
           /\ guarded' = IF m \in r.changed THEN guarded \ {m} ELSE guarded
           /\ UNCHANGED <<failed, faults>>
        \/ /\ m \in r.guards /\ (m \notin running \/ faults < MaxFaults)
           /\ failed' = TRUE
           /\ faults' = IF m \in running THEN faults + 1 ELSE faults
           /\ UNCHANGED guarded
  /\ pc' = [pc EXCEPT ![Monitor] = "revive"]
  /\ UNCHANGED <<up, running, held, out, incidents, admit, inc, tgt, todo, med, snap,
                 outages, crashes>>

Settle_BugIgnoresErrors ==
  /\ pc[Monitor] = "settle"
  /\ incidents' = [incidents EXCEPT ![inc[Monitor]].status = "recovered"]
  /\ failed' = FALSE /\ lock' = NoThread /\ Return(Monitor)
  /\ UNCHANGED <<world, migration, migrations, counts>>
Settle ==
  /\ pc[Monitor] = "settle"
  /\ incidents' = [incidents EXCEPT ![inc[Monitor]].status =
                     IF failed THEN "recovery_failed" ELSE "recovered"]
  /\ failed' = FALSE /\ lock' = NoThread /\ Return(Monitor)
  /\ UNCHANGED <<world, migration, migrations, counts>>

-----------------------------------------------------------------------------
(* The environment.                                                        *)

\* A storage service exits; reap_zombies calls handle_unexpected_exit.
Outage(s) ==
  /\ s \in up /\ outages < MaxOutages
  /\ up' = up \ {s} /\ outages' = outages + 1
  /\ \/ Affected(s) = {} /\ UNCHANGED <<pc, tgt>>
     \/ /\ Affected(s) # {}
        /\ \E t \in OutageThreads :
             /\ pc[t] = "idle"
             /\ pc' = [pc EXCEPT ![t] = "report"] /\ tgt' = [tgt EXCEPT ![t] = s]
  /\ UNCHANGED <<running, guarded, held, out, incidents, admit, inc, todo, med, snap,
                 failed, faults, crashes>>

\* It is started again, by the supervisor or a user.
Repair(s) ==
  /\ s \notin up /\ LockFree
  /\ \A t \in Planners : pc[t] = "start_again" => tgt[t] # s
  /\ up' = up \cup {s} /\ out' = out \ {s}
  /\ UNCHANGED <<running, guarded, held, incidents, admit, threads, counts>>

\* A user starts a media server; one stops by a user's hand or by itself.
MediaStart(m) ==
  /\ m \notin running /\ LockFree
  /\ running' = running \cup {m} /\ held' = held \ {m}
  /\ UNCHANGED <<up, guarded, out, incidents, admit, threads, counts>>
MediaStop(m) ==
  /\ m \in running /\ outages < MaxOutages
  /\ running' = running \ {m} /\ outages' = outages + 1
  /\ UNCHANGED <<up, guarded, held, out, incidents, admit, threads, faults, crashes>>

\* A namespace job is queued under the lock, on the strength of an older preflight.
StartMigration ==
  /\ LockFree /\ migration \in {"none", "interrupted"} /\ migrations < MaxMigrations
  /\ migration' = "queued" /\ migrations' = migrations + 1
  /\ UNCHANGED <<world, incidents, lock, threads, counts>>

\* It goes to work if it gets the updater's lock and the repeated preflight finds
\* every incident recovered; otherwise it fails.
MayWork_BugOldPreflight == TRUE
MayWork ==
  /\ \A t \in UpdateThreads : pc[t] # "start_again"
  /\ \A i \in Ids : ~Unrecovered(i)
RepeatPreflight ==
  /\ migration = "queued" /\ LockFree
  /\ \/ MayWork /\ migration' = "working"
     \/ migration' = "none"
  /\ UNCHANGED <<world, incidents, lock, migrations, threads, counts>>

\* It ends, rolled back or not, or is left to be reviewed.
EndMigration ==
  /\ migration = "working" /\ migration' \in {"none", "interrupted"}
  /\ UNCHANGED <<world, incidents, lock, migrations, threads, counts>>

\* DUMB is killed and restarts: the incidents are loaded and the services started,
\* unless a namespace job was at work: then the start-up stays frozen.
Crash ==
  /\ crashes < MaxCrashes /\ \A t \in Threads : pc[t] \in CrashAt
  /\ crashes' = crashes + 1
  /\ incidents' = [i \in Ids |-> Loaded(incidents[i])]
  /\ migration' = IF migration \in {"queued", "working"} THEN "interrupted" ELSE migration
  /\ up' \in SUBSET Stores
  /\ running' \in IF migration = "working" THEN SUBSET Media ELSE {Media}
  /\ held' = {} /\ out' = {}
  /\ lock' = NoThread
  /\ pc' = [t \in Threads |-> "idle"] /\ inc' = [t \in Threads |-> NoId]
  /\ tgt' = [t \in Threads |-> NoStore]
  /\ todo' = [t \in Threads |-> {}] /\ med' = [t \in Threads |-> NoMedia]
  /\ snap' = [t \in Threads |-> "none"] /\ failed' = FALSE
  /\ UNCHANGED <<guarded, migrations, faults, outages>>

-----------------------------------------------------------------------------
Begin(t) == Report(t) \/ Guard(t) \/ Record(t) \/ StopServer(t)
Action(t) == Operate(t) \/ StartAgain(t) \/ Complete(t)
MonitorStep == IdleStop \/ IdleMark \/ Stable \/ NotYet \/ Recover \/ Revive
                 \/ RestoreGuard \/ Settle
Environment ==
  \/ \E s \in Stores : Outage(s) \/ Repair(s)
  \/ \E m \in Media : MediaStart(m) \/ MediaStop(m)
  \/ StartMigration \/ RepeatPreflight \/ EndMigration \/ Crash

Next ==
  \/ \E t \in Planners, s \in Stores : Plan(t, s)
  \/ \E t \in Planners \cup OutageThreads : Begin(t)
  \/ \E t \in Planners : Action(t)
  \/ \E i \in Ids : Look(i)
  \/ MonitorStep
  \/ Environment

\* Every thread goes on, and gets the lock if it is free again and again.  The
\* monitor comes round to every incident, and a storage service that stays
\* healthy is found to be stable in the end.
Fairness ==
  /\ \A t \in Planners : WF_vars(Begin(t) \/ Action(t))
  /\ \A t \in OutageThreads : SF_vars(Begin(t))
  /\ SF_vars(MonitorStep)
  /\ \A i \in Ids : SF_vars(Look(i)) /\ SF_vars(Stable /\ inc[Monitor] = i)

Spec == Init /\ [][Next]_vars
FairSpec == Spec /\ Fairness

-----------------------------------------------------------------------------
(* Properties.                                                             *)

\* Where enter_scan_guard has returned but its snapshot is not saved yet a kill
\* leaves the guard on for good.  So does a partial failure of enter_scan_guard.
SafeCrash == PCs \ {"record"}

\* A library whose scans DUMB has switched off has them switched on again by
\* an incident that is still open: whichever incidents overlap, whatever fails,
\* and across restarts of DUMB.
GuardRemembered ==
  \A m \in guarded :
    \/ \E i \in Ids : Unrecovered(i) /\ m \in incidents[i].changed
    \/ \E t \in Threads : pc[t] = "record" /\ med[t] = m /\ snap[t] = "changed"

\* A media server that protection stopped is started again by an open incident,
\* unless somebody else has started it.
StoppedRemembered ==
  \A m \in held :
    \/ \E i \in Ids : Unrecovered(i) /\ m \in incidents[i].stopped
    \/ pc[Monitor] = "idle_mark" /\ med[Monitor] = m

\* Nothing protection did to a media server is forgotten.
ProtectionRemembered == GuardRemembered /\ StoppedRemembered

\* Media protection as a user of the migration admission.  A request holds the lock
\* until its operation is complete.
Admission ==
  INSTANCE MigrationAdmission WITH
    Parties <- Threads, Nobody <- NoThread, reserved <- {}, blocking <- Blocking,
    working <- {t \in Threads :
                  pc[t] \in ProtectPCs \/ (t \in ApiThreads /\ pc[t] # "idle")}

\* Whatever protection does to a media server is what the admission allows.
AdmissionHonoured == Admission!Spec

\* Protection does nothing to a media server while a namespace migration, which
\* owns them, is active: "Stop one idle guarded server without racing namespace
\* ownership" (media_protection.py:1055).
QuietDuringMigration ==
  Blocking => \A t \in Threads : pc[t] \notin ProtectPCs

\* A namespace job that is at work finds every incident recovered, and it stays
\* so: "Let it finish restoring its guarded media servers and scan settings
\* before starting the InfiniDysk namespace migration" (infinidysk_migration.py:141).
MigrationOwnsMedia == migration = "working" => \A i \in Ids : ~Unrecovered(i)

\* No recovery of an incident begins before the operation it protects is over,
\* healthy as the storage service may look: "The recovery monitor must not mistake
\* that pre-stop health for a completed operation" (media_protection.py:820).
RecoveryWaitsForOperation ==
  \A t \in Planners :
    pc[t] # "idle" /\ inc[t] # NoId => incidents[inc[t]].status = "active"

\* Every incident ends, once the storage services stay up, no migration is
\* active and no media server is kept down by somebody else.
Calm ==
  /\ up = Stores /\ ~Blocking
  /\ \A m \in Media \ running : \E i \in Ids : Unrecovered(i) /\ m \in incidents[i].stopped
EventuallyRecovered ==
  <>[]Calm => \A i \in Ids : []<>~Unrecovered(i)
=============================================================================
