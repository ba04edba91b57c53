------------------------- MODULE ProcessSupervisor -------------------------
(***************************************************************************)
(* ProcessHandler (utils/processes.py) together with the admission lock of *)
(* utils/infinidysk_migration_admission.py: starting, stopping, reaping    *)
(* and auto-restarting the managed services of a DUMB container, with the  *)
(* API requests, start-up workers and namespace migration that compete for *)
(* them.                                                                   *)
(*                                                                         *)
(* Every thread has a program counter; one step is the code between two    *)
(* points where another thread, or a signal handler, can take over.  Logs, *)
(* notifications, setup, environment and command construction are left     *)
(* out; elapsed time is a nondeterministic choice.                         *)
(***************************************************************************)
EXTENDS Integers, FiniteSets, Sequences

CONSTANTS
  Names,            \* managed services (process_name)
  Pids,             \* process objects that can ever be launched (bounds the run)
  Needs,            \* Needs[n]: services whose mount n lists in wait_for_mounts
  ApiThreads,       \* threads that serve start / stop / restart requests
  BootThreads,      \* start-up workers, through Update.auto_update
  RestartThreads,   \* threads running do_restart
  ShutdownThreads,  \* workers of the executor used by shutdown
  Main,             \* the main thread: runs the signal handlers
  Monitor,          \* the auto-restart-monitor thread
  MaxRestarts,      \* policy max_restarts
  MaxRequests,      \* bound on API and start-up requests
  MaxCrashes,       \* bound on spontaneous exits
  MaxMigrations,    \* bound on namespace migration jobs
  MayShutDown,      \* whether the run includes SIGTERM
  NoPid, NoName, NoThread

Threads == ApiThreads \cup BootThreads \cup RestartThreads \cup ShutdownThreads
             \cup {Main, Monitor}

ASSUME ConstantsAssumption ==
  /\ Needs \in [Names -> SUBSET Names]
  /\ MaxRestarts \in Nat \ {0}
  /\ MaxRequests \in Nat /\ MaxCrashes \in Nat /\ MaxMigrations \in Nat
  /\ MayShutDown \in BOOLEAN

ASSUME DistinctActors ==
  /\ NoPid \notin Pids /\ NoName \notin Names /\ NoThread \notin Threads
  /\ Main # Monitor
  /\ {Main, Monitor} \cap (ApiThreads \cup BootThreads \cup RestartThreads
                             \cup ShutdownThreads) = {}
  /\ ApiThreads \cap (BootThreads \cup RestartThreads \cup ShutdownThreads) = {}
  /\ BootThreads \cap (RestartThreads \cup ShutdownThreads) = {}
  /\ RestartThreads \cap ShutdownThreads = {}

VARIABLES
  pc, nm, pd, op,       \* per thread: control point, service, process, request
  os, owner,            \* per pid: kernel state, service it was launched for
  doomed,               \* pids whose group has been sent a stop signal
  sigchld,              \* a SIGCHLD is pending for the main thread
  processes,            \* self.processes: the tracked pids
  process_names,        \* self.process_names: service -> pid
  intentional,          \* self._intentional_stop_pids
  disabled, pending, recent, \* auto_restart_state fields, per service
  lock,                 \* owner of INFINIDYSK_MIGRATION_ADMISSION_LOCK
  arlock,               \* owner of auto_restart_lock across steps
  reserved,             \* _EXTERNAL_MUTATIONS, by thread
  migration,            \* namespace job: "none", "active" or "recovery"
  toVisit,              \* pids the running reap_zombies has still to look at
  frames,               \* reap_zombies calls suspended under a nested one
  overtaken,            \* history: reap_zombies removed the entry of a newer child
  shutting_down, startup_complete,
  requests, crashes, migrations  \* counters for the bounds

threadVars == <<pc, nm, pd, op>>
kernelVars == <<os, owner, doomed, sigchld, crashes>>
tableVars  == <<processes, process_names, intentional>>
policyVars == <<disabled, pending, recent, arlock>>
admitVars  == <<lock, reserved, migration, migrations>>
mainVars   == <<toVisit, frames, overtaken>>
lifeVars   == <<shutting_down, startup_complete, requests>>
vars == <<threadVars, kernelVars, tableVars, policyVars, admitVars, mainVars,
          lifeVars>>

Ops == {"none", "start", "stop", "restart", "relaunch"}
StartPCs == {"admit", "reset", "check", "wait", "launch", "settle", "track", "publish"}
StopTargetPCs == {"disable", "signal", "reap", "untrack", "clear"}
StopPCs == {"lookup"} \cup StopTargetPCs
SchedulePCs == {"consider", "blocked", "unpend", "record", "recording", "spawn"}
\* Control points at which a thread is changing, or entitled to change, a service.
LifecyclePCs == StartPCs \cup StopPCs \cup {"attempt", "settled"}
\* Control points of reap_zombies between two pids, and inside the look at one.
HandlerPCs == {"visit", "reaped", "planned", "unplanned"}
PCs == {"idle", "backoff", "decide", "release"} \cup HandlerPCs
         \cup LifecyclePCs \cup SchedulePCs

TypeOK ==
  /\ pc \in [Threads -> PCs]
  /\ nm \in [Threads -> Names \cup {NoName}]
  /\ pd \in [Threads -> Pids \cup {NoPid}]
  /\ op \in [Threads -> Ops]
  /\ os \in [Pids -> {"none", "running", "zombie", "reaped"}]
  /\ owner \in [Pids -> Names \cup {NoName}]
  /\ doomed \subseteq Pids
  /\ sigchld \in BOOLEAN
  /\ processes \subseteq Pids
  /\ process_names \in [Names -> Pids \cup {NoPid}]
  /\ intentional \subseteq Pids
  /\ disabled \in [Names -> BOOLEAN]
  /\ pending \in [Names -> BOOLEAN]
  /\ recent \in [Names -> Nat]
  /\ lock \in Threads \cup {NoThread}
  /\ arlock \in {Main, Monitor, NoThread}
  /\ reserved \subseteq BootThreads
  /\ migration \in {"none", "active", "recovery"}
  /\ toVisit \subseteq Pids
  /\ frames \in Seq([at : {"blocked", "recording"}, name : Names])
  /\ overtaken \in BOOLEAN
  /\ shutting_down \in BOOLEAN
  /\ startup_complete \in BOOLEAN
  /\ requests \in Nat /\ crashes \in Nat /\ migrations \in Nat

Init ==
  /\ pc = [t \in Threads |-> "idle"]
  /\ nm = [t \in Threads |-> NoName]
  /\ pd = [t \in Threads |-> NoPid]
  /\ op = [t \in Threads |-> "none"]
  /\ os = [p \in Pids |-> "none"]
  /\ owner = [p \in Pids |-> NoName]
  /\ doomed = {} /\ sigchld = FALSE
  /\ processes = {} /\ intentional = {}
  /\ process_names = [n \in Names |-> NoPid]
  /\ disabled = [n \in Names |-> FALSE]
  /\ pending = [n \in Names |-> FALSE]
  /\ recent = [n \in Names |-> 0]
  /\ lock = NoThread /\ arlock = NoThread
  /\ reserved = {} /\ migration = "none"
  /\ toVisit = {} /\ frames = << >> /\ overtaken = FALSE
  /\ shutting_down = FALSE
  /\ startup_complete = (BootThreads = {})
  /\ requests = 0 /\ crashes = 0 /\ migrations = 0

-----------------------------------------------------------------------------
(* Conditions of the code.  A definition with "_Bug" in its name is a       *)
(* plausible mistake in the definition that follows it: the specification   *)
(* does not use it, and putting it in place must break a property.          *)

Goto(t, label) == pc' = [pc EXCEPT ![t] = label]

\* The admission lock is an RLock: its owner may take it again.
LockOpen(t) == lock \in {NoThread, t}

\* Short critical sections under auto_restart_lock wait for its owner.
RestartStateOpen == arlock = NoThread

\* infinidysk_namespace_migration_active: has_blocking_job covers active jobs
\* and those that need recovery review.
MigrationBlocks == migration # "none"

\* start_full_namespace_job refuses while a mutation is reserved or a job blocks.
MigrationMayStart_BugIgnoresReservations == migration = "none" /\ lock = NoThread
MigrationMayStart == migration = "none" /\ lock = NoThread /\ reserved = {}

\* do_restart's recheck once it owns the admission lock.
RelaunchRefused_BugIgnoresDisabled(n) == shutting_down \/ MigrationBlocks
RelaunchRefused(n) == shutting_down \/ disabled[n] \/ MigrationBlocks

\* _start_process_admitted skips a service that already has an entry.
AlreadyRunning(n) == process_names[n] # NoPid

\* intentional_stop of reap_zombies: some stop_process call has marked the pid.
Intentional_BugIgnoresMark(p) == FALSE
Intentional(p) == p \in intentional

\* _maybe_schedule_restart: recent attempts still leave room in the window.
BudgetLeft_BugOffByOne(kept) == kept <= MaxRestarts
BudgetLeft(kept) == kept < MaxRestarts

\* How many recent_attempts are left after pruning those outside the window.
PrunedCounts(n) == 0 .. recent[n]

\* The mounts n waits for exist once their provider is alive.
DependenciesMounted(n) ==
  \A m \in Needs[n] : \E p \in Pids : os[p] = "running" /\ owner[p] = m

\* What a thread does after start_process, and after stop_process, returns.
AfterStart(t) == IF op[t] = "relaunch" THEN "settled" ELSE "release"
AfterStop(t) == CASE op[t] = "relaunch" -> "attempt"
                  [] op[t] = "restart"  -> "admit"
                  [] OTHER              -> "release"

-----------------------------------------------------------------------------
(* Requests.                                                               *)

\* _run_migration_lifecycle_admitted: the whole request runs under the lock.
Request_BugUnlocked(t, n, o) ==
  /\ pc[t] = "idle" /\ requests < MaxRequests
  /\ ~MigrationBlocks
  /\ requests' = requests + 1
  /\ nm' = [nm EXCEPT ![t] = n]
  /\ op' = [op EXCEPT ![t] = o]
  /\ Goto(t, IF o = "start" THEN "admit" ELSE "lookup")
  /\ UNCHANGED <<pd, kernelVars, tableVars, policyVars, admitVars, mainVars,
                 shutting_down, startup_complete>>
Request(t, n, o) ==
  /\ pc[t] = "idle" /\ requests < MaxRequests
  /\ lock = NoThread /\ ~MigrationBlocks
  /\ lock' = t
  /\ requests' = requests + 1
  /\ nm' = [nm EXCEPT ![t] = n]
  /\ op' = [op EXCEPT ![t] = o]
  /\ Goto(t, IF o = "start" THEN "admit" ELSE "lookup")
  /\ UNCHANGED <<pd, kernelVars, tableVars, policyVars, reserved, migration,
                 migrations, mainVars, shutting_down, startup_complete>>

\* Update.auto_update: reserve under the lock, then start without it.
BootStart(t, n) ==
  /\ pc[t] = "idle" /\ requests < MaxRequests
  /\ ~startup_complete /\ ~shutting_down
  /\ lock = NoThread /\ ~MigrationBlocks
  /\ reserved' = reserved \cup {t}
  /\ requests' = requests + 1
  /\ nm' = [nm EXCEPT ![t] = n]
  /\ op' = [op EXCEPT ![t] = "start"]
  /\ Goto(t, "admit")
  /\ UNCHANGED <<pd, kernelVars, tableVars, policyVars, lock, migration,
                 migrations, mainVars, shutting_down, startup_complete>>

\* complete_startup, once every start-up worker has returned.
CompleteStartup ==
  /\ ~startup_complete /\ \A t \in BootThreads : pc[t] = "idle"
  /\ startup_complete' = TRUE
  /\ UNCHANGED <<threadVars, kernelVars, tableVars, policyVars, admitVars,
                 mainVars, shutting_down, requests>>

\* SIGTERM: shutdown raises the flag, then its executor stops what is listed.
Shutdown ==
  /\ MayShutDown /\ ~shutting_down
  /\ shutting_down' = TRUE
  /\ startup_complete' = TRUE
  /\ UNCHANGED <<threadVars, kernelVars, tableVars, policyVars, admitVars,
                 mainVars, requests>>

ShutdownStop(t, n) ==
  /\ pc[t] = "idle" /\ shutting_down /\ process_names[n] # NoPid
  /\ nm' = [nm EXCEPT ![t] = n]
  /\ op' = [op EXCEPT ![t] = "stop"]
  /\ Goto(t, "lookup")
  /\ UNCHANGED <<pd, kernelVars, tableVars, policyVars, admitVars, mainVars,
                 lifeVars>>

\* The with-block ends; a start-up worker takes the lock to drop its token.
Release(t) ==
  /\ pc[t] = "release"
  /\ t \in BootThreads => LockOpen(t)
  /\ lock' = IF lock = t THEN NoThread ELSE lock
  /\ reserved' = reserved \ {t}
  /\ op' = [op EXCEPT ![t] = "none"]
  /\ nm' = [nm EXCEPT ![t] = NoName]
  /\ pd' = [pd EXCEPT ![t] = NoPid]
  /\ Goto(t, "idle")
  /\ UNCHANGED <<kernelVars, tableVars, policyVars, migration, migrations,
                 mainVars, lifeVars>>

-----------------------------------------------------------------------------
(* start_process and _start_process_admitted.                              *)

\* Admission: recovery review blocks every managed service.
Admit(t) ==
  /\ pc[t] = "admit" /\ LockOpen(t)
  /\ Goto(t, IF migration = "recovery" THEN AfterStart(t) ELSE "reset")
  /\ UNCHANGED <<nm, pd, op, kernelVars, tableVars, policyVars, admitVars,
                 mainVars, lifeVars>>

\* _set_restart_disabled(name, False), and the health-check state.
ResetPolicy(t) ==
  /\ pc[t] = "reset" /\ RestartStateOpen
  /\ disabled' = [disabled EXCEPT ![nm[t]] = FALSE]
  /\ Goto(t, "check")
  /\ UNCHANGED <<nm, pd, op, kernelVars, tableVars, pending, recent, arlock,
                 admitVars, mainVars, lifeVars>>

\* Configuration and setup, which may fail, come before the look at the table.
CheckRunning(t) ==
  /\ pc[t] = "check"
  /\ \/ Goto(t, AfterStart(t))
     \/ ~AlreadyRunning(nm[t]) /\ Goto(t, "wait")
  /\ UNCHANGED <<nm, pd, op, kernelVars, tableVars, policyVars, admitVars,
                 mainVars, lifeVars>>

\* The wait_for_mounts loop; shutdown is looked at first, and only in the loop.
\* The waits for directories, ports and URLs beside it may give up.
WaitMounts_BugIgnoresShutdown(t) ==
  /\ pc[t] = "wait"
  /\ DependenciesMounted(nm[t])
  /\ Goto(t, "launch")
  /\ UNCHANGED <<nm, pd, op, kernelVars, tableVars, policyVars, admitVars,
                 mainVars, lifeVars>>
WaitMounts(t) ==
  /\ pc[t] = "wait"
  /\ \/ /\ Needs[nm[t]] # {} /\ shutting_down
        /\ Goto(t, AfterStart(t))
     \/ /\ Needs[nm[t]] = {} \/ (~shutting_down /\ DependenciesMounted(nm[t]))
        /\ Goto(t, "launch") \/ Goto(t, AfterStart(t))
  /\ UNCHANGED <<nm, pd, op, kernelVars, tableVars, policyVars, admitVars,
                 mainVars, lifeVars>>

\* subprocess.Popen, which may raise.
Launch(t) ==
  /\ pc[t] = "launch"
  /\ \/ \E p \in Pids :
          /\ os[p] = "none"
          /\ os' = [os EXCEPT ![p] = "running"]
          /\ owner' = [owner EXCEPT ![p] = nm[t]]
          /\ pd' = [pd EXCEPT ![t] = p]
          /\ Goto(t, "settle")
     \/ Goto(t, AfterStart(t)) /\ UNCHANGED <<os, owner, pd>>
  /\ UNCHANGED <<nm, op, doomed, sigchld, crashes, tableVars, policyVars,
                 admitVars, mainVars, lifeVars>>

\* _check_immediate_exit_and_log: poll reaps a child that did not stay up.
Settle(t) ==
  /\ pc[t] = "settle"
  /\ IF os[pd[t]] = "running"
       THEN Goto(t, "track") /\ UNCHANGED os
       ELSE Goto(t, AfterStart(t)) /\ os' = [os EXCEPT ![pd[t]] = "reaped"]
  /\ UNCHANGED <<nm, pd, op, owner, doomed, sigchld, crashes, tableVars,
                 policyVars, admitVars, mainVars, lifeVars>>

Track(t) ==
  /\ pc[t] = "track"
  /\ processes' = processes \cup {pd[t]}
  /\ Goto(t, "publish")
  /\ UNCHANGED <<nm, pd, op, kernelVars, process_names, intentional, policyVars,
                 admitVars, mainVars, lifeVars>>

Publish(t) ==
  /\ pc[t] = "publish"
  /\ process_names' = [process_names EXCEPT ![nm[t]] = pd[t]]
  /\ Goto(t, AfterStart(t))
  /\ UNCHANGED <<nm, pd, op, kernelVars, processes, intentional, policyVars,
                 admitVars, mainVars, lifeVars>>

-----------------------------------------------------------------------------
(* stop_process.                                                           *)

Lookup(t) ==
  /\ pc[t] = "lookup"
  /\ IF AlreadyRunning(nm[t])
       THEN /\ pd' = [pd EXCEPT ![t] = process_names[nm[t]]]
            /\ intentional' = intentional \cup {process_names[nm[t]]}
            /\ Goto(t, IF op[t] = "relaunch" THEN "signal" ELSE "disable")
       ELSE Goto(t, AfterStop(t)) /\ UNCHANGED <<pd, intentional>>
  /\ UNCHANGED <<nm, op, kernelVars, processes, process_names, policyVars,
                 admitVars, mainVars, lifeVars>>

DisableRestart(t) ==
  /\ pc[t] = "disable" /\ RestartStateOpen
  /\ disabled' = [disabled EXCEPT ![nm[t]] = TRUE]
  /\ Goto(t, "signal")
  /\ UNCHANGED <<nm, pd, op, kernelVars, tableVars, pending, recent, arlock,
                 admitVars, mainVars, lifeVars>>

\* Policy signal to the group, SIGKILL once the attempts are spent.
SignalGroup(t) ==
  /\ pc[t] = "signal"
  /\ doomed' = doomed \cup {pd[t]}
  /\ Goto(t, "reap")
  /\ UNCHANGED <<nm, pd, op, os, owner, sigchld, crashes, tableVars, policyVars,
                 admitVars, mainVars, lifeVars>>

\* The poll / wait loops: they end once the process is dead, reaping it if
\* nobody else has.
AwaitDeath(t) ==
  /\ pc[t] = "reap" /\ os[pd[t]] # "running"
  /\ os' = [os EXCEPT ![pd[t]] = "reaped"]
  /\ Goto(t, "untrack")
  /\ UNCHANGED <<nm, pd, op, owner, doomed, sigchld, crashes, tableVars,
                 policyVars, admitVars, mainVars, lifeVars>>

\* process_names.pop(name): whatever the name maps to by now.
Untrack(t) ==
  /\ pc[t] = "untrack"
  /\ process_names' = [process_names EXCEPT ![nm[t]] = NoPid]
  /\ processes' = processes \ {pd[t]}
  /\ Goto(t, "clear")
  /\ UNCHANGED <<nm, pd, op, kernelVars, intentional, policyVars, admitVars,
                 mainVars, lifeVars>>

ClearMark(t) ==
  /\ pc[t] = "clear"
  /\ intentional' = intentional \ {pd[t]}
  /\ Goto(t, AfterStop(t))
  /\ UNCHANGED <<nm, pd, op, kernelVars, processes, process_names, policyVars,
                 admitVars, mainVars, lifeVars>>

-----------------------------------------------------------------------------
(* do_restart.                                                             *)

\* The back-off sleep is over and the thread owns the admission lock.
WakeRestart(t) ==
  /\ pc[t] = "backoff" /\ lock = NoThread
  /\ lock' = t
  /\ Goto(t, "decide")
  /\ UNCHANGED <<nm, pd, op, kernelVars, tableVars, policyVars, reserved,
                 migration, migrations, mainVars, lifeVars>>

Decide_BugLeavesPending(t) ==
  /\ pc[t] = "decide" /\ RestartStateOpen
  /\ Goto(t, IF RelaunchRefused(nm[t]) THEN "release"
             ELSE IF AlreadyRunning(nm[t]) THEN "lookup" ELSE "attempt")
  /\ UNCHANGED <<nm, pd, op, kernelVars, tableVars, policyVars, admitVars,
                 mainVars, lifeVars>>
Decide_BugKeepsRestartLock(t) ==
  /\ pc[t] = "decide" /\ RestartStateOpen
  /\ arlock' = t
  /\ Goto(t, IF RelaunchRefused(nm[t]) THEN "release"
             ELSE IF AlreadyRunning(nm[t]) THEN "lookup" ELSE "attempt")
  /\ UNCHANGED <<nm, pd, op, kernelVars, tableVars, disabled, pending, recent,
                 admitVars, mainVars, lifeVars>>
Decide(t) ==
  /\ pc[t] = "decide" /\ RestartStateOpen
  /\ IF RelaunchRefused(nm[t])
       THEN /\ pending' = [pending EXCEPT ![nm[t]] = FALSE]
            /\ Goto(t, "release")
       ELSE /\ UNCHANGED pending
            /\ Goto(t, IF AlreadyRunning(nm[t]) THEN "lookup" ELSE "attempt")
  /\ UNCHANGED <<nm, pd, op, kernelVars, tableVars, disabled, recent, arlock,
                 admitVars, mainVars, lifeVars>>

RecordAttempt(t) ==
  /\ pc[t] = "attempt" /\ RestartStateOpen
  /\ recent' = [recent EXCEPT ![nm[t]] = @ + 1]
  /\ Goto(t, "admit")
  /\ UNCHANGED <<nm, pd, op, kernelVars, tableVars, disabled, pending, arlock,
                 admitVars, mainVars, lifeVars>>

\* Success waits for health verification, failure is counted; neither retries.
FinishRestart(t) ==
  /\ pc[t] = "settled" /\ RestartStateOpen
  /\ pending' = [pending EXCEPT ![nm[t]] = FALSE]
  /\ Goto(t, "release")
  /\ UNCHANGED <<nm, pd, op, kernelVars, tableVars, disabled, recent, arlock,
                 admitVars, mainVars, lifeVars>>

-----------------------------------------------------------------------------
(* _maybe_schedule_restart, called by reap_zombies and by the monitor.     *)

\* Where the caller goes on.
AfterSchedule(t) == IF t = Main THEN "visit" ELSE "idle"

Consider(t) ==
  /\ pc[t] = "consider" /\ RestartStateOpen
  /\ Goto(t, IF shutting_down \/ ~startup_complete \/ disabled[nm[t]]
               THEN AfterSchedule(t) ELSE "blocked")
  /\ UNCHANGED <<nm, pd, op, kernelVars, tableVars, policyVars, admitVars,
                 mainVars, lifeVars>>

\* _migration_blocks_auto_restart takes and drops the admission lock.
AskMigration(t) ==
  /\ pc[t] = "blocked" /\ LockOpen(t)
  /\ Goto(t, IF MigrationBlocks THEN "unpend" ELSE "record")
  /\ UNCHANGED <<nm, pd, op, kernelVars, tableVars, policyVars, admitVars,
                 mainVars, lifeVars>>

\* _clear_pending_restart on behalf of the migration.
Unpend(t) ==
  /\ pc[t] = "unpend" /\ RestartStateOpen
  /\ pending' = [pending EXCEPT ![nm[t]] = FALSE]
  /\ Goto(t, AfterSchedule(t))
  /\ UNCHANGED <<nm, pd, op, kernelVars, tableVars, disabled, recent, arlock,
                 admitVars, mainVars, lifeVars>>

\* with self.auto_restart_lock: a plain Lock, held over the block that follows.
EnterRecord(t) ==
  /\ pc[t] = "record" /\ RestartStateOpen
  /\ arlock' = t
  /\ Goto(t, "recording")
  /\ UNCHANGED <<nm, pd, op, kernelVars, tableVars, disabled, pending, recent,
                 admitVars, mainVars, lifeVars>>

\* Prune the window, then suppress, leave the earlier restart alone, or queue.
Record(t) ==
  /\ pc[t] = "recording"
  /\ \E kept \in PrunedCounts(nm[t]) :
       /\ recent' = [recent EXCEPT ![nm[t]] = kept]
       /\ IF BudgetLeft(kept) /\ ~pending[nm[t]]
            THEN /\ pending' = [pending EXCEPT ![nm[t]] = TRUE]
                 /\ Goto(t, "spawn")
            ELSE /\ UNCHANGED pending
                 /\ Goto(t, AfterSchedule(t))
  /\ arlock' = NoThread
  /\ UNCHANGED <<nm, pd, op, kernelVars, tableVars, disabled, admitVars,
                 mainVars, lifeVars>>

\* threading.Thread(target=do_restart).start().
Spawn(t) ==
  /\ pc[t] = "spawn"
  /\ \E r \in RestartThreads :
       /\ pc[r] = "idle"
       /\ pc' = [pc EXCEPT ![t] = AfterSchedule(t), ![r] = "backoff"]
       /\ nm' = [nm EXCEPT ![r] = nm[t]]
       /\ op' = [op EXCEPT ![r] = "relaunch"]
  /\ UNCHANGED <<pd, kernelVars, tableVars, policyVars, admitVars, mainVars,
                 lifeVars>>

-----------------------------------------------------------------------------
(* reap_zombies, the SIGCHLD handler of the main thread.  Python runs it   *)
(* between bytecodes, also while an earlier call is still running.  Only   *)
(* the two places where an earlier call can be suspended for long, or with *)
(* a lock held, are distinguished; elsewhere the nested call is the same   *)
(* as one made later.                                                      *)

HandlerEnter ==
  /\ pc[Main] = "idle" /\ sigchld
  /\ sigchld' = FALSE /\ toVisit' = processes
  /\ Goto(Main, "visit")
  /\ UNCHANGED <<nm, pd, op, os, owner, doomed, crashes, tableVars, policyVars,
                 admitVars, frames, overtaken, lifeVars>>

HandlerNested ==
  /\ pc[Main] \in {"blocked", "recording"} /\ sigchld
  /\ sigchld' = FALSE /\ toVisit' = processes
  /\ frames' = Append(frames, [at |-> pc[Main], name |-> nm[Main]])
  /\ Goto(Main, "visit")
  /\ UNCHANGED <<nm, pd, op, os, owner, doomed, crashes, tableVars, policyVars,
                 admitVars, overtaken, lifeVars>>

\* waitpid(WNOHANG) on one tracked pid and its removal from self.processes; an
\* exit that a poll has already reaped raises ChildProcessError and is passed over.
Visit(p) ==
  /\ pc[Main] = "visit" /\ p \in toVisit
  /\ toVisit' = toVisit \ {p}
  /\ IF os[p] = "zombie"
       THEN /\ os' = [os EXCEPT ![p] = "reaped"]
            /\ processes' = processes \ {p}
            /\ nm' = [nm EXCEPT ![Main] = owner[p]]
            /\ pd' = [pd EXCEPT ![Main] = p]
            /\ Goto(Main, "reaped")
       ELSE UNCHANGED <<os, processes, nm, pd, pc>>
  /\ UNCHANGED <<op, owner, doomed, sigchld, crashes, process_names, intentional,
                 policyVars, admitVars, frames, overtaken, lifeVars>>

\* intentional_stop is read, and the mark dropped, in later bytecodes: meanwhile
\* the stop_process call that set the mark may have dropped it itself.
JudgeExit ==
  /\ pc[Main] = "reaped"
  /\ Goto(Main, IF Intentional(pd[Main]) THEN "planned" ELSE "unplanned")
  /\ intentional' = intentional \ {pd[Main]}
  /\ UNCHANGED <<nm, pd, op, kernelVars, processes, process_names, policyVars,
                 admitVars, mainVars, lifeVars>>

\* process_names: whatever the name maps to by now; then the report.
ForgetEntry ==
  /\ pc[Main] \in {"planned", "unplanned"}
  /\ process_names' = [process_names EXCEPT ![nm[Main]] = NoPid]
  /\ overtaken' = (overtaken \/ process_names[nm[Main]] \notin {pd[Main], NoPid})
  /\ IF pc[Main] = "unplanned" /\ ~shutting_down
       THEN Goto(Main, "consider") /\ UNCHANGED nm
       ELSE Goto(Main, "visit") /\ nm' = [nm EXCEPT ![Main] = NoName]
  /\ pd' = [pd EXCEPT ![Main] = NoPid]
  /\ UNCHANGED <<op, kernelVars, processes, intentional, policyVars, admitVars,
                 toVisit, frames, lifeVars>>

\* The pass is over: back to the suspended call, if any.
HandlerReturn ==
  /\ pc[Main] = "visit" /\ toVisit = {}
  /\ IF frames = << >>
       THEN /\ Goto(Main, "idle")
            /\ nm' = [nm EXCEPT ![Main] = NoName]
            /\ UNCHANGED frames
       ELSE LET suspended == frames[Len(frames)]
            IN /\ Goto(Main, suspended.at)
               /\ nm' = [nm EXCEPT ![Main] = suspended.name]
               /\ frames' = SubSeq(frames, 1, Len(frames) - 1)
  /\ UNCHANGED <<pd, op, kernelVars, tableVars, policyVars, admitVars, toVisit,
                 overtaken, lifeVars>>

-----------------------------------------------------------------------------
(* The monitor, other readers of the tables, and the environment.          *)

\* The health check of n has failed unhealthy_threshold times.
MonitorUnhealthy(n) ==
  /\ pc[Monitor] = "idle" /\ ~shutting_down /\ startup_complete
  /\ AlreadyRunning(n) /\ os[process_names[n]] = "running"
  /\ RestartStateOpen /\ ~disabled[n]
  /\ nm' = [nm EXCEPT ![Monitor] = n]
  /\ Goto(Monitor, "consider")
  /\ UNCHANGED <<pd, op, kernelVars, tableVars, policyVars, admitVars, mainVars,
                 lifeVars>>

\* process.poll() on a tracked process, by the monitor or a readiness query:
\* the caller only wants to know, but poll collects the exit status.
PollTracked(p) ==
  /\ p \in processes /\ os[p] = "zombie"
  /\ os' = [os EXCEPT ![p] = "reaped"]
  /\ UNCHANGED <<threadVars, owner, doomed, sigchld, crashes, tableVars,
                 policyVars, admitVars, mainVars, lifeVars>>

Die(p) ==
  /\ os[p] = "running"
  /\ os' = [os EXCEPT ![p] = "zombie"]
  /\ sigchld' = TRUE
  /\ UNCHANGED <<threadVars, owner, doomed, tableVars, policyVars, admitVars,
                 mainVars, lifeVars>>
DieOnSignal(p) == p \in doomed /\ Die(p) /\ UNCHANGED crashes
Crash(p) == crashes < MaxCrashes /\ Die(p) /\ crashes' = crashes + 1

\* start_full_namespace_job queues a job, its worker ends it.
StartMigration ==
  /\ migrations < MaxMigrations /\ MigrationMayStart
  /\ migration' = "active" /\ migrations' = migrations + 1
  /\ UNCHANGED <<threadVars, kernelVars, tableVars, policyVars, lock, reserved,
                 mainVars, lifeVars>>

EndMigration ==
  /\ migration = "active"
  /\ migration' \in {"none", "recovery"}
  /\ UNCHANGED <<threadVars, kernelVars, tableVars, policyVars, lock, reserved,
                 migrations, mainVars, lifeVars>>

-----------------------------------------------------------------------------
StartStep(t) == Admit(t) \/ ResetPolicy(t) \/ CheckRunning(t) \/ WaitMounts(t)
                  \/ Launch(t) \/ Settle(t) \/ Track(t) \/ Publish(t)
StopStep(t)  == Lookup(t) \/ DisableRestart(t) \/ SignalGroup(t) \/ AwaitDeath(t)
                  \/ Untrack(t) \/ ClearMark(t)
RestartStep(t) == WakeRestart(t) \/ Decide(t) \/ RecordAttempt(t) \/ FinishRestart(t)
ScheduleStep(t) == Consider(t) \/ AskMigration(t) \/ Unpend(t) \/ EnterRecord(t)
                     \/ Record(t) \/ Spawn(t)
Handler == HandlerEnter \/ HandlerNested \/ HandlerReturn \/ JudgeExit \/ ForgetEntry
             \/ \E p \in Pids : Visit(p)

ThreadStep(t) == StartStep(t) \/ StopStep(t) \/ RestartStep(t) \/ ScheduleStep(t)
                   \/ Release(t)

Environment ==
  \/ \E t \in ApiThreads, n \in Names, o \in {"start", "stop", "restart"} :
       Request(t, n, o)
  \/ \E t \in BootThreads, n \in Names : BootStart(t, n)
  \/ \E t \in ShutdownThreads, n \in Names : ShutdownStop(t, n)
  \/ CompleteStartup \/ Shutdown
  \/ \E n \in Names : MonitorUnhealthy(n)
  \/ \E p \in Pids : PollTracked(p) \/ DieOnSignal(p) \/ Crash(p)
  \/ StartMigration \/ EndMigration

Next == Environment \/ Handler \/ \E t \in Threads : ThreadStep(t)

\* The scheduler runs every thread that can go on, a waiter for the admission
\* lock is served if the lock keeps becoming free, SIGKILL ends a process.
Fairness ==
  /\ \A t \in Threads : WF_vars(ThreadStep(t))
  /\ \A t \in RestartThreads : SF_vars(WakeRestart(t))
  /\ \A t \in {Main, Monitor} : SF_vars(AskMigration(t))
  /\ WF_vars(Handler)
  /\ \A p \in Pids : WF_vars(DieOnSignal(p))

Spec == Init /\ [][Next]_vars
FairSpec == Spec /\ Fairness

-----------------------------------------------------------------------------
(* Safety.                                                                 *)

\* The supervisor as a user of the migration admission.  (The workers of shutdown
\* stop services without it.)
Parties == ApiThreads \cup BootThreads \cup RestartThreads
Admission ==
  INSTANCE MigrationAdmission WITH
    Nobody <- NoThread, blocking <- MigrationBlocks,
    working <- {t \in Parties : pc[t] \in LifecyclePCs}

\* Every start, stop and restart of a service is what the admission allows, and so
\* is the admission of every job: "a migration cannot be admitted between this check
\* and the replacement process start" (processes.py:1836), though the check and the
\* start are far apart and start-up workers start services without the lock.
AdmissionHonoured == Admission!Spec

\* While a namespace migration is active or awaits review, no request, start-up
\* worker or automatic restart is anywhere inside a service lifecycle: "a
\* migration cannot be admitted between this check and the replacement process
\* start" (processes.py:1836), and the reservation of Update.auto_update does
\* the same for starts that run without the lock.
MigrationExcludesLifecycle ==
  MigrationBlocks =>
    \A t \in ApiThreads \cup BootThreads \cup RestartThreads :
      pc[t] \notin LifecyclePCs

\* As long as a stop_process call is at work on a process, reap_zombies takes the
\* exit of that process for a planned one: the mark outlives signal, exit, reaping
\* and untracking, in whatever order several threads get to them.  Once the call has
\* dropped the mark, a handler that collected the exit before and looks for the
\* mark only now does report it.
ExitDuringStopPlanned ==
  [][ pc[Main] = "reaped" /\ pc'[Main] = "unplanned" /\ ~shutting_down =>
        \A t \in Threads : pc[t] \in StopTargetPCs => pd[t] # pd[Main] ]_vars

\* A live process is the entry of its service, or a start that launched it has
\* still to enter it.  An orphan could never be stopped and would keep its ports
\* and databases.
NoOrphan ==
  \A p \in Pids : os[p] = "running" =>
    \/ process_names[owner[p]] = p
    \/ \E t \in Threads : pd[t] = p /\ pc[t] \in {"settle", "track", "publish"}
SingleInstance ==
  \A p, q \in Pids :
    os[p] = "running" /\ os[q] = "running" /\ owner[p] = owner[q] => p = q

\* Without start-up workers and before shutdown no child is an orphan and no
\* service runs twice, whichever of requests and automatic restarts race for it.
\* There is one exception in the code: reap_zombies removes an entry by its name,
\* so a handler interrupted between collecting an exit and that removal for as long
\* as a stop and a start take removes the entry of the new child.
ChildrenTracked == ~shutting_down /\ ~overtaken => NoOrphan /\ SingleInstance

\* Once do_restart has decided, no stop request can slip in behind its back: a
\* service whose restarts have been disabled is not relaunched.
StoppedStaysStopped ==
  \A r \in RestartThreads :
    pc[r] \in StopPCs \cup {"attempt", "admit"} /\ disabled[nm[r]]
      => shutting_down

\* Without migrations, the attempts inside one window never exceed max_restarts,
\* although the check (before the back-off) and the attempt (after it) are made
\* by different threads at different times.
RestartBudget == migrations = 0 => \A n \in Names : recent[n] <= MaxRestarts

\* start_process says that holding the admission lock during dependency waits
\* "would deadlock the provider process that must satisfy that dependency"
\* (processes.py:354-357).  Here a thread waits, with the lock, for a provider
\* whose restart waits for the lock.
NoDependencyDeadlock ==
  ~ \E t, u \in Threads :
      /\ pc[t] = "wait" /\ lock = t /\ ~shutting_down
      /\ nm[u] \in Needs[nm[t]] /\ pc[u] \in {"blocked", "backoff"}
      /\ \A p \in Pids : owner[p] = nm[u] => os[p] \in {"none", "reaped"}

\* The main thread waits for auto_restart_lock, a plain Lock, that a suspended
\* reap_zombies call of its own holds.
HandlerSelfBlocked ==
  arlock = Main /\ pc[Main] \in {"consider", "unpend", "record"}

-----------------------------------------------------------------------------
(* Liveness.                                                               *)

\* A start is waiting for the mount of a service that is not running.
AwaitingMount == \E t \in Threads : pc[t] = "wait" /\ ~DependenciesMounted(nm[t])

\* A pending restart is eventually carried out or given up, and every request
\* hands the admission lock back, provided the main thread does not block itself
\* and no start waits for a missing mount.
PendingClears == \A n \in Names : pending[n] ~> (~pending[n] \/ AwaitingMount)
RequestsFinish == \A t \in ApiThreads : lock = t ~> (lock # t \/ AwaitingMount)
ThreadsFinish == []~HandlerSelfBlocked => PendingClears /\ RequestsFinish

\* After SIGTERM the admission lock comes back even from a thread that was
\* waiting, with the lock, for a provider that cannot be restarted.
ShutdownReleasesLock ==
  []~HandlerSelfBlocked =>
    \A t \in ApiThreads \cup RestartThreads :
      (shutting_down /\ lock = t) ~> lock # t

=============================================================================
