------------------------ MODULE ServiceUpdates_proofs ------------------------
(* The type invariant of ServiceUpdates, that what an update changes in a    *)
(* selection is temporary, that no pinned service is updated unasked, and    *)
(* that an update that fails once keeps the service it was to replace.       *)
EXTENDS ServiceUpdates, TLAPS

-----------------------------------------------------------------------------
(* The inductive invariant.                                                  *)

Pcs == {"idle", "admission", "judge", "updating", "initial", "select", "check", "record",
        "configured", "build", "activate", "stop", "stopping", "emby", "install", "setup",
        "start", "health", "recover", "leave", "finally", "auto_update", "preinstalled",
        "configure"}
Whys == {"none", "scheduled", "boot", "stop"} \cup Updates \cup Lifecycles
Work == [pc : Pcs, s : Services, why : Whys, target : 0 .. MaxVersion,
         result : {"none", "refused", "no_update", "updated", "failed"}, undo : BOOLEAN,
         original : Sources, guard : Selections, channel : Sources, moving : BOOLEAN,
         was : Process, had : Content, kept : 0 .. MaxWrites, calm : BOOLEAN,
         faults : 0 .. MaxFaults]

Snapshots == {NoSnapshot} \cup [runtime : Content, data : 0 .. MaxWrites]

Typed ==
  /\ Enabled \subseteq Services /\ th \in [Threads -> Work]
  /\ selection \in [Enabled -> Sources] /\ chosen \in [Enabled -> Sources]
  /\ overlapped \subseteq Enabled
  /\ auto \in [Enabled -> Modes] /\ upstream \in Version
  /\ runtime \in [Enabled -> Content] /\ process \in [Enabled -> Process]
  /\ snapshot \in [Enabled -> Snapshots]
  /\ data \in [Enabled -> 0 .. MaxWrites] /\ written \in [Enabled -> 0 .. MaxWrites]
  /\ jobs \subseteq Enabled \cup {Api} /\ spawned \subseteq Enabled /\ scheduler \in BOOLEAN
  /\ pending \subseteq Enabled /\ completed \subseteq Enabled /\ faults \in 0 .. MaxFaults
  /\ {admission, updating} \subseteq Threads \cup {Nobody}

\* What a thread is for, where that takes it, and the locks it holds there.
Holding == Inside \cup {"stop", "stopping", "install", "setup"}
Purpose(t) ==
  /\ S(t) \in Enabled
  /\ \/ t \in Boots /\ th[t].why = "boot"
     \/ t = Scheduler /\ th[t].why = "scheduled"
     \/ t \in Requests /\ th[t].why \in Updates \cup Lifecycles \cup {"stop"}
Place(t) ==
  /\ th[t].why = "boot" => th[t].pc \notin {"admission", "judge"}
  /\ th[t].why = "stop" => th[t].pc \in {"idle", "admission", "judge"}
  /\ th[t].pc \in {"select", "configured", "finally"} => th[t].why \in Updates
  /\ th[t].pc = "configured" => th[t].why = "configured"
  /\ th[t].pc \in {"initial", "auto_update", "preinstalled", "configure"} => Boot_like(t)
  /\ th[t].pc \in {"record", "emby"} => th[t].target # 0
  /\ th[t].pc \in {"stop", "stopping"} /\ Family[S(t)] = "emby" /\ th[t].why # "configured" =>
       th[t].target # 0
Locked(t) ==
  /\ th[t].pc \in Holding => updating = t
  /\ th[t].pc = "leave" /\ ~Boot_like(t) => updating = t
  /\ th[t].pc \in {"start", "health", "recover"} /\ th[t].why = "scheduled" => updating = t
  /\ updating = t => th[t].pc \notin {"idle", "admission", "judge", "finally", "auto_update",
                                      "preinstalled"}
  /\ admission = t <=> (t \notin Boots /\ th[t].pc \notin {"idle", "admission"})
Places ==
  \A t \in Threads : (th[t].pc # "idle" => Purpose(t)) /\ Place(t) /\ Locked(t)

\* Each service is started by one thread of the starter, once.
StartedOnce ==
  /\ pending \cap completed = {}
  /\ \A b \in Boots : th[b].pc # "idle" => S(b) \notin pending \cup completed
  /\ \A a, b \in Boots : th[a].pc # "idle" /\ th[b].pc # "idle" /\ S(a) = S(b) => a = b

\* Source c is what the operator saved for s, but for what OverrideIsTemporary excepts.
Settled(s, c) ==
  \/ c = chosen[s]
  \/ chosen[s].kind = "latest" /\ c.kind = "release"
  \/ /\ s \in overlapped /\ chosen[s].kind \in Released
     /\ c.kind = "release" \/ Family[s] = "emby"
\* Thread t has the selection of its service changed for a time.
Moving(t) == th[t].pc = "setup" /\ th[t].moving
Borrows(t) == updating = t /\ ((th[t].why \in Updates /\ th[t].pc # "select") \/ Moving(t))
AllSettled ==
  \A s \in Enabled : Settled(s, selection[s]) \/ \E t \in Threads : Borrows(t) /\ S(t) = s
\* What a thread has not got to yet.
Early == Inside \cup {"admission", "judge", "updating", "auto_update", "preinstalled", "stop",
                      "stopping"}
Fresh(t) ==
  /\ th[t].pc = "idle" => th[t].result = "none"
  /\ th[t].pc \in {"admission", "judge", "auto_update", "updating", "select"} =>
       th[t].original = None /\ th[t].guard = None
  /\ th[t].pc \in Early \cup {"install"} => ~th[t].moving
  /\ th[t].pc \in Early \cup {"install", "setup"} => ~th[t].undo
  /\ th[t].pc = "emby" \/ th[t].moving => Family[S(t)] = "emby"
\* What an update puts back is settled.
Returns(t) ==
  /\ th[t].why \in Updates /\ th[t].pc # "select" /\ updating = t =>
       \/ /\ Settled(S(t), th[t].original)
          /\ IF Moving(t)
             THEN Sel(t).kind \in Released /\ Source_guard(th[t].channel) = th[t].guard
             ELSE Source_guard(Sel(t)) = th[t].guard
       \/ /\ th[t].pc = "leave" /\ th[t].original = None /\ th[t].guard = None
          /\ Settled(S(t), Sel(t))
  /\ Moving(t) /\ th[t].why \notin Updates =>
       IF Sel(t).kind \in Released THEN Settled(S(t), th[t].channel) ELSE Settled(S(t), Sel(t))
\* An update that nobody asked for has looked at the pins, unless they were saved later,
\* and records no release over a prerelease.
Unasked(t) == th[t].why \notin Updates /\ Family[S(t)] # "emby" /\ S(t) \notin overlapped
Looked(t) ==
  /\ Unasked(t) /\ th[t].pc \in {"updating", "initial", "check", "record"} =>
       chosen[S(t)].kind # "release"
  /\ Unasked(t) /\ th[t].pc = "record" => chosen[S(t)].kind # "prerelease"
  /\ th[t].pc = "record" => Family[S(t)] # "emby"
Sourced == AllSettled /\ \A t \in Threads : Fresh(t) /\ Returns(t) /\ Looked(t)

\* No pinned service gets as far as an install.
Judged(t) ==
  th[t].pc \notin {"idle", "admission", "judge"} /\ Family[S(t)] # "emby" =>
    /\ th[t].why = "scheduled" => ~Get_update_block_reason(chosen[S(t)])
    /\ th[t].why = "update" =>
         \/ ~Get_update_block_reason(chosen[S(t)])
         \/ th[t].result = "refused" /\ th[t].pc \in {"updating", "select", "leave", "finally"}

\* A service that runs has no snapshot left but the one that is in use.
SnapshotUsed ==
  \A s \in Enabled :
    snapshot[s] # NoSnapshot /\ process[s] # Down =>
      \E t \in Threads : S(t) = s /\ th[t].pc \in {"stopping", "health", "recover"}
Written ==
  \A s \in Enabled : /\ data[s] <= written[s] /\ snapshot[s].data <= written[s]
                     /\ s \notin DataInTarget => data[s] = written[s]

\* The update of a started service with at most one failure: the service is as it was,
\* or there is a snapshot of how it was, or it is again as it was.
Careful(t) ==
  /\ th[t].why \in Updates \cup {"scheduled"} /\ th[t].pc \notin {"idle", "admission"}
  /\ th[t].calm /\ {th[t].was, th[t].had} \subseteq Version /\ S(t) \notin Unprotected
  /\ faults <= th[t].faults + 1
Untouched(t) ==
  snapshot[S(t)] = NoSnapshot /\ runtime[S(t)] = th[t].had /\ process[S(t)] = th[t].was
Copied(t) == snapshot[S(t)].runtime = th[t].had /\ snapshot[S(t)].data >= th[t].kept
Back(t) ==
  /\ snapshot[S(t)] = NoSnapshot
  /\ S(t) \notin RuntimeElsewhere =>
       runtime[S(t)] = th[t].had /\ process[S(t)] \in {th[t].was, th[t].had}
Failed(t) == th[t].result = "failed" /\ faults = th[t].faults + 1
Kept(t) ==
  /\ S(t) \in completed /\ data[S(t)] >= th[t].kept /\ faults >= th[t].faults
  /\ th[t].pc \in {"judge", "updating", "select", "check", "record", "configured", "stop",
                   "build", "activate"} => Untouched(t)
  /\ th[t].pc \in {"stopping", "emby", "install", "setup"} => Copied(t)
  /\ th[t].pc \in {"emby", "install", "setup", "start"} => process[S(t)] = Down
  /\ th[t].pc \in {"start", "health"} =>
       \/ ~th[t].undo /\ Copied(t)
       \/ /\ th[t].undo /\ Failed(t) /\ snapshot[S(t)] = NoSnapshot
          /\ S(t) \notin RuntimeElsewhere => runtime[S(t)] = th[t].had
  /\ th[t].pc = "start" /\ ~th[t].undo => runtime[S(t)] \in Version
  /\ th[t].pc = "health" /\ ~th[t].undo => process[S(t)] \in Version
  /\ th[t].pc = "health" /\ th[t].undo /\ S(t) \notin RuntimeElsewhere =>
       process[S(t)] = th[t].had
  /\ th[t].pc = "recover" => Failed(t) /\ ~th[t].undo /\ Copied(t)
  /\ th[t].pc \in {"leave", "finally"} =>
       \/ Failed(t) /\ ~th[t].undo /\ Copied(t)
       \/ th[t].result = "failed" /\ Back(t)
       \/ th[t].result # "failed" /\ snapshot[S(t)] = NoSnapshot
Protected == \A t \in Threads : Judged(t) /\ (Careful(t) => Kept(t))

IndInv == Typed /\ Places /\ StartedOnce /\ Sourced /\ SnapshotUsed /\ Written /\ Protected

-----------------------------------------------------------------------------
(* What the steps of a thread change.                                        *)

Results == {"none", "refused", "no_update", "updated", "failed"}

Step(t) ==
  \/ Take_admission(t)
  \/ Scheduled_update_check(t)
  \/ Manual_update_install(t)
  \/ Stop_service(t)
  \/ Start_service(t)
  \/ Auto_update(t)
  \/ Take_updating(t)
  \/ Initial_update_check(t)
  \/ Start_preinstalled(t)
  \/ Configure_or_set_up(t)
  \/ Select_source(t)
  \/ Install_configured_target(t)
  \/ Update_check(t)
  \/ Record_release(t)
  \/ Capture_rollback_snapshot(t)
  \/ Stop_process(t)
  \/ Select_emby_release(t)
  \/ Setup_release_version(t)
  \/ Setup_project(t)
  \/ Build_candidate(t)
  \/ Activate_candidate(t)
  \/ Start_process(t)
  \/ Wait_for_update_health(t)
  \/ Recover_pending_snapshot(t)
  \/ Leave_scheduled(t)
  \/ Leave_manual(t)
  \/ Finally_manual(t)
  \/ Leave_boot(t)

Threaded == th \in [Threads -> Work]
OthersKeep(t) == \A u \in Threads \ {t} : th'[u] = th[u]
\* What an update goes by from its beginning on.
Same(t) ==
  /\ S(t)' = S(t) /\ th'[t].why = th[t].why /\ th'[t].was = th[t].was /\ th'[t].had = th[t].had
  /\ th'[t].kept = th[t].kept /\ th'[t].calm = th[t].calm /\ th'[t].faults = th[t].faults
Remembers(t) ==
  /\ th'[t].original = th[t].original /\ th'[t].guard = th[t].guard
  /\ th'[t].channel = th[t].channel /\ th'[t].moving = th[t].moving

\* What going somewhere, ending, and so on change of a thread.
LEMMA ToEffect ==
  ASSUME Threaded, NEW t \in Threads, NEW p, To(t, p)
  PROVE  /\ OthersKeep(t) /\ Same(t) /\ Remembers(t)
         /\ th'[t].pc = p /\ th'[t].target = th[t].target
         /\ th'[t].result = th[t].result /\ th'[t].undo = th[t].undo
         /\ p \in Pcs => Threaded'
  BY DEF Threaded, To, OthersKeep, Same, Remembers, Work, S

\* The end of an update keeps the result of one that is undone.
LEMMA EndEffect ==
  ASSUME Threaded, NEW t \in Threads, NEW r \in Results, End(t, r)
  PROVE  /\ OthersKeep(t) /\ Same(t) /\ Remembers(t)
         /\ th'[t].pc = After(t) /\ th'[t].target = th[t].target
         /\ th'[t].result = IF th[t].undo THEN th[t].result ELSE r
         /\ th'[t].undo = th[t].undo
         /\ Threaded'
<1>1. After(t) \in Pcs BY DEF After, Pcs
<1>2. th[t] \in Work BY DEF Threaded
<1>3. DEFINE x == IF th[t].undo THEN th[t].result ELSE r
<1>4. x \in Results BY <1>2 DEF Work, Results
<1>5. th' = [th EXCEPT ![t].pc = After(t), ![t].result = x] BY DEF End
<1> HIDE DEF x
<1>6. Threaded' BY <1>1, <1>2, <1>4, <1>5 DEF Threaded, Work, Results
<1>7. OthersKeep(t) /\ Same(t) /\ Remembers(t)
  BY <1>5 DEF Threaded, OthersKeep, Same, Remembers, Work, S
<1>8. th'[t].pc = After(t) /\ th'[t].target = th[t].target /\ th'[t].result = x
      /\ th'[t].undo = th[t].undo
  BY <1>2, <1>5 DEF Threaded, Work
<1> QED BY <1>6, <1>7, <1>8 DEF x

\* An install begins with the version it goes to.
LEMMA BeginEffect ==
  ASSUME Threaded, NEW t \in Threads, NEW v \in 0 .. MaxVersion, Begin_install(t, v)
  PROVE  /\ OthersKeep(t) /\ Same(t) /\ Remembers(t)
         /\ th'[t].pc = IF S(t) \in Candidates THEN "build" ELSE "stop"
         /\ th'[t].target = v
         /\ th'[t].result = th[t].result /\ th'[t].undo = th[t].undo
         /\ Threaded'
<1>1. PICK p \in Pcs : p = IF S(t) \in Candidates THEN "build" ELSE "stop" BY DEF Pcs
<1>2. th[t] \in Work BY DEF Threaded
<1>5. th' = [th EXCEPT ![t].target = v, ![t].pc = p] BY <1>1 DEF Begin_install
<1>6. Threaded' BY <1>1, <1>2, <1>5 DEF Threaded, Work
<1>7. OthersKeep(t) /\ Same(t) /\ Remembers(t)
  BY <1>5 DEF Threaded, OthersKeep, Same, Remembers, Work, S
<1>8. th'[t].pc = p /\ th'[t].target = v /\ th'[t].result = th[t].result
      /\ th'[t].undo = th[t].undo
  BY <1>2, <1>5 DEF Threaded, Work
<1> QED BY <1>1, <1>6, <1>7, <1>8

\* What a thread is when it does nothing.
LEMMA IdleWork == Idle \in Work
<1>1. (CHOOSE s \in Services : TRUE) \in Services BY UpdatesAssumption
<1>2. None \in Sources /\ None \in Selections
  BY UpdatesAssumption DEF None, Sources, Selections, Kinds
<1>3. 0 \in 0 .. MaxVersion /\ 0 \in 0 .. MaxFaults /\ 0 \in 0 .. MaxWrites
  BY UpdatesAssumption
<1>4. Down \in Process /\ Torn \in Content BY DEF Process, Content
<1> QED BY <1>1, <1>2, <1>3, <1>4 DEF Idle, Work, Pcs, Whys

\* A thread that has returned does nothing.
LEMMA PutDownEffect ==
  ASSUME Threaded, NEW t \in Threads, Put_down(t)
  PROVE  OthersKeep(t) /\ th'[t] = Idle /\ Threaded'
  BY IdleWork DEF Threaded, Put_down, OthersKeep

\* Going back has the update failed.
LEMMA RollBackEffect ==
  ASSUME Threaded, NEW t \in Threads, Roll_back(t)
  PROVE  /\ OthersKeep(t) /\ Same(t) /\ Remembers(t)
         /\ th'[t].pc = "recover" /\ th'[t].target = th[t].target
         /\ th'[t].result = "failed" /\ th'[t].undo = th[t].undo
         /\ Threaded'
<1>2. th[t] \in Work BY DEF Threaded
<1>5. th' = [th EXCEPT ![t].pc = "recover", ![t].result = "failed"] BY DEF Roll_back
<1>6. Threaded' BY <1>2, <1>5, ZenonT(60) DEF Threaded, Work, Pcs
<1>7. OthersKeep(t) /\ Same(t) /\ Remembers(t)
  BY <1>5 DEF Threaded, OthersKeep, Same, Remembers, Work, S
<1>8. th'[t].pc = "recover" /\ th'[t].target = th[t].target /\ th'[t].result = "failed"
      /\ th'[t].undo = th[t].undo
  BY <1>2, <1>5 DEF Threaded, Work
<1> QED BY <1>6, <1>7, <1>8

\* The judgement of a request, as Manual_update_install writes it.
LEMMA JudgeEffect ==
  ASSUME Threaded, NEW t \in Threads, NEW r \in Results,
         th' = [th EXCEPT ![t].pc = "updating", ![t].result = r]
  PROVE  /\ OthersKeep(t) /\ Same(t) /\ Remembers(t)
         /\ th'[t].pc = "updating"
         /\ th'[t].result = r
         /\ th'[t].target = th[t].target
         /\ th'[t].undo = th[t].undo
         /\ Threaded'
<1>1. th[t] \in Work BY DEF Threaded
<1>2. Threaded' BY <1>1, ZenonT(60) DEF Threaded, Work, Pcs, Results
<1>3. OthersKeep(t) /\ Same(t) /\ Remembers(t)
  BY <1>1 DEF Threaded, OthersKeep, Same, Remembers, Work, S
<1>4. /\ th'[t].pc = "updating"
      /\ th'[t].result = r
      /\ th'[t].target = th[t].target
      /\ th'[t].undo = th[t].undo
  BY <1>1 DEF Threaded, Work
<1> QED BY <1>2, <1>3, <1>4

\* A release to record, as Update_check writes it.
LEMMA RecordEffect ==
  ASSUME Threaded, NEW t \in Threads, NEW v \in 0 .. MaxVersion,
         th' = [th EXCEPT ![t].pc = "record", ![t].target = v]
  PROVE  /\ OthersKeep(t) /\ Same(t) /\ Remembers(t)
         /\ th'[t].pc = "record"
         /\ th'[t].target = v
         /\ th'[t].result = th[t].result
         /\ th'[t].undo = th[t].undo
         /\ Threaded'
<1>1. th[t] \in Work BY DEF Threaded
<1>2. Threaded' BY <1>1, ZenonT(60) DEF Threaded, Work, Pcs, Results
<1>3. OthersKeep(t) /\ Same(t) /\ Remembers(t)
  BY <1>1 DEF Threaded, OthersKeep, Same, Remembers, Work, S
<1>4. /\ th'[t].pc = "record"
      /\ th'[t].target = v
      /\ th'[t].result = th[t].result
      /\ th'[t].undo = th[t].undo
  BY <1>1 DEF Threaded, Work
<1> QED BY <1>2, <1>3, <1>4

\* The start of what was restored, as Recover_pending_snapshot writes it.
LEMMA UndoEffect ==
  ASSUME Threaded, NEW t \in Threads,
         th' = [th EXCEPT ![t].pc = "start", ![t].undo = TRUE]
  PROVE  /\ OthersKeep(t) /\ Same(t) /\ Remembers(t)
         /\ th'[t].pc = "start"
         /\ th'[t].undo = TRUE
         /\ th'[t].target = th[t].target
         /\ th'[t].result = th[t].result
         /\ Threaded'
<1>1. th[t] \in Work BY DEF Threaded
<1>2. Threaded' BY <1>1 DEF Threaded, Work, Pcs, Results
<1>3. OthersKeep(t) /\ Same(t) /\ Remembers(t)
  BY <1>1 DEF Threaded, OthersKeep, Same, Remembers, Work, S
<1>4. /\ th'[t].pc = "start"
      /\ th'[t].undo = TRUE
      /\ th'[t].target = th[t].target
      /\ th'[t].result = th[t].result
  BY <1>1 DEF Threaded, Work
<1> QED BY <1>2, <1>3, <1>4

\* The setup after a first check, as Leave_boot writes it.
LEMMA AgainEffect ==
  ASSUME Threaded, NEW t \in Threads,
         th' = [th EXCEPT ![t].pc = "configure", ![t].result = "none", ![t].undo = FALSE]
  PROVE  /\ OthersKeep(t) /\ Same(t) /\ Remembers(t)
         /\ th'[t].pc = "configure"
         /\ th'[t].result = "none"
         /\ th'[t].undo = FALSE
         /\ th'[t].target = th[t].target
         /\ Threaded'
<1>1. th[t] \in Work BY DEF Threaded
<1>2. Threaded' BY <1>1, ZenonT(60) DEF Threaded, Work, Pcs, Results
<1>3. OthersKeep(t) /\ Same(t) /\ Remembers(t)
  BY <1>1 DEF Threaded, OthersKeep, Same, Remembers, Work, S
<1>4. /\ th'[t].pc = "configure"
      /\ th'[t].result = "none"
      /\ th'[t].undo = FALSE
      /\ th'[t].target = th[t].target
  BY <1>1 DEF Threaded, Work
<1> QED BY <1>2, <1>3, <1>4

\* A selection changed for a setup, as Select_emby_release writes it.
LEMMA EmbyEffect ==
  ASSUME Threaded, NEW t \in Threads, NEW c \in Sources,
         th' = [th EXCEPT ![t].pc = "setup", ![t].channel = c, ![t].moving = TRUE]
  PROVE  /\ OthersKeep(t) /\ Same(t)
         /\ th'[t].pc = "setup"
         /\ th'[t].channel = c
         /\ th'[t].moving = TRUE
         /\ th'[t].original = th[t].original
         /\ th'[t].guard = th[t].guard
         /\ th'[t].target = th[t].target
         /\ th'[t].result = th[t].result
         /\ th'[t].undo = th[t].undo
         /\ Threaded'
<1>1. th[t] \in Work BY DEF Threaded
<1>2. Threaded' BY <1>1 DEF Threaded, Work, Pcs, Results
<1>3. OthersKeep(t) /\ Same(t)
  BY <1>1 DEF Threaded, OthersKeep, Same, Remembers, Work, S
<1>4. /\ th'[t].pc = "setup"
      /\ th'[t].channel = c
      /\ th'[t].moving = TRUE
      /\ th'[t].original = th[t].original
      /\ th'[t].guard = th[t].guard
      /\ th'[t].target = th[t].target
      /\ th'[t].result = th[t].result
      /\ th'[t].undo = th[t].undo
  BY <1>1 DEF Threaded, Work
<1> QED BY <1>2, <1>3, <1>4

\* The versions installs go to.
LEMMA Targets ==
  ASSUME Typed
  PROVE  /\ \A c \in Sources : Configured_target(c) \in Version
         /\ \A s \in Enabled : Update_target(s) \in 0 .. MaxVersion
<1>1. upstream \in Version /\ \A v \in Version : v \in 0 .. MaxVersion
  BY UpdatesAssumption DEF Typed, Version
<1>2. ASSUME NEW c \in Sources PROVE Configured_target(c) \in Version
  <2>1. /\ c.version \in 0 .. MaxVersion
        /\ c.kind \in {"commit", "release", "pinned_version"} => c.version # 0
    BY DEF Sources, Selections
  <2>2. c.kind \in {"commit", "release", "pinned_version"} => c.version \in Version
    BY <2>1, UpdatesAssumption DEF Version
  <2> QED BY <1>1, <2>2 DEF Configured_target
<1>3. ASSUME NEW s \in Enabled PROVE Update_target(s) \in 0 .. MaxVersion
  <2>1. selection[s].version \in 0 .. MaxVersion BY DEF Typed, Sources, Selections
  <2>2. upstream \in 0 .. MaxVersion /\ 0 \in 0 .. MaxVersion
    BY <1>1, UpdatesAssumption DEF Version
  <2>3. Family[s] \in Families BY UpdatesAssumption DEF Typed
  <2> QED
    BY <2>1, <2>2, <2>3
       DEF Update_target, Families, Update_check_repo, Update_check_arr_latest,
           Update_check_jellyfin_latest, Update_check_emby_latest, Update_check_plex,
           Update_check_oci, Update_check_pinned_version, Unless
<1> QED BY <1>2, <1>3

\* What these effects come to in the actions that write several fields.
LEMMA AdmissionActs ==
  ASSUME Typed, Places, NEW t \in Threads, Take_admission(t)
  PROVE  /\ Threaded' /\ OthersKeep(t) /\ Remembers(t)
         /\ th'[t].pc = "judge" /\ S(t)' = S(t) /\ th'[t].why = th[t].why
         /\ th'[t].was = process[S(t)] /\ th'[t].had = runtime[S(t)]
         /\ th'[t].kept = data[S(t)] /\ th'[t].calm = (S(t) \in completed)
         /\ th'[t].faults = faults /\ th'[t].target = th[t].target
         /\ th'[t].result = th[t].result /\ th'[t].undo = th[t].undo
<1>t. Threaded BY DEF Typed, Threaded
<1>w. th[t] \in Work BY <1>t DEF Threaded
<1>p. th[t].pc # "idle" => S(t) \in Enabled BY DEF Places, Purpose
<1>1. S(t) \in Enabled BY <1>p DEF Take_admission, At
<1>2. /\ process[S(t)] \in Process /\ runtime[S(t)] \in Content
      /\ data[S(t)] \in 0 .. MaxWrites /\ faults \in 0 .. MaxFaults
      /\ (S(t) \in completed) \in BOOLEAN
  BY <1>1 DEF Typed
<1>3. th' = [th EXCEPT ![t] = [@ EXCEPT !.pc = "judge", !.was = process[S(t)],
                                        !.had = runtime[S(t)], !.kept = data[S(t)],
                                        !.calm = (S(t) \in completed), !.faults = faults]]
  BY DEF Take_admission
<1> DEFINE c == (S(t) \in completed)
<1>4. c \in BOOLEAN OBVIOUS
<1>5. th' = [th EXCEPT ![t] = [@ EXCEPT !.pc = "judge", !.was = process[S(t)],
                                        !.had = runtime[S(t)], !.kept = data[S(t)],
                                        !.calm = c, !.faults = faults]]
  BY <1>3
<1> HIDE DEF c
<1>6. /\ Threaded' /\ OthersKeep(t) /\ Remembers(t)
      /\ th'[t].pc = "judge" /\ S(t)' = S(t) /\ th'[t].why = th[t].why
      /\ th'[t].was = process[S(t)] /\ th'[t].had = runtime[S(t)]
      /\ th'[t].kept = data[S(t)] /\ th'[t].calm = c
      /\ th'[t].faults = faults /\ th'[t].target = th[t].target
      /\ th'[t].result = th[t].result /\ th'[t].undo = th[t].undo
  <2>1. Threaded' BY <1>t, <1>w, <1>2, <1>4, <1>5 DEF Threaded, Work, Pcs
  <2>2. OthersKeep(t) /\ Remembers(t)
    BY <1>t, <1>w, <1>5 DEF Threaded, Work, OthersKeep, Remembers
  <2>3. /\ th'[t].pc = "judge" /\ S(t)' = S(t) /\ th'[t].why = th[t].why
        /\ th'[t].was = process[S(t)] /\ th'[t].had = runtime[S(t)]
        /\ th'[t].kept = data[S(t)] /\ th'[t].calm = c
        /\ th'[t].faults = faults /\ th'[t].target = th[t].target
        /\ th'[t].result = th[t].result /\ th'[t].undo = th[t].undo
    BY <1>t, <1>w, <1>5 DEF Threaded, Work, S
  <2> QED BY <2>1, <2>2, <2>3
<1> QED BY <1>6 DEF c

\* The judgement refuses, or goes on, or returns.
LEMMA JudgeActs ==
  ASSUME Typed, Places, NEW t \in Threads, Manual_update_install(t)
  PROVE  \/ /\ Threaded' /\ OthersKeep(t) /\ Same(t) /\ Remembers(t)
            /\ th'[t].pc = "updating" /\ th'[t].target = th[t].target
            /\ th'[t].result = IF Refused(t) THEN "refused" ELSE th[t].result
            /\ th'[t].undo = th[t].undo
            /\ UNCHANGED <<locks, config, upstream, service, schedule, starter, bounds>>
         \/ ~Refused(t) /\ Return(t)
<1>t. Threaded BY DEF Typed, Threaded
<1>w. th[t] \in Work BY <1>t DEF Threaded
<1>p. th[t].pc # "idle" => S(t) \in Enabled BY DEF Places, Purpose
<1>2. ASSUME NEW r, r = IF Refused(t) THEN "refused" ELSE th[t].result,
             th' = [th EXCEPT ![t].pc = "updating", ![t].result = r]
      PROVE  /\ Threaded' /\ OthersKeep(t) /\ Same(t) /\ Remembers(t)
             /\ th'[t].pc = "updating" /\ th'[t].target = th[t].target
             /\ th'[t].result = r /\ th'[t].undo = th[t].undo
  <2>1. r \in Results BY <1>w, <1>2 DEF Work, Results
  <2> QED BY <1>t, <1>2, <2>1, JudgeEffect
<1>3. \/ /\ th' = [th EXCEPT ![t].pc = "updating",
                             ![t].result = IF Refused(t) THEN "refused" ELSE th[t].result]
         /\ UNCHANGED <<locks, config, upstream, service, schedule, starter, bounds>>
      \/ ~Refused(t) /\ Return(t)
  BY <1>t DEF Manual_update_install, Threaded
<1> QED BY <1>2, <1>3

\* The selection an update goes by.
Chosen_for(t) == IF th[t].why = "override" THEN None
                 ELSE IF th[t].why = "prerelease" THEN [kind |-> "prerelease", version |-> 0]
                 ELSE Sel(t)

\* The selections an update is made with are selections that may be saved.
LEMMA Guards ==
  /\ None \in Sources /\ [kind |-> "prerelease", version |-> 0] \in Sources
  /\ \A c \in Sources : c \in Selections /\ Source_guard(c) \in Selections
  BY UpdatesAssumption DEF None, Sources, Selections, Kinds, Source_guard, Released

\* The selection is refused, or replaced with a guard on what replaces it.
LEMMA SelectActs ==
  ASSUME Typed, Places, NEW t \in Threads, Select_source(t)
  PROVE  /\ Threaded' /\ OthersKeep(t) /\ Same(t) /\ th[t].pc = "select"
         /\ th'[t].target = th[t].target /\ th'[t].undo = th[t].undo
         /\ th'[t].channel = th[t].channel /\ th'[t].moving = th[t].moving
         /\ UNCHANGED <<locks, auto, chosen, overlapped, upstream, service, schedule, starter, bounds>>
         /\ \/ /\ Refused(t) /\ th'[t].pc = After(t) /\ UNCHANGED selection
               /\ th'[t].original = th[t].original /\ th'[t].guard = th[t].guard
               /\ th'[t].result = IF th[t].undo THEN th[t].result
                                  ELSE IF th[t].result = "refused" THEN "refused" ELSE "failed"
            \/ /\ ~Refused(t)
               /\ selection' = [selection EXCEPT ![S(t)] = Chosen_for(t)]
               /\ Chosen_for(t) \in Sources
               /\ th'[t].pc = IF th[t].why = "configured" THEN "configured" ELSE "check"
               /\ th'[t].original = Sel(t) /\ th'[t].guard = Source_guard(Chosen_for(t))
               /\ th'[t].result = th[t].result
<1>t. Threaded BY DEF Typed, Threaded
<1>w. th[t] \in Work BY <1>t DEF Threaded
<1>p. th[t].pc # "idle" => S(t) \in Enabled BY DEF Places, Purpose
<1>1. /\ th[t].pc = "select"
      /\ UNCHANGED <<locks, auto, chosen, overlapped, upstream, service, schedule, starter, bounds>>
  BY DEF Select_source, At
<1>2. S(t) \in Enabled BY <1>1, <1>p
<1>3. Sel(t) \in Sources BY <1>2 DEF Typed, Sel
<1>4. CASE Refused(t)
  <2>1. PICK r \in Results : /\ r = IF th[t].result = "refused" THEN "refused" ELSE "failed"
                             /\ End(t, r)
    BY <1>4 DEF Select_source, Results
  <2>2. UNCHANGED selection BY <1>4 DEF Select_source
  <2> QED BY <1>t, <1>1, <1>4, <2>1, <2>2, EndEffect DEF Remembers
<1>5. CASE ~Refused(t)
  <2>1. PICK p \in Pcs : p = IF th[t].why = "configured" THEN "configured" ELSE "check"
    BY DEF Pcs
  <2>2. Chosen_for(t) \in Sources BY <1>3, Guards DEF Chosen_for
  <2>3. Source_guard(Chosen_for(t)) \in Selections BY <2>2, Guards
  <2>4. /\ selection' = [selection EXCEPT ![S(t)] = Chosen_for(t)]
        /\ th' = [th EXCEPT ![t].original = Sel(t),
                            ![t].guard = Source_guard(Chosen_for(t)), ![t].pc = p]
    BY <1>5, <2>1 DEF Select_source, Chosen_for
  <2>5. PICK g \in Selections : g = Source_guard(Chosen_for(t)) BY <2>3
  <2>6. th' = [th EXCEPT ![t].original = Sel(t), ![t].guard = g, ![t].pc = p] BY <2>4, <2>5
  <2>7. /\ Threaded' /\ OthersKeep(t) /\ Same(t)
        /\ th'[t].target = th[t].target /\ th'[t].undo = th[t].undo
        /\ th'[t].channel = th[t].channel /\ th'[t].moving = th[t].moving
        /\ th'[t].pc = p /\ th'[t].original = Sel(t) /\ th'[t].guard = g
        /\ th'[t].result = th[t].result
    <3>1. Threaded' BY <1>t, <1>w, <1>3, <2>6 DEF Threaded, Work
    <3>2. OthersKeep(t) /\ Same(t)
      BY <1>t, <1>w, <2>6 DEF Threaded, Work, OthersKeep, Same, S
    <3>3. /\ th'[t].target = th[t].target /\ th'[t].undo = th[t].undo
          /\ th'[t].channel = th[t].channel /\ th'[t].moving = th[t].moving
          /\ th'[t].pc = p /\ th'[t].original = Sel(t) /\ th'[t].guard = g
          /\ th'[t].result = th[t].result
      BY <1>t, <1>w, <2>6 DEF Threaded, Work
    <3> QED BY <3>1, <3>2, <3>3
  <2> QED BY <1>1, <1>5, <2>1, <2>2, <2>4, <2>5, <2>7
<1> QED BY <1>4, <1>5

\* What is configured is installed as the version it comes to.
LEMMA ConfiguredActs ==
  ASSUME Typed, Places, NEW t \in Threads, Install_configured_target(t)
  PROVE  /\ Threaded' /\ OthersKeep(t) /\ Same(t) /\ Remembers(t) /\ th[t].pc = "configured"
         /\ th'[t].pc = IF S(t) \in Candidates THEN "build" ELSE "stop"
         /\ th'[t].target \in Version
         /\ th'[t].result = th[t].result /\ th'[t].undo = th[t].undo
<1>t. Threaded BY DEF Typed, Threaded
<1>w. th[t] \in Work BY <1>t DEF Threaded
<1>p. th[t].pc # "idle" => S(t) \in Enabled BY DEF Places, Purpose
<1>1. th[t].pc = "configured" /\ Begin_install(t, Configured_target(Sel(t)))
  BY DEF Install_configured_target, At
<1>2. Sel(t) \in Sources BY <1>1, <1>p DEF Typed, Sel
<1>3. Configured_target(Sel(t)) \in Version /\ Configured_target(Sel(t)) \in 0 .. MaxVersion
  BY <1>2, Targets, UpdatesAssumption DEF Version
<1> QED BY <1>t, <1>1, <1>3, BeginEffect

\* A check ends the update, or begins an install, or has a release to record.
LEMMA CheckActs ==
  ASSUME Typed, Places, NEW t \in Threads, Update_check(t)
  PROVE  /\ Threaded' /\ OthersKeep(t) /\ Same(t) /\ Remembers(t) /\ th[t].pc = "check"
         /\ th'[t].undo = th[t].undo
         /\ \/ /\ th'[t].pc = After(t) /\ th'[t].target = th[t].target /\ UNCHANGED faults
               /\ th'[t].result = IF th[t].undo THEN th[t].result ELSE "no_update"
            \/ /\ th'[t].pc = After(t) /\ th'[t].target = th[t].target /\ faults' = faults + 1
               /\ th'[t].result = IF th[t].undo THEN th[t].result ELSE "failed"
            \/ /\ th'[t].pc = "record" /\ th'[t].target # 0 /\ UNCHANGED faults
               /\ th'[t].result = th[t].result
               /\ Generic(S(t)) /\ Sel(t).kind # "prerelease"
            \/ /\ th'[t].pc = IF S(t) \in Candidates THEN "build" ELSE "stop"
               /\ Setup_installs(S(t)) => th'[t].target # 0
               /\ UNCHANGED faults /\ th'[t].result = th[t].result
<1>t. Threaded BY DEF Typed, Threaded
<1>w. th[t] \in Work BY <1>t DEF Threaded
<1>p. th[t].pc # "idle" => S(t) \in Enabled BY DEF Places, Purpose
<1>1. th[t].pc = "check" BY DEF Update_check, At
<1>2. PICK v \in 0 .. MaxVersion : v = Update_target(S(t)) BY <1>1, <1>p, Targets
<1>3. CASE v = 0 /\ End(t, "no_update") /\ Sound
  BY <1>t, <1>1, <1>3, EndEffect DEF Sound, Results
<1>4. CASE Fault /\ End(t, "failed") BY <1>t, <1>1, <1>4, EndEffect DEF Fault, Results
<1>5. CASE /\ v # 0 /\ Sound /\ th' = [th EXCEPT ![t].pc = "record", ![t].target = v]
           /\ Generic(S(t)) /\ Sel(t).kind # "prerelease"
  BY <1>t, <1>1, <1>5, RecordEffect DEF Sound
<1>6. CASE v # 0 /\ Sound /\ Begin_install(t, IF Setup_installs(S(t)) THEN v ELSE 0)
  <2>1. PICK x \in 0 .. MaxVersion : x = IF Setup_installs(S(t)) THEN v ELSE 0
    BY UpdatesAssumption
  <2> QED BY <1>t, <1>1, <1>6, <2>1, BeginEffect DEF Sound
<1> QED BY <1>2, <1>3, <1>4, <1>5, <1>6 DEF Update_check

\* A recorded release is one that may be saved.
LEMMA RecordActs ==
  ASSUME Typed, Places, NEW t \in Threads, Record_release(t)
  PROVE  /\ Threaded' /\ OthersKeep(t) /\ Same(t) /\ Remembers(t) /\ th[t].pc = "record"
         /\ th'[t].pc = IF S(t) \in Candidates THEN "build" ELSE "stop"
         /\ th'[t].target = th[t].target
         /\ th'[t].result = th[t].result /\ th'[t].undo = th[t].undo
         /\ selection' = [selection EXCEPT ![S(t)] =
                            IF Sel(t).kind \in Released
                            THEN [kind |-> "release", version |-> th[t].target] ELSE Sel(t)]
         /\ [kind |-> "release", version |-> th[t].target] \in Sources
<1>t. Threaded BY DEF Typed, Threaded
<1>w. th[t] \in Work BY <1>t DEF Threaded
<1>p. th[t].pc # "idle" => S(t) \in Enabled BY DEF Places, Purpose
<1>1. th[t].pc = "record" /\ Begin_install(t, th[t].target) BY DEF Record_release, At
<1>2. th[t].target \in 0 .. MaxVersion /\ th[t].target # 0
  BY <1>1, <1>w DEF Places, Place, Work
<1>3. [kind |-> "release", version |-> th[t].target] \in Sources
  BY <1>2 DEF Sources, Selections, Kinds
<1>4. selection' = [selection EXCEPT ![S(t)] =
                      IF Sel(t).kind \in Released
                      THEN [kind |-> "release", version |-> th[t].target] ELSE Sel(t)]
  BY <1>1, <1>p DEF Record_release, Typed, Sel
<1> QED BY <1>t, <1>1, <1>2, <1>3, <1>4, BeginEffect

\* Emby's newest release is selected for the setup.
LEMMA EmbyActs ==
  ASSUME Typed, Places, NEW t \in Threads, Select_emby_release(t)
  PROVE  /\ Threaded' /\ OthersKeep(t) /\ Same(t) /\ th[t].pc = "emby"
         /\ th'[t].pc = "setup" /\ th'[t].moving = TRUE /\ th'[t].channel = Sel(t)
         /\ th'[t].original = th[t].original /\ th'[t].guard = th[t].guard
         /\ th'[t].target = th[t].target
         /\ th'[t].result = th[t].result /\ th'[t].undo = th[t].undo
         /\ selection' = [selection EXCEPT ![S(t)] =
                            [kind |-> "release", version |-> th[t].target]]
         /\ [kind |-> "release", version |-> th[t].target] \in Sources
<1>t. Threaded BY DEF Typed, Threaded
<1>w. th[t] \in Work BY <1>t DEF Threaded
<1>p. th[t].pc # "idle" => S(t) \in Enabled BY DEF Places, Purpose
<1>1. th[t].pc = "emby" BY DEF Select_emby_release, At
<1>2. th[t].target \in 0 .. MaxVersion /\ th[t].target # 0
  BY <1>1, <1>w DEF Places, Place, Work
<1>3. [kind |-> "release", version |-> th[t].target] \in Sources
  BY <1>2 DEF Sources, Selections, Kinds
<1>4. Sel(t) \in Sources BY <1>1, <1>p DEF Typed, Sel
<1>5. th' = [th EXCEPT ![t].pc = "setup", ![t].channel = Sel(t), ![t].moving = TRUE]
  BY DEF Select_emby_release
<1> QED BY <1>t, <1>1, <1>3, <1>4, <1>5, EmbyEffect DEF Select_emby_release

\* A snapshot is restored, or given up, or was not there.
LEMMA RecoverActs ==
  ASSUME Typed, Places, NEW t \in Threads, Recover_pending_snapshot(t)
  PROVE  /\ Threaded' /\ OthersKeep(t) /\ Same(t) /\ Remembers(t) /\ th[t].pc = "recover"
         /\ th'[t].target = th[t].target /\ th'[t].result = th[t].result
         /\ \/ /\ snapshot[S(t)] # NoSnapshot /\ th'[t].pc = "start" /\ th'[t].undo = TRUE
               /\ process' = [process EXCEPT ![S(t)] = Down]
               /\ runtime' = [runtime EXCEPT ![S(t)] = IF S(t) \in RuntimeElsewhere THEN @
                                                       ELSE snapshot[S(t)].runtime]
               /\ data' = [data EXCEPT ![S(t)] = IF S(t) \in DataInTarget
                                                 THEN snapshot[S(t)].data ELSE @]
               /\ UNCHANGED faults
            \/ /\ snapshot[S(t)] # NoSnapshot /\ th'[t].pc = After(t)
               /\ th'[t].undo = th[t].undo /\ faults' = faults + 1
               /\ process' = [process EXCEPT ![S(t)] = Down] /\ UNCHANGED <<runtime, data>>
            \/ /\ snapshot[S(t)] = NoSnapshot /\ th'[t].pc = After(t)
               /\ th'[t].undo = th[t].undo /\ UNCHANGED <<process, runtime, data, faults>>
<1>t. Threaded BY DEF Typed, Threaded
<1>w. th[t] \in Work BY <1>t DEF Threaded
<1>p. th[t].pc # "idle" => S(t) \in Enabled BY DEF Places, Purpose
<1>1. th[t].pc = "recover" BY DEF Recover_pending_snapshot, At
<1>2. ASSUME th' = [th EXCEPT ![t].pc = "start", ![t].undo = TRUE]
      PROVE  /\ Threaded' /\ OthersKeep(t) /\ Same(t) /\ Remembers(t)
             /\ th'[t].target = th[t].target /\ th'[t].result = th[t].result
             /\ th'[t].pc = "start" /\ th'[t].undo = TRUE
  BY <1>t, <1>2, UndoEffect
<1>3. ASSUME To(t, After(t))
      PROVE  /\ Threaded' /\ OthersKeep(t) /\ Same(t) /\ Remembers(t)
             /\ th'[t].target = th[t].target /\ th'[t].result = th[t].result
             /\ th'[t].pc = After(t) /\ th'[t].undo = th[t].undo
  <2>1. After(t) \in Pcs BY DEF After, Pcs
  <2> QED BY <1>t, <1>3, <2>1, ToEffect
<1> QED BY <1>1, <1>2, <1>3 DEF Recover_pending_snapshot, Fault, Sound

\* A thread tells nothing to the others, and keeps to one service.
LEMMA ThreadEffect ==
  ASSUME Typed, Places, NEW t \in Threads, Step(t)
  PROVE  /\ Threaded' /\ OthersKeep(t)
         /\ \/ th'[t] = Idle
            \/ S(t)' = S(t) /\ th'[t].why = th[t].why
<1>t. Threaded BY DEF Typed, Threaded
<1>w. th[t] \in Work BY <1>t DEF Threaded
<1>p. th[t].pc # "idle" => S(t) \in Enabled BY DEF Places, Purpose
<1>1. CASE Take_admission(t) BY <1>t, <1>1, AdmissionActs DEF Same
<1>2. CASE Scheduled_update_check(t)
  BY <1>t, <1>w, <1>p, <1>2, ToEffect, PutDownEffect
     DEF Scheduled_update_check, Return, At, Pcs, Results, Same, After
<1>3. CASE Manual_update_install(t) BY <1>t, <1>3, JudgeActs, PutDownEffect DEF Same, Return
<1>4. CASE Stop_service(t)
  BY <1>t, <1>w, <1>p, <1>4, ToEffect, PutDownEffect
     DEF Stop_service, Return, At, Pcs, Results, Same, After
<1>5. CASE Start_service(t)
  BY <1>t, <1>w, <1>p, <1>5, ToEffect, PutDownEffect
     DEF Start_service, At, Pcs, Results, Same, After
<1>6. CASE Auto_update(t)
  BY <1>t, <1>w, <1>p, <1>6, ToEffect DEF Auto_update, At, Pcs, Results, Same, After
<1>7. CASE Take_updating(t)
  BY <1>t, <1>w, <1>p, <1>7, ToEffect DEF Take_updating, At, Pcs, Results, Same, After
<1>8. CASE Initial_update_check(t)
  BY <1>t, <1>w, <1>p, <1>8, ToEffect, EndEffect
     DEF Initial_update_check, At, Pcs, Results, Same, After
<1>9. CASE Start_preinstalled(t)
  BY <1>t, <1>w, <1>p, <1>9, ToEffect DEF Start_preinstalled, At, Pcs, Results, Same, After
<1>10. CASE Configure_or_set_up(t)
  BY <1>t, <1>w, <1>p, <1>10, ToEffect, EndEffect
     DEF Configure_or_set_up, At, Pcs, Results, Same, After
<1>11. CASE Select_source(t) BY <1>t, <1>11, SelectActs DEF Same
<1>12. CASE Install_configured_target(t) BY <1>t, <1>12, ConfiguredActs DEF Same
<1>13. CASE Update_check(t) BY <1>t, <1>13, CheckActs DEF Same
<1>14. CASE Record_release(t) BY <1>t, <1>14, RecordActs DEF Same
<1>15. CASE Capture_rollback_snapshot(t)
  BY <1>t, <1>w, <1>p, <1>15, ToEffect, EndEffect
     DEF Capture_rollback_snapshot, At, Pcs, Results, Same, After
<1>16. CASE Stop_process(t)
  BY <1>t, <1>w, <1>p, <1>16, ToEffect DEF Stop_process, At, Pcs, Results, Same, After
<1>17. CASE Select_emby_release(t) BY <1>t, <1>17, EmbyActs DEF Same
<1>18. CASE Setup_release_version(t)
  BY <1>t, <1>w, <1>p, <1>18, ToEffect, EndEffect
     DEF Setup_release_version, At, Pcs, Results, Same, After
<1>19. CASE Setup_project(t)
  BY <1>t, <1>w, <1>p, <1>19, ToEffect, EndEffect
     DEF Setup_project, At, Pcs, Results, Same, After
<1>20. CASE Build_candidate(t)
  BY <1>t, <1>w, <1>p, <1>20, ToEffect, EndEffect
     DEF Build_candidate, At, Pcs, Results, Same, After
<1>21. CASE Activate_candidate(t)
  BY <1>t, <1>w, <1>p, <1>21, ToEffect, RollBackEffect
     DEF Activate_candidate, Roll_back, At, Pcs, Results, Same, After
<1>22. CASE Start_process(t)
  BY <1>t, <1>w, <1>p, <1>22, ToEffect, EndEffect, RollBackEffect
     DEF Start_process, Not_running, At, Pcs, Results, Same, After
<1>23. CASE Wait_for_update_health(t)
  BY <1>t, <1>w, <1>p, <1>23, EndEffect, RollBackEffect
     DEF Wait_for_update_health, Not_running, At, Pcs, Results, Same, After
<1>24. CASE Recover_pending_snapshot(t) BY <1>t, <1>24, RecoverActs DEF Same
<1>25. CASE Leave_scheduled(t)
  BY <1>t, <1>w, <1>p, <1>25, ToEffect, PutDownEffect
     DEF Leave_scheduled, At, Pcs, Results, Same, After
<1>26. CASE Leave_manual(t)
  BY <1>t, <1>w, <1>p, <1>26, ToEffect DEF Leave_manual, At, Pcs, Results, Same, After
<1>27. CASE Finally_manual(t)
  BY <1>t, <1>w, <1>p, <1>27, ToEffect, PutDownEffect
     DEF Finally_manual, Return, At, Pcs, Results, Same, After
<1>28. CASE Leave_boot(t)
  BY <1>t, <1>w, <1>p, <1>28, PutDownEffect, AgainEffect
     DEF Leave_boot, At, Pcs, Results, Same, After
<1> QED BY <1>1, <1>2, <1>3, <1>4, <1>5, <1>6, <1>7, <1>8, <1>9, <1>10, <1>11, <1>12, <1>13,
           <1>14, <1>15, <1>16, <1>17, <1>18, <1>19, <1>20, <1>21, <1>22, <1>23, <1>24,
           <1>25, <1>26, <1>27, <1>28 DEF Step

\* Nothing of the other services changes.
OneService(t) ==
  \A s \in Enabled \ {S(t)} :
    /\ selection'[s] = selection[s] /\ runtime'[s] = runtime[s] /\ process'[s] = process[s]
    /\ snapshot'[s] = snapshot[s] /\ data'[s] = data[s]

\* A step of a thread keeps the types and touches one service.
LEMMA ServiceEffect ==
  ASSUME Typed, Places, NEW t \in Threads, Step(t)
  PROVE  /\ S(t) \in Enabled /\ th[t].pc # "idle"
         /\ UNCHANGED <<chosen, overlapped, auto, upstream, written, pending>>
         /\ faults' \in {faults, faults + 1} /\ faults' \in 0 .. MaxFaults
         /\ selection' \in [Enabled -> Sources] /\ runtime' \in [Enabled -> Content]
         /\ process' \in [Enabled -> Process] /\ data' \in [Enabled -> 0 .. MaxWrites]
         /\ snapshot' \in [Enabled -> Snapshots]
         /\ jobs' \subseteq Enabled \cup {Api} /\ spawned' \subseteq Enabled
         /\ scheduler' \in BOOLEAN /\ completed' \subseteq Enabled
         /\ {admission', updating'} \subseteq Threads \cup {Nobody}
         /\ OneService(t)
<1> USE DEF locks, config, service, schedule, starter, bounds, Fault, Sound
<1>t. Threaded BY DEF Typed, Threaded
<1>w. th[t] \in Work BY <1>t DEF Threaded
<1>p. th[t].pc # "idle" => S(t) \in Enabled BY DEF Places, Purpose
<1>c. /\ selection \in [Enabled -> Sources] /\ chosen \in [Enabled -> Sources]
      /\ overlapped \subseteq Enabled
      /\ auto \in [Enabled -> Modes] /\ upstream \in Version
      /\ runtime \in [Enabled -> Content] /\ process \in [Enabled -> Process]
      /\ snapshot \in [Enabled -> Snapshots]
      /\ data \in [Enabled -> 0 .. MaxWrites] /\ written \in [Enabled -> 0 .. MaxWrites]
      /\ jobs \subseteq Enabled \cup {Api} /\ spawned \subseteq Enabled /\ scheduler \in BOOLEAN
      /\ pending \subseteq Enabled /\ completed \subseteq Enabled /\ faults \in 0 .. MaxFaults
      /\ {admission, updating} \subseteq Threads \cup {Nobody}
  BY DEF Typed
<1>m. MaxFaults \in Nat BY UpdatesAssumption
<1>b. S(t) \in Enabled => Brought(t) \in Version
  BY <1>w, <1>c, UpdatesAssumption DEF Brought, Work, Version
<1>s. /\ NoSnapshot \in Snapshots
      /\ \A x \in Snapshots : x # NoSnapshot => x.runtime \in Content /\ x.data \in 0 .. MaxWrites
      /\ \A r \in Content, v \in 0 .. MaxWrites : [runtime |-> r, data |-> v] \in Snapshots
  BY DEF Snapshots
<1>o. th[t].original \in Sources /\ th[t].channel \in Sources BY <1>w DEF Work
<1>1. CASE Take_admission(t)
  BY <1>c, <1>m, <1>p, <1>1 DEF Take_admission, At, OneService, Sel, Give_back
<1>2. CASE Scheduled_update_check(t)
  BY <1>c, <1>m, <1>p, <1>2
     DEF Scheduled_update_check, Return, At, OneService, Sel, Give_back
<1>3. CASE Manual_update_install(t)
  BY <1>c, <1>m, <1>p, <1>3
     DEF Manual_update_install, Return, At, OneService, Sel, Give_back
<1>4. CASE Stop_service(t)
  BY <1>c, <1>m, <1>p, <1>4
     DEF Stop_service, Return, At, OneService, Sel, Process, Content, Give_back
<1>5. CASE Start_service(t)
  BY <1>c, <1>m, <1>p, Targets, <1>5
     DEF Start_service, At, OneService, Sel, Set_up, Process, Content, Give_back
<1>6. CASE Auto_update(t)
  BY <1>c, <1>m, <1>p, <1>6 DEF Auto_update, At, OneService, Sel, Give_back
<1>7. CASE Take_updating(t)
  BY <1>c, <1>m, <1>p, <1>7 DEF Take_updating, At, OneService, Sel, Give_back
<1>8. CASE Initial_update_check(t)
  BY <1>c, <1>m, <1>p, <1>8 DEF Initial_update_check, At, OneService, Sel, Give_back
<1>9. CASE Start_preinstalled(t)
  BY <1>c, <1>m, <1>p, Targets, <1>9
     DEF Start_preinstalled, At, OneService, Sel, Process, Content, Give_back
<1>10. CASE Configure_or_set_up(t)
  BY <1>c, <1>m, <1>p, Targets, <1>10
     DEF Configure_or_set_up, At, OneService, Sel, Set_up, Process, Content, Give_back
<1>11. CASE Select_source(t)
  BY <1>c, <1>m, <1>p, SelectActs, <1>11, ZenonT(60) DEF Select_source, At, OneService, Sel, Give_back
<1>12. CASE Install_configured_target(t)
  BY <1>c, <1>m, <1>p, <1>12 DEF Install_configured_target, At, OneService, Sel, Give_back
<1>13. CASE Update_check(t)
  BY <1>c, <1>m, <1>p, <1>13 DEF Update_check, At, OneService, Sel, Give_back
<1>14. CASE Record_release(t)
  BY <1>c, <1>m, <1>p, RecordActs, <1>14 DEF Record_release, At, OneService, Sel, Give_back
<1>15. CASE Capture_rollback_snapshot(t)
  BY <1>c, <1>m, <1>p, <1>s, <1>15
     DEF Capture_rollback_snapshot, At, OneService, Sel, Process, Content, Give_back
<1>16. CASE Stop_process(t)
  BY <1>c, <1>m, <1>p, <1>16
     DEF Stop_process, At, OneService, Sel, Process, Content, Give_back
<1>17. CASE Select_emby_release(t)
  BY <1>c, <1>m, <1>p, EmbyActs, <1>17
     DEF Select_emby_release, At, OneService, Sel, Give_back
<1>18. CASE Setup_release_version(t)
  BY <1>c, <1>m, <1>p, <1>18
     DEF Setup_release_version, At, OneService, Sel, Process, Content, Give_back
<1>19. CASE Setup_project(t)
  BY <1>c, <1>m, <1>p, Targets, <1>b, <1>o, <1>19
     DEF Setup_project, At, OneService, Sel, Process, Content, Give_back
<1>20. CASE Build_candidate(t)
  BY <1>c, <1>m, <1>p, <1>20 DEF Build_candidate, At, OneService, Sel, Give_back
<1>21. CASE Activate_candidate(t)
  BY <1>c, <1>m, <1>p, <1>b, <1>s, <1>21
     DEF Activate_candidate, Roll_back, At, OneService, Sel, Process, Content, Give_back
<1>22. CASE Start_process(t)
  BY <1>c, <1>m, <1>p, <1>22
     DEF Start_process, Not_running, At, OneService, Sel, Process, Content, Give_back
<1>23. CASE Wait_for_update_health(t)
  BY <1>c, <1>m, <1>p, <1>s, <1>23
     DEF Wait_for_update_health, Not_running, At, OneService, Sel, Process, Content,
         Give_back
<1>24. CASE Recover_pending_snapshot(t)
  BY <1>c, <1>m, <1>p, <1>s, <1>24
     DEF Recover_pending_snapshot, At, OneService, Sel, Process, Content, Give_back
<1>25. CASE Leave_scheduled(t)
  BY <1>c, <1>m, <1>p, <1>25 DEF Leave_scheduled, At, OneService, Sel, Give_back
<1>26. CASE Leave_manual(t)
  BY <1>c, <1>m, <1>p, <1>o, <1>26 DEF Leave_manual, At, OneService, Sel, Give_back
<1>27. CASE Finally_manual(t)
  BY <1>c, <1>m, <1>p, <1>27 DEF Finally_manual, Return, At, OneService, Sel, Give_back
<1>28. CASE Leave_boot(t)
  BY <1>c, <1>m, <1>p, <1>28 DEF Leave_boot, At, OneService, Sel, Give_back
<1> QED BY <1>1, <1>2, <1>3, <1>4, <1>5, <1>6, <1>7, <1>8, <1>9, <1>10, <1>11, <1>12, <1>13,
           <1>14, <1>15, <1>16, <1>17, <1>18, <1>19, <1>20, <1>21, <1>22, <1>23, <1>24,
           <1>25, <1>26, <1>27, <1>28 DEF Step

\* A thread that takes up work starts from nothing.
LEMMA TakeEffect ==
  ASSUME Threaded, NEW t \in Threads, NEW s \in Services, NEW why \in Whys, NEW p \in Pcs,
         Take(t, s, why, p)
  PROVE  /\ Threaded' /\ OthersKeep(t) /\ th'[t].pc = p /\ S(t)' = s /\ th'[t].why = why
         /\ th'[t].target = 0 /\ th'[t].result = "none" /\ th'[t].undo = FALSE
         /\ th'[t].original = None /\ th'[t].guard = None /\ th'[t].channel = None
         /\ th'[t].moving = FALSE
<1>1. Idle \in Work BY IdleWork
<1>2. [Idle EXCEPT !.pc = p, !.s = s, !.why = why] \in Work BY <1>1 DEF Work
<1>3. th' = [th EXCEPT ![t] = [Idle EXCEPT !.pc = p, !.s = s, !.why = why]] BY DEF Take
<1>4. th'[t] = [Idle EXCEPT !.pc = p, !.s = s, !.why = why] BY <1>3 DEF Threaded
<1>5. Threaded' /\ OthersKeep(t) BY <1>2, <1>3 DEF Threaded, OthersKeep
<1> QED BY <1>4, <1>5 DEF Idle, S

\* The locks of the others stay theirs.
LEMMA LocksStep ==
  ASSUME Typed, Places, NEW t \in Threads, Step(t)
  PROVE  \A u \in Threads \ {t} : (updating' = u <=> updating = u)
                                  /\ (admission' = u <=> admission = u)
<1> USE DEF locks
<1>n. Nobody \notin Threads /\ Scheduler \notin Boots /\ Boots \cap Requests = {}
  BY UpdatesAssumption
<1>l. Place(t) /\ Locked(t) /\ (th[t].pc # "idle" => Purpose(t)) BY DEF Places
<1>1. CASE Take_admission(t) BY <1>n, <1>l, <1>1 DEF Take_admission, At, Give_back
<1>2. CASE Scheduled_update_check(t)
  BY <1>n, <1>l, <1>2 DEF Scheduled_update_check, Return, At, Give_back
<1>3. CASE Manual_update_install(t)
  <2>1. updating' = updating /\ admission' \in {admission, Give_back(admission, t)}
    BY <1>3, JudgeActs DEF Return
  <2> QED BY <1>n, <2>1 DEF Give_back
<1>4. CASE Stop_service(t)
  <2>1. admission = t BY <1>n, <1>l, <1>4 DEF Stop_service, At, Locked, Place, Purpose
  <2>2. updating' = updating /\ admission' \in {admission, Nobody, Give_back(admission, t)}
    BY <1>4 DEF Stop_service, Return
  <2> QED BY <1>n, <2>1, <2>2 DEF Give_back
<1>5. CASE Start_service(t)
  BY <1>n, <1>l, <1>5
     DEF Start_service, At, Give_back, Locked, Purpose, Boot_like, Lifecycles
<1>6. CASE Auto_update(t) BY <1>n, <1>l, <1>6 DEF Auto_update, At, Give_back
<1>7. CASE Take_updating(t) BY <1>n, <1>l, <1>7 DEF Take_updating, At, Give_back
<1>8. CASE Initial_update_check(t)
  BY <1>n, <1>l, <1>8 DEF Initial_update_check, At, Give_back
<1>9. CASE Start_preinstalled(t) BY <1>n, <1>l, <1>9 DEF Start_preinstalled, At, Give_back
<1>10. CASE Configure_or_set_up(t)
  BY <1>n, <1>l, <1>10 DEF Configure_or_set_up, At, Give_back
<1>11. CASE Select_source(t) BY <1>n, <1>l, <1>11 DEF Select_source, At, Give_back
<1>12. CASE Install_configured_target(t)
  BY <1>n, <1>l, <1>12 DEF Install_configured_target, At, Give_back
<1>13. CASE Update_check(t) BY <1>n, <1>l, <1>13 DEF Update_check, At, Give_back
<1>14. CASE Record_release(t) BY <1>n, <1>l, <1>14 DEF Record_release, At, Give_back
<1>15. CASE Capture_rollback_snapshot(t)
  BY <1>n, <1>l, <1>15 DEF Capture_rollback_snapshot, At, Give_back
<1>16. CASE Stop_process(t) BY <1>n, <1>l, <1>16 DEF Stop_process, At, Give_back
<1>17. CASE Select_emby_release(t)
  BY <1>n, <1>l, <1>17 DEF Select_emby_release, At, Give_back
<1>18. CASE Setup_release_version(t)
  BY <1>n, <1>l, <1>18 DEF Setup_release_version, At, Give_back
<1>19. CASE Setup_project(t) BY <1>n, <1>l, <1>19 DEF Setup_project, At, Give_back
<1>20. CASE Build_candidate(t) BY <1>n, <1>l, <1>20 DEF Build_candidate, At, Give_back
<1>21. CASE Activate_candidate(t)
  BY <1>n, <1>l, <1>21 DEF Activate_candidate, Roll_back, At, Give_back
<1>22. CASE Start_process(t)
  BY <1>n, <1>l, <1>22 DEF Start_process, Not_running, At, Give_back
<1>23. CASE Wait_for_update_health(t)
  BY <1>n, <1>l, <1>23 DEF Wait_for_update_health, Not_running, At, Give_back
<1>24. CASE Recover_pending_snapshot(t)
  <2>1. UNCHANGED <<admission, updating>> BY <1>24 DEF Recover_pending_snapshot
  <2> QED BY <2>1
<1>25. CASE Leave_scheduled(t)
  BY <1>n, <1>l, <1>25
     DEF Leave_scheduled, At, Give_back, Locked, Purpose, Boot_like, Lifecycles
<1>26. CASE Leave_manual(t)
  BY <1>n, <1>l, <1>26
     DEF Leave_manual, At, Give_back, Locked, Purpose, Boot_like, Lifecycles, Updates
<1>27. CASE Finally_manual(t) BY <1>n, <1>l, <1>27 DEF Finally_manual, Return, At, Give_back
<1>28. CASE Leave_boot(t) BY <1>n, <1>l, <1>28 DEF Leave_boot, At, Give_back
<1> QED BY <1>1, <1>2, <1>3, <1>4, <1>5, <1>6, <1>7, <1>8, <1>9, <1>10, <1>11, <1>12, <1>13,
           <1>14, <1>15, <1>16, <1>17, <1>18, <1>19, <1>20, <1>21, <1>22, <1>23, <1>24,
           <1>25, <1>26, <1>27, <1>28 DEF Step

\* A thread goes where its purpose takes it, and has the locks it needs there.
LEMMA PlaceStep ==
  ASSUME Typed, Places, NEW t \in Threads, Step(t)
  PROVE  Place(t)' /\ Locked(t)'
<1> USE DEF locks, Place, Locked, At, Boot_like, Lifecycles, Updates, Inside, Holding
<1>t. Threaded BY DEF Typed, Threaded
<1>w. th[t] \in Work BY <1>t DEF Threaded
<1>p. th[t].pc # "idle" => S(t) \in Enabled BY DEF Places, Purpose
<1>n. Nobody \notin Threads /\ Scheduler \notin Boots \cup Requests /\ Boots \cap Requests = {}
  BY UpdatesAssumption
<1>l. Place(t) /\ Locked(t) /\ (th[t].pc # "idle" => Purpose(t)) BY DEF Places
<1>i. Idle.pc = "idle" /\ Idle.why = "none" BY DEF Idle
<1>1. CASE Take_admission(t)
  BY <1>t, <1>n, <1>i, <1>l, <1>1, AdmissionActs
     DEF Take_admission, Give_back, Same, Purpose, Results, After, Setup_installs, Generic,
         Emby_selects
<1>2. CASE Scheduled_update_check(t)
  BY <1>t, <1>n, <1>i, <1>l, <1>2, ToEffect, PutDownEffect
     DEF Scheduled_update_check, Return, Give_back, Same, Purpose, Results, After,
         Setup_installs, Generic, Emby_selects
<1>3. CASE Manual_update_install(t)
  BY <1>t, <1>n, <1>i, <1>l, <1>3, JudgeActs, PutDownEffect
     DEF Manual_update_install, Return, Give_back, Same, Purpose, Results, After,
         Setup_installs, Generic, Emby_selects
<1>4. CASE Stop_service(t)
  BY <1>t, <1>n, <1>i, <1>l, <1>4, ToEffect, PutDownEffect
     DEF Stop_service, Return, Give_back, Same, Purpose, Results, After, Setup_installs,
         Generic, Emby_selects
<1>5. CASE Start_service(t)
  BY <1>t, <1>n, <1>i, <1>l, <1>5, ToEffect, PutDownEffect
     DEF Start_service, Give_back, Same, Purpose, Results, After, Setup_installs, Generic,
         Emby_selects
<1>6. CASE Auto_update(t)
  BY <1>t, <1>n, <1>i, <1>l, <1>6, ToEffect
     DEF Auto_update, Give_back, Same, Purpose, Results, After, Setup_installs, Generic,
         Emby_selects
<1>7. CASE Take_updating(t)
  BY <1>t, <1>n, <1>i, <1>l, <1>7, ToEffect
     DEF Take_updating, Give_back, Same, Purpose, Results, After, Setup_installs, Generic,
         Emby_selects
<1>8. CASE Initial_update_check(t)
  BY <1>t, <1>n, <1>i, <1>l, <1>8, ToEffect, EndEffect
     DEF Initial_update_check, Give_back, Same, Purpose, Results, After, Setup_installs,
         Generic, Emby_selects
<1>9. CASE Start_preinstalled(t)
  BY <1>t, <1>n, <1>i, <1>l, <1>9, ToEffect
     DEF Start_preinstalled, Give_back, Same, Purpose, Results, After, Setup_installs,
         Generic, Emby_selects
<1>10. CASE Configure_or_set_up(t)
  BY <1>t, <1>n, <1>i, <1>l, <1>10, ToEffect, EndEffect
     DEF Configure_or_set_up, Give_back, Same, Purpose, Results, After, Setup_installs,
         Generic, Emby_selects
<1>11. CASE Select_source(t)
  BY <1>t, <1>n, <1>i, <1>l, <1>11, SelectActs
     DEF Select_source, Give_back, Same, Purpose, Results, After, Setup_installs, Generic,
         Emby_selects
<1>12. CASE Install_configured_target(t)
  BY <1>t, <1>n, <1>i, <1>l, <1>12, ConfiguredActs
     DEF Install_configured_target, Give_back, Same, Purpose, Results, After,
         Setup_installs, Generic, Emby_selects
<1>13. CASE Update_check(t)
  BY <1>t, <1>n, <1>i, <1>l, <1>13, CheckActs
     DEF Update_check, Give_back, Same, Purpose, Results, After, Setup_installs, Generic,
         Emby_selects
<1>14. CASE Record_release(t)
  BY <1>t, <1>n, <1>i, <1>l, <1>14, RecordActs
     DEF Record_release, Give_back, Same, Purpose, Results, After, Setup_installs, Generic,
         Emby_selects
<1>15. CASE Capture_rollback_snapshot(t)
  BY <1>t, <1>n, <1>i, <1>l, <1>15, ToEffect, EndEffect
     DEF Capture_rollback_snapshot, Give_back, Same, Purpose, Results, After,
         Setup_installs, Generic, Emby_selects
<1>16. CASE Stop_process(t)
  BY <1>t, <1>n, <1>i, <1>l, <1>16, ToEffect
     DEF Stop_process, Give_back, Same, Purpose, Results, After, Setup_installs, Generic,
         Emby_selects
<1>17. CASE Select_emby_release(t)
  BY <1>t, <1>n, <1>i, <1>l, <1>17, EmbyActs
     DEF Select_emby_release, Give_back, Same, Purpose, Results, After, Setup_installs,
         Generic, Emby_selects
<1>18. CASE Setup_release_version(t)
  BY <1>t, <1>n, <1>i, <1>l, <1>18, ToEffect, EndEffect
     DEF Setup_release_version, Give_back, Same, Purpose, Results, After, Setup_installs,
         Generic, Emby_selects
<1>19. CASE Setup_project(t)
  BY <1>t, <1>n, <1>i, <1>l, <1>19, ToEffect, EndEffect
     DEF Setup_project, Give_back, Same, Purpose, Results, After, Setup_installs, Generic,
         Emby_selects
<1>20. CASE Build_candidate(t)
  BY <1>t, <1>n, <1>i, <1>l, <1>20, ToEffect, EndEffect
     DEF Build_candidate, Give_back, Same, Purpose, Results, After, Setup_installs, Generic,
         Emby_selects
<1>21. CASE Activate_candidate(t)
  BY <1>t, <1>n, <1>i, <1>l, <1>21, ToEffect, RollBackEffect, SMTT(30)
     DEF Activate_candidate, Roll_back, Give_back, Same, Purpose, Results, After,
         Setup_installs, Generic, Emby_selects
<1>22. CASE Start_process(t)
  BY <1>t, <1>n, <1>i, <1>l, <1>22, ToEffect, EndEffect, RollBackEffect
     DEF Start_process, Not_running, Give_back, Same, Purpose, Results, After,
         Setup_installs, Generic, Emby_selects
<1>23. CASE Wait_for_update_health(t)
  BY <1>t, <1>n, <1>i, <1>l, <1>23, EndEffect, RollBackEffect
     DEF Wait_for_update_health, Not_running, Give_back, Same, Purpose, Results, After,
         Setup_installs, Generic, Emby_selects
<1>24. CASE Recover_pending_snapshot(t)
  BY <1>t, <1>n, <1>i, <1>l, <1>24, RecoverActs, ZenonT(60)
     DEF Recover_pending_snapshot, Give_back, Same, Purpose, Results, After, Setup_installs,
         Generic, Emby_selects
<1>25. CASE Leave_scheduled(t)
  BY <1>t, <1>n, <1>i, <1>l, <1>25, ToEffect, PutDownEffect
     DEF Leave_scheduled, Give_back, Same, Purpose, Results, After, Setup_installs, Generic,
         Emby_selects
<1>26. CASE Leave_manual(t)
  BY <1>t, <1>n, <1>i, <1>l, <1>26, ToEffect
     DEF Leave_manual, Give_back, Same, Purpose, Results, After, Setup_installs, Generic,
         Emby_selects
<1>27. CASE Finally_manual(t)
  BY <1>t, <1>n, <1>i, <1>l, <1>27, ToEffect, PutDownEffect
     DEF Finally_manual, Return, Give_back, Same, Purpose, Results, After, Setup_installs,
         Generic, Emby_selects
<1>28. CASE Leave_boot(t)
  BY <1>t, <1>n, <1>i, <1>l, <1>28, PutDownEffect, AgainEffect, ZenonT(60)
     DEF Leave_boot, Give_back, Same, Purpose, Results, After, Setup_installs, Generic,
         Emby_selects
<1> QED BY <1>1, <1>2, <1>3, <1>4, <1>5, <1>6, <1>7, <1>8, <1>9, <1>10, <1>11, <1>12, <1>13,
           <1>14, <1>15, <1>16, <1>17, <1>18, <1>19, <1>20, <1>21, <1>22, <1>23, <1>24,
           <1>25, <1>26, <1>27, <1>28 DEF Step

\* What the fields of an idle thread are.
LEMMA IdleFacts ==
  /\ Idle.pc = "idle" /\ Idle.why = "none" /\ Idle.original = None /\ Idle.guard = None
  /\ Idle.moving = FALSE /\ Idle.undo = FALSE /\ Idle.result = "none"
  BY DEF Idle

\* The steps of nobody's thread, and the ones a thread begins with.
Begins(t, s) ==
  \/ /\ t \in Boots /\ Start_key(t, s)
  \/ \E why \in Asked : Ask(t, s, why)
  \/ t = Scheduler /\ Run_scheduled_update_if_due(s)
Outside ==
  \/ \E s \in Enabled : \E c \in Choices[s], a \in Modes : Save(s, c, a)
  \/ Publish
  \/ \E s \in Enabled : Write(s) \/ Update_schedule(s) \/ Reschedule_auto_update(s)
  \/ UNCHANGED vars

\* Every step is one of the three.
LEMMA Steps ==
  ASSUME [Next]_vars
  PROVE  \/ \E t \in Threads : Step(t)
         \/ \E t \in Threads, s \in Enabled : Begins(t, s)
         \/ Outside
  BY DEF Next, Step, Begins, Outside, Threads

\* A thread that begins does so idle, for one service, and holds nothing.
Fresh_at(t, s, p) ==
  /\ OthersKeep(t) /\ Threaded' /\ th[t].pc = "idle" /\ th'[t].pc = p /\ S(t)' = s
  /\ th'[t].target = 0 /\ th'[t].result = "none" /\ th'[t].undo = FALSE
  /\ th'[t].original = None /\ th'[t].guard = None /\ th'[t].moving = FALSE

\* What the beginnings change.
LEMMA BeginEffects ==
  ASSUME Typed, NEW t \in Threads, NEW s \in Enabled, Begins(t, s)
  PROVE  /\ UNCHANGED <<locks, config, upstream, service, completed, saves, faults, scheduler,
                        spawned>>
         /\ \/ /\ t \in Boots /\ Fresh_at(t, s, "auto_update") /\ th'[t].why = "boot"
               /\ s \in pending /\ pending' = pending \ {s} /\ UNCHANGED schedule
            \/ /\ t \in Requests /\ Fresh_at(t, s, "admission")
               /\ th'[t].why \in Updates \cup Lifecycles \cup {"stop"}
               /\ UNCHANGED <<pending, schedule>>
            \/ /\ t = Scheduler /\ Fresh_at(t, s, "admission") /\ th'[t].why = "scheduled"
               /\ ~Get_update_block_reason(selection[s]) /\ UNCHANGED <<pending, schedule>>
            \/ t = Scheduler /\ UNCHANGED <<th, pending>> /\ jobs' = jobs \ {s}
<1>t. Threaded /\ s \in Services BY DEF Typed, Threaded
<1> USE DEF starter, schedule, bounds
<1>1. CASE t \in Boots /\ Start_key(t, s)
  <2>1. "boot" \in Whys /\ "auto_update" \in Pcs BY DEF Whys, Pcs
  <2> QED BY <1>t, <1>1, <2>1, TakeEffect, ZenonT(60) DEF Start_key, Fresh_at, At
<1>2. ASSUME NEW why \in Asked, Ask(t, s, why)
      PROVE  /\ UNCHANGED <<locks, config, upstream, service, completed, saves, faults,
                            scheduler, spawned, pending, schedule>>
             /\ t \in Requests /\ Fresh_at(t, s, "admission")
             /\ th'[t].why \in Updates \cup Lifecycles \cup {"stop"}
  <2>1. why \in Updates \cup Lifecycles \cup {"stop"} BY UpdatesAssumption
  <2>2. why \in Whys /\ "admission" \in Pcs BY <2>1 DEF Whys, Pcs
  <2> QED BY <1>t, <1>2, <2>1, <2>2, TakeEffect DEF Ask, Fresh_at, At
<1>3. CASE t = Scheduler /\ Run_scheduled_update_if_due(s)
  <2>1. "scheduled" \in Whys /\ "admission" \in Pcs BY DEF Whys, Pcs
  <2>2. CASE Get_update_block_reason(selection[s])
    BY <1>3, <2>2 DEF Run_scheduled_update_if_due
  <2>3. CASE ~Get_update_block_reason(selection[s])
    <3>1. /\ Take(t, s, "scheduled", "admission") /\ At(t, "idle")
          /\ UNCHANGED <<locks, config, upstream, service, scheduler, spawned, starter, bounds,
                         jobs>>
      BY <1>3, <2>3 DEF Run_scheduled_update_if_due
    <3> QED BY <1>t, <1>3, <2>1, <2>3, <3>1, TakeEffect DEF Fresh_at, At
  <2> QED BY <2>2, <2>3
<1> QED BY <1>1, <1>2, <1>3 DEF Begins

\* The services are the ones DUMB was started with.
LEMMA TypedStep ==
  ASSUME Typed, Places, Written, [Next]_vars PROVE Typed' /\ Enabled' = Enabled
<1>1. ASSUME NEW t \in Threads, Step(t) PROVE Typed' /\ Enabled' = Enabled
  <2>1. Enabled' = Enabled BY <1>1, ServiceEffect DEF Enabled
  <2> QED BY <1>1, <2>1, ServiceEffect, ThreadEffect DEF Typed, Threaded
<1>2. ASSUME NEW t \in Threads, NEW s \in Enabled, Begins(t, s)
      PROVE  Typed' /\ Enabled' = Enabled
  <2>1. /\ Threaded' /\ pending' \subseteq pending /\ jobs' \subseteq jobs
        /\ UNCHANGED <<locks, config, upstream, service, completed, faults, scheduler, spawned>>
    BY <1>2, BeginEffects DEF Fresh_at, schedule, Typed, Threaded
  <2> QED BY <2>1 DEF Typed, Threaded, locks, config, service, Enabled
<1>3. CASE Outside
  <2> USE DEF locks, config, service, schedule, starter, bounds, Enabled
  <2>1. ASSUME NEW s \in Enabled, NEW c \in Choices[s], NEW a \in Modes, Save(s, c, a)
        PROVE  Typed' /\ Enabled' = Enabled
    BY <2>1, UpdatesAssumption DEF Typed, Save
  <2>2. CASE Publish BY <2>2, UpdatesAssumption DEF Typed, Publish, Version
  <2>3. ASSUME NEW s \in Enabled, Write(s) PROVE Typed' /\ Enabled' = Enabled
    <3>1. data[s] \in 0 .. MaxWrites /\ written[s] \in 0 .. MaxWrites
          /\ data[s] <= written[s] /\ written[s] < MaxWrites
      BY <2>3 DEF Typed, Written, Write
    <3>2. data[s] + 1 \in 0 .. MaxWrites /\ written[s] + 1 \in 0 .. MaxWrites
      BY <3>1, UpdatesAssumption
    <3> QED BY <2>3, <3>2 DEF Typed, Write
  <2>4. ASSUME NEW s \in Enabled, Update_schedule(s) PROVE Typed' /\ Enabled' = Enabled
    BY <2>4 DEF Typed, Update_schedule
  <2>5. ASSUME NEW s \in Enabled, Reschedule_auto_update(s) PROVE Typed' /\ Enabled' = Enabled
    BY <2>5 DEF Typed, Reschedule_auto_update
  <2>6. CASE UNCHANGED vars BY <2>6 DEF Typed, vars
  <2> QED BY <1>3, <2>1, <2>2, <2>3, <2>4, <2>5, <2>6 DEF Outside
<1> QED BY <1>1, <1>2, <1>3, Steps

\* A thread goes where its purpose takes it, holding what it needs there.
LEMMA PlacesStep == ASSUME Typed, Places, Written, [Next]_vars PROVE Places'
<1>e. Enabled' = Enabled BY TypedStep
<1>n. Nobody \notin Threads /\ Scheduler \notin Boots \cup Requests /\ Boots \cap Requests = {}
  BY UpdatesAssumption
<1>1. ASSUME NEW t \in Threads, Step(t) PROVE Places'
  <2>1. Place(t)' /\ Locked(t)' BY <1>1, PlaceStep
  <2>2. th'[t].pc # "idle" => Purpose(t)'
    <3>1. S(t) \in Enabled /\ Purpose(t) BY <1>1, ServiceEffect DEF Places
    <3>2. th'[t].pc = "idle" \/ (th'[t].s = th[t].s /\ th'[t].why = th[t].why)
      BY <1>1, ThreadEffect, IdleFacts DEF S
    <3> QED BY <1>e, <3>1, <3>2 DEF Purpose, S
  <2>3. ASSUME NEW u \in Threads \ {t}
        PROVE  (th'[u].pc # "idle" => Purpose(u)') /\ Place(u)' /\ Locked(u)'
    BY <1>1, <1>e, <2>3, ThreadEffect, LocksStep
       DEF OthersKeep, Places, Purpose, Place, Locked, S, Boot_like
  <2> QED BY <2>1, <2>2, <2>3 DEF Places
<1>2. ASSUME NEW t \in Threads, NEW s \in Enabled, Begins(t, s) PROVE Places'
  <2>1. UNCHANGED <<admission, updating>> BY <1>2, BeginEffects DEF locks
  <2>2. CASE UNCHANGED th
    BY <1>e, <2>1, <2>2 DEF Places, Purpose, Place, Locked, S, Boot_like
  <2>3. CASE ~UNCHANGED th
    <3>1. /\ OthersKeep(t) /\ th[t].pc = "idle" /\ S(t)' = s /\ th'[t].target = 0
          /\ \/ t \in Boots /\ th'[t].pc = "auto_update" /\ th'[t].why = "boot"
             \/ /\ t \in Requests /\ th'[t].pc = "admission"
                /\ th'[t].why \in Updates \cup Lifecycles \cup {"stop"}
             \/ t = Scheduler /\ th'[t].pc = "admission" /\ th'[t].why = "scheduled"
      BY <1>2, <2>3, BeginEffects DEF Fresh_at
    <3>2. Purpose(t)'
      <4>1. th'[t].s \in Enabled' BY <1>e, <3>1 DEF S
      <4> QED BY <3>1, <4>1 DEF Purpose, S
    <3>3. Place(t)' BY <3>1 DEF Place, Boot_like, Updates, Lifecycles
    <3>4. Locked(t)'
      BY <1>n, <2>1, <3>1 DEF Places, Locked, Boot_like, Holding, Inside
    <3>5. ASSUME NEW u \in Threads \ {t}
          PROVE  (th'[u].pc # "idle" => Purpose(u)') /\ Place(u)' /\ Locked(u)'
      BY <1>e, <2>1, <3>1, <3>5 DEF OthersKeep, Places, Purpose, Place, Locked, S, Boot_like
    <3> QED BY <3>2, <3>3, <3>4, <3>5 DEF Places
  <2> QED BY <2>2, <2>3
<1>3. CASE Outside
  <2>1. UNCHANGED <<th, admission, updating>>
    BY <1>3
       DEF Outside, Save, Publish, Write, Update_schedule, Reschedule_auto_update, vars,
                locks
  <2> QED BY <1>e, <2>1 DEF Places, Purpose, Place, Locked, S, Boot_like
<1> QED BY <1>1, <1>2, <1>3, Steps

\* Only the end of a start completes a service.
LEMMA CompletedStep ==
  ASSUME NEW t \in Threads, Step(t)
  PROVE  \/ UNCHANGED completed
         \/ /\ completed' = completed \cup {S(t)} /\ th[t].why = "boot" /\ Put_down(t)
  BY DEF Step, Leave_boot, starter, Take_admission, Scheduled_update_check,
         Manual_update_install, Return, Stop_service, Start_service, Auto_update,
         Take_updating, Initial_update_check, Start_preinstalled, Configure_or_set_up,
         Select_source, Install_configured_target, Update_check, Record_release,
         Capture_rollback_snapshot, Stop_process, Select_emby_release,
         Setup_release_version, Setup_project, Build_candidate, Activate_candidate,
         Start_process, Wait_for_update_health, Recover_pending_snapshot,
         Leave_scheduled, Leave_manual, Finally_manual

\* What waits for the admission lock does nothing but take it.
LEMMA AdmissionOnly ==
  ASSUME NEW t \in Threads, Step(t), th[t].pc = "admission"
  PROVE  Take_admission(t)
  BY DEF Step, At, Scheduled_update_check,
         Manual_update_install, Return, Stop_service, Start_service, Auto_update,
         Take_updating, Initial_update_check, Start_preinstalled, Configure_or_set_up,
         Select_source, Install_configured_target, Update_check, Record_release,
         Capture_rollback_snapshot, Stop_process, Select_emby_release,
         Setup_release_version, Setup_project, Build_candidate, Activate_candidate,
         Start_process, Wait_for_update_health, Recover_pending_snapshot,
         Leave_scheduled, Leave_manual, Finally_manual, Leave_boot

\* So each service is started by one thread, which completes it.
LEMMA StartedOnceStep ==
  ASSUME Typed, Places, StartedOnce, [Next]_vars PROVE StartedOnce'
<1>1. ASSUME NEW t \in Threads, Step(t) PROVE StartedOnce'
  <2>1. UNCHANGED pending /\ th[t].pc # "idle" BY <1>1, ServiceEffect
  <2>2. OthersKeep(t) /\ (th'[t].pc = "idle" \/ th'[t].s = th[t].s)
    BY <1>1, ThreadEffect, IdleFacts DEF S
  <2>3. CASE completed' = completed
    <3>1. \A u \in Threads : th'[u].pc # "idle" => th[u].pc # "idle" /\ th'[u].s = th[u].s
      BY <2>1, <2>2 DEF OthersKeep
    <3> QED BY <2>1, <2>3, <3>1 DEF StartedOnce, S, Threads
  <2>4. CASE completed' # completed
    <3>1. /\ completed' = completed \cup {S(t)} /\ th[t].why = "boot" /\ Put_down(t)
      BY <1>1, <2>4, CompletedStep
    <3>2. t \in Boots BY <2>1, <3>1 DEF Places, Purpose, Updates, Lifecycles
    <3>3. th'[t].pc = "idle" BY <3>1, PutDownEffect, IdleFacts DEF Typed, Threaded
    <3>4. \A u \in Threads : th'[u].pc # "idle" =>
            u # t /\ th[u].pc # "idle" /\ th'[u].s = th[u].s
      BY <2>1, <2>2, <3>3 DEF OthersKeep
    <3>5. S(t) \notin pending BY <2>1, <3>2 DEF StartedOnce
    <3>6. (pending \cap completed = {})' BY <2>1, <3>1, <3>5 DEF StartedOnce
    <3>7. \A b \in Boots : th'[b].pc # "idle" => th'[b].s \notin pending' \cup completed'
      BY <2>1, <3>1, <3>2, <3>4 DEF StartedOnce, S, Threads
    <3>8. \A a, b \in Boots : th'[a].pc # "idle" /\ th'[b].pc # "idle" /\ th'[a].s = th'[b].s
            => a = b
      BY <3>4 DEF StartedOnce, S, Threads
    <3> QED BY <3>6, <3>7, <3>8 DEF StartedOnce, S
  <2> QED BY <2>3, <2>4
<1>2. ASSUME NEW t \in Threads, NEW s \in Enabled, Begins(t, s) PROVE StartedOnce'
  <2>n. Scheduler \notin Boots \cup Requests /\ Boots \cap Requests = {}
    BY UpdatesAssumption
  <2>1. CASE UNCHANGED th
    BY <1>2, <2>1, BeginEffects DEF StartedOnce, Fresh_at, S
  <2>2. CASE t \in Boots
    <3>1. t # Scheduler /\ t \notin Requests BY <2>2, <2>n
    <3>2. /\ OthersKeep(t) /\ th'[t].s = s /\ s \in pending /\ pending' = pending \ {s}
          /\ completed' = completed
      BY <1>2, <3>1, BeginEffects DEF Fresh_at, S
    <3>3. \A b \in Boots : th'[b].pc # "idle" =>
            b = t \/ (th[b].pc # "idle" /\ th'[b].s = th[b].s /\ th[b].s # s)
      BY <3>2 DEF StartedOnce, OthersKeep, S, Threads
    <3>4. (pending \cap completed = {})' BY <3>2 DEF StartedOnce
    <3>5. \A b \in Boots : th'[b].pc # "idle" => th'[b].s \notin pending' \cup completed'
      BY <3>2, <3>3 DEF StartedOnce, S
    <3>6. \A a, b \in Boots : th'[a].pc # "idle" /\ th'[b].pc # "idle" /\ th'[a].s = th'[b].s
            => a = b
      BY <3>2, <3>3 DEF StartedOnce, S
    <3> QED BY <3>4, <3>5, <3>6 DEF StartedOnce, S
  <2>3. CASE t \notin Boots /\ ~UNCHANGED th
    <3>1. OthersKeep(t) /\ UNCHANGED <<pending, completed>>
      BY <1>2, <2>3, BeginEffects DEF Fresh_at
    <3> QED BY <2>3, <3>1 DEF StartedOnce, OthersKeep, S, Threads
  <2> QED BY <2>1, <2>2, <2>3
<1>3. CASE Outside
  <2>1. UNCHANGED <<th, pending, completed>>
    BY <1>3
       DEF Outside, Save, Publish, Write, Update_schedule, Reschedule_auto_update, vars,
                starter
  <2> QED BY <2>1 DEF StartedOnce, S
<1> QED BY <1>1, <1>2, <1>3, Steps

\* What a thread has not got to yet stays so.
LEMMA FreshStep ==
  ASSUME Typed, Places, NEW t \in Threads, Step(t), Fresh(t)
  PROVE  Fresh(t)'
<1> USE DEF Fresh, At, Early, Inside
<1>t. Threaded BY DEF Typed, Threaded
<1>w. th[t] \in Work BY <1>t DEF Threaded
<1>p. th[t].pc # "idle" => S(t) \in Enabled BY DEF Places, Purpose
<1>i. Idle.pc = "idle" /\ Idle.moving = FALSE /\ Idle.result = "none" BY IdleFacts
<1>f. S(t) \in Enabled BY ServiceEffect
<1>l. Place(t) BY DEF Places
<1>1. CASE Take_admission(t)
  BY <1>t, <1>i, <1>l, <1>1, AdmissionActs
     DEF Take_admission, Same, Remembers, Results, After, Place
<1>2. CASE Scheduled_update_check(t)
  BY <1>t, <1>i, <1>l, <1>2, ToEffect, PutDownEffect
     DEF Scheduled_update_check, Return, Same, Remembers, Results, After, Place
<1>3. CASE Manual_update_install(t)
  BY <1>t, <1>i, <1>l, <1>3, JudgeActs, PutDownEffect
     DEF Manual_update_install, Return, Same, Remembers, Results, After, Place
<1>4. CASE Stop_service(t)
  BY <1>t, <1>i, <1>l, <1>4, ToEffect, PutDownEffect
     DEF Stop_service, Return, Same, Remembers, Results, After, Place
<1>5. CASE Start_service(t)
  BY <1>t, <1>i, <1>l, <1>5, ToEffect, PutDownEffect
     DEF Start_service, Same, Remembers, Results, After, Place
<1>6. CASE Auto_update(t)
  BY <1>t, <1>i, <1>l, <1>6, ToEffect
     DEF Auto_update, Same, Remembers, Results, After, Place
<1>7. CASE Take_updating(t)
  BY <1>t, <1>i, <1>l, <1>7, ToEffect
     DEF Take_updating, Same, Remembers, Results, After, Place
<1>8. CASE Initial_update_check(t)
  BY <1>t, <1>i, <1>l, <1>8, ToEffect, EndEffect
     DEF Initial_update_check, Same, Remembers, Results, After, Place
<1>9. CASE Start_preinstalled(t)
  BY <1>t, <1>i, <1>l, <1>9, ToEffect
     DEF Start_preinstalled, Same, Remembers, Results, After, Place
<1>10. CASE Configure_or_set_up(t)
  BY <1>t, <1>i, <1>l, <1>10, ToEffect, EndEffect
     DEF Configure_or_set_up, Same, Remembers, Results, After, Place
<1>11. CASE Select_source(t)
  BY <1>t, <1>i, <1>l, <1>11, SelectActs
     DEF Select_source, Same, Remembers, Results, After, Place
<1>12. CASE Install_configured_target(t)
  BY <1>t, <1>i, <1>l, <1>12, ConfiguredActs
     DEF Install_configured_target, Same, Remembers, Results, After, Place
<1>13. CASE Update_check(t)
  BY <1>t, <1>i, <1>l, <1>13, CheckActs
     DEF Update_check, Same, Remembers, Results, After, Place
<1>14. CASE Record_release(t)
  BY <1>t, <1>i, <1>l, <1>14, RecordActs
     DEF Record_release, Same, Remembers, Results, After, Place
<1>15. CASE Capture_rollback_snapshot(t)
  BY <1>t, <1>i, <1>l, <1>15, ToEffect, EndEffect
     DEF Capture_rollback_snapshot, Same, Remembers, Results, After, Place
<1>16. CASE Stop_process(t)
  BY <1>t, <1>i, <1>l, <1>16, ToEffect
     DEF Stop_process, Same, Remembers, Results, After, Place, Emby_selects
<1>17. CASE Select_emby_release(t)
  BY <1>t, <1>i, <1>l, <1>17, EmbyActs
     DEF Select_emby_release, Same, Remembers, Results, After, Place
<1>18. CASE Setup_release_version(t)
  BY <1>t, <1>i, <1>l, <1>18, ToEffect, EndEffect
     DEF Setup_release_version, Same, Remembers, Results, After, Place
<1>19. CASE Setup_project(t)
  BY <1>t, <1>i, <1>l, <1>19, ToEffect, EndEffect
     DEF Setup_project, Same, Remembers, Results, After, Place
<1>20. CASE Build_candidate(t)
  BY <1>t, <1>i, <1>l, <1>20, ToEffect, EndEffect
     DEF Build_candidate, Same, Remembers, Results, After, Place
<1>21. CASE Activate_candidate(t)
  BY <1>t, <1>i, <1>l, <1>21, ToEffect, RollBackEffect
     DEF Activate_candidate, Roll_back, Same, Remembers, Results, After, Place
<1>22. CASE Start_process(t)
  BY <1>t, <1>i, <1>l, <1>22, ToEffect, EndEffect, RollBackEffect
     DEF Start_process, Not_running, Same, Remembers, Results, After, Place
<1>23. CASE Wait_for_update_health(t)
  BY <1>t, <1>i, <1>l, <1>23, EndEffect, RollBackEffect
     DEF Wait_for_update_health, Not_running, Same, Remembers, Results, After, Place
<1>24. CASE Recover_pending_snapshot(t)
  BY <1>t, <1>i, <1>l, <1>24, RecoverActs, ZenonT(60)
     DEF Recover_pending_snapshot, Same, Remembers, Results, After, Place
<1>25. CASE Leave_scheduled(t)
  BY <1>t, <1>i, <1>l, <1>25, ToEffect, PutDownEffect
     DEF Leave_scheduled, Same, Remembers, Results, After, Place
<1>26. CASE Leave_manual(t)
  BY <1>t, <1>i, <1>l, <1>26, ToEffect
     DEF Leave_manual, Same, Remembers, Results, After, Place
<1>27. CASE Finally_manual(t)
  BY <1>t, <1>i, <1>l, <1>27, ToEffect, PutDownEffect
     DEF Finally_manual, Return, Same, Remembers, Results, After, Place
<1>28. CASE Leave_boot(t)
  BY <1>t, <1>i, <1>l, <1>28, PutDownEffect, AgainEffect
     DEF Leave_boot, Same, Remembers, Results, After, Place
<1> QED BY <1>1, <1>2, <1>3, <1>4, <1>5, <1>6, <1>7, <1>8, <1>9, <1>10, <1>11, <1>12, <1>13,
           <1>14, <1>15, <1>16, <1>17, <1>18, <1>19, <1>20, <1>21, <1>22, <1>23, <1>24,
           <1>25, <1>26, <1>27, <1>28 DEF Step

\* Only who holds the update lock changes a selection.
LEMMA MovesUnderLock ==
  ASSUME Typed, Places, NEW t \in Threads, Step(t)
  PROVE  UNCHANGED selection \/ updating = t
<1> USE DEF config
<1>l. Place(t) /\ Locked(t) BY DEF Places
<1>1. CASE Take_admission(t)
  BY <1>l, <1>1
     DEF Take_admission, At, Locked, Boot_like, Holding, Inside, Updates, Lifecycles
<1>2. CASE Scheduled_update_check(t)
  BY <1>l, <1>2
     DEF Scheduled_update_check, Return, At, Locked, Boot_like, Holding, Inside, Updates,
         Lifecycles
<1>3. CASE Manual_update_install(t)
  BY <1>l, <1>3
     DEF Manual_update_install, Return, At, Locked, Boot_like, Holding, Inside, Updates,
         Lifecycles
<1>4. CASE Stop_service(t)
  BY <1>l, <1>4
     DEF Stop_service, Return, At, Locked, Boot_like, Holding, Inside, Updates, Lifecycles
<1>5. CASE Start_service(t)
  BY <1>l, <1>5
     DEF Start_service, At, Locked, Boot_like, Holding, Inside, Updates, Lifecycles
<1>6. CASE Auto_update(t)
  BY <1>l, <1>6 DEF Auto_update, At, Locked, Boot_like, Holding, Inside, Updates, Lifecycles
<1>7. CASE Take_updating(t)
  BY <1>l, <1>7
     DEF Take_updating, At, Locked, Boot_like, Holding, Inside, Updates, Lifecycles
<1>8. CASE Initial_update_check(t)
  BY <1>l, <1>8
     DEF Initial_update_check, At, Locked, Boot_like, Holding, Inside, Updates, Lifecycles
<1>9. CASE Start_preinstalled(t)
  BY <1>l, <1>9
     DEF Start_preinstalled, At, Locked, Boot_like, Holding, Inside, Updates, Lifecycles
<1>10. CASE Configure_or_set_up(t)
  BY <1>l, <1>10
     DEF Configure_or_set_up, At, Locked, Boot_like, Holding, Inside, Updates, Lifecycles
<1>11. CASE Select_source(t)
  BY <1>l, <1>11
     DEF Select_source, At, Locked, Boot_like, Holding, Inside, Updates, Lifecycles
<1>12. CASE Install_configured_target(t)
  BY <1>l, <1>12
     DEF Install_configured_target, At, Locked, Boot_like, Holding, Inside, Updates,
         Lifecycles
<1>13. CASE Update_check(t)
  BY <1>l, <1>13
     DEF Update_check, At, Locked, Boot_like, Holding, Inside, Updates, Lifecycles
<1>14. CASE Record_release(t)
  BY <1>l, <1>14
     DEF Record_release, At, Locked, Boot_like, Holding, Inside, Updates, Lifecycles
<1>15. CASE Capture_rollback_snapshot(t)
  BY <1>l, <1>15
     DEF Capture_rollback_snapshot, At, Locked, Boot_like, Holding, Inside, Updates,
         Lifecycles
<1>16. CASE Stop_process(t)
  BY <1>l, <1>16
     DEF Stop_process, At, Locked, Boot_like, Holding, Inside, Updates, Lifecycles
<1>17. CASE Select_emby_release(t)
  BY <1>l, <1>17
     DEF Select_emby_release, At, Locked, Boot_like, Holding, Inside, Updates, Lifecycles
<1>18. CASE Setup_release_version(t)
  BY <1>l, <1>18
     DEF Setup_release_version, At, Locked, Boot_like, Holding, Inside, Updates, Lifecycles
<1>19. CASE Setup_project(t)
  BY <1>l, <1>19
     DEF Setup_project, At, Locked, Boot_like, Holding, Inside, Updates, Lifecycles
<1>20. CASE Build_candidate(t)
  BY <1>l, <1>20
     DEF Build_candidate, At, Locked, Boot_like, Holding, Inside, Updates, Lifecycles
<1>21. CASE Activate_candidate(t)
  BY <1>l, <1>21
     DEF Activate_candidate, Roll_back, At, Locked, Boot_like, Holding, Inside, Updates,
         Lifecycles
<1>22. CASE Start_process(t)
  BY <1>l, <1>22
     DEF Start_process, Not_running, At, Locked, Boot_like, Holding, Inside, Updates,
         Lifecycles
<1>23. CASE Wait_for_update_health(t)
  BY <1>l, <1>23
     DEF Wait_for_update_health, Not_running, At, Locked, Boot_like, Holding, Inside,
         Updates, Lifecycles
<1>24. CASE Recover_pending_snapshot(t)
  BY <1>l, <1>24
     DEF Recover_pending_snapshot, At, Locked, Boot_like, Holding, Inside, Updates,
         Lifecycles
<1>25. CASE Leave_scheduled(t)
  BY <1>l, <1>25
     DEF Leave_scheduled, At, Locked, Boot_like, Holding, Inside, Updates, Lifecycles
<1>26. CASE Leave_manual(t)
  BY <1>l, <1>26
     DEF Leave_manual, At, Locked, Boot_like, Holding, Inside, Updates, Lifecycles
<1>27. CASE Finally_manual(t)
  BY <1>l, <1>27
     DEF Finally_manual, Return, At, Locked, Boot_like, Holding, Inside, Updates, Lifecycles
<1>28. CASE Leave_boot(t)
  BY <1>l, <1>28 DEF Leave_boot, At, Locked, Boot_like, Holding, Inside, Updates, Lifecycles
<1> QED BY <1>1, <1>2, <1>3, <1>4, <1>5, <1>6, <1>7, <1>8, <1>9, <1>10, <1>11, <1>12, <1>13,
           <1>14, <1>15, <1>16, <1>17, <1>18, <1>19, <1>20, <1>21, <1>22, <1>23, <1>24,
           <1>25, <1>26, <1>27, <1>28 DEF Step

\* Who holds the update lock and has not changed the selection finds it settled.
LEMMA NoneBorrows ==
  ASSUME Typed, Places, AllSettled, NEW t \in Threads, updating = t, S(t) \in Enabled, ~Borrows(t)
  PROVE  Settled(S(t), Sel(t))
  BY DEF AllSettled, Borrows, Sel

\* What a thread leaves of the selection it changed.
Lends(t) ==
  \/ UNCHANGED selection /\ (Borrows(t) => Borrows(t)')
  \/ Borrows(t)'
  \/ Settled(S(t), selection'[S(t)])

\* No step leaves a selection changed without a thread that changes it back.
LEMMA LendsStep ==
  ASSUME Typed, Places, Sourced, NEW t \in Threads, Step(t)
  PROVE  Lends(t)
<1> USE DEF config, locks, Lends, Borrows, Moving, At
<1>t. Threaded BY DEF Typed, Threaded
<1>w. th[t] \in Work BY <1>t DEF Threaded
<1>p. th[t].pc # "idle" => S(t) \in Enabled BY DEF Places, Purpose
<1>i. Idle.pc = "idle" /\ Idle.why = "none" /\ Idle.moving = FALSE BY IdleFacts
<1>f. S(t) \in Enabled BY ServiceEffect
<1>l. Place(t) /\ Locked(t) /\ Purpose(t) BY ServiceEffect DEF Places
<1>h. Fresh(t) /\ Returns(t) BY DEF Sourced
<1>n. updating = t /\ ~Borrows(t) => Settled(S(t), Sel(t)) BY <1>f, NoneBorrows DEF Sourced
<1>o. Nobody \notin Threads BY UpdatesAssumption
<1>s. selection \in [Enabled -> Sources] BY DEF Typed
<1>1. CASE Take_admission(t)
  BY <1>t, <1>i, <1>l, <1>o, <1>1, AdmissionActs
     DEF Take_admission, Same, Remembers, Results, After, Place, Locked, Holding, Inside,
         Boot_like, Updates, Lifecycles
<1>2. CASE Scheduled_update_check(t)
  BY <1>t, <1>i, <1>l, <1>o, <1>2, ToEffect, PutDownEffect
     DEF Scheduled_update_check, Return, Same, Remembers, Results, After, Place, Locked,
         Holding, Inside, Boot_like, Updates, Lifecycles
<1>3. CASE Manual_update_install(t)
  BY <1>t, <1>i, <1>l, <1>o, <1>3, JudgeActs, PutDownEffect
     DEF Manual_update_install, Return, Same, Remembers, Results, After, Place, Locked,
         Holding, Inside, Boot_like, Updates, Lifecycles
<1>4. CASE Stop_service(t)
  BY <1>t, <1>i, <1>l, <1>o, <1>4, ToEffect, PutDownEffect
     DEF Stop_service, Return, Same, Remembers, Results, After, Place, Locked, Holding,
         Inside, Boot_like, Updates, Lifecycles
<1>5. CASE Start_service(t)
  BY <1>t, <1>i, <1>l, <1>o, <1>5, ToEffect, PutDownEffect
     DEF Start_service, Same, Remembers, Results, After, Place, Locked, Holding, Inside,
         Boot_like, Updates, Lifecycles
<1>6. CASE Auto_update(t)
  BY <1>t, <1>i, <1>l, <1>o, <1>6, ToEffect
     DEF Auto_update, Same, Remembers, Results, After, Place, Locked, Holding, Inside,
         Boot_like, Updates, Lifecycles
<1>7. CASE Take_updating(t)
  BY <1>t, <1>i, <1>l, <1>o, <1>7, ToEffect
     DEF Take_updating, Same, Remembers, Results, After, Place, Locked, Holding, Inside,
         Boot_like, Updates, Lifecycles
<1>8. CASE Initial_update_check(t)
  BY <1>t, <1>i, <1>l, <1>o, <1>8, ToEffect, EndEffect
     DEF Initial_update_check, Same, Remembers, Results, After, Place, Locked, Holding,
         Inside, Boot_like, Updates, Lifecycles
<1>9. CASE Start_preinstalled(t)
  BY <1>t, <1>i, <1>l, <1>o, <1>9, ToEffect
     DEF Start_preinstalled, Same, Remembers, Results, After, Place, Locked, Holding,
         Inside, Boot_like, Updates, Lifecycles
<1>10. CASE Configure_or_set_up(t)
  BY <1>t, <1>i, <1>l, <1>o, <1>10, ToEffect, EndEffect
     DEF Configure_or_set_up, Same, Remembers, Results, After, Place, Locked, Holding,
         Inside, Boot_like, Updates, Lifecycles
<1>11. CASE Select_source(t)
  BY <1>t, <1>i, <1>l, <1>o, <1>11, SelectActs
     DEF Select_source, Same, Remembers, Results, After, Place, Locked, Holding, Inside,
         Boot_like, Updates, Lifecycles
<1>12. CASE Install_configured_target(t)
  BY <1>t, <1>i, <1>l, <1>o, <1>12, ConfiguredActs
     DEF Install_configured_target, Same, Remembers, Results, After, Place, Locked, Holding,
         Inside, Boot_like, Updates, Lifecycles
<1>13. CASE Update_check(t)
  BY <1>t, <1>i, <1>l, <1>o, <1>13, CheckActs
     DEF Update_check, Same, Remembers, Results, After, Place, Locked, Holding, Inside,
         Boot_like, Updates, Lifecycles
<1>14. CASE Record_release(t)
  <2>1. /\ selection' = [selection EXCEPT ![S(t)] =
                            IF Sel(t).kind \in Released
                            THEN [kind |-> "release", version |-> th[t].target] ELSE Sel(t)]
        /\ updating' = updating /\ updating = t /\ th[t].pc = "record"
        /\ th'[t].why = th[t].why /\ th'[t].pc # "select"
    BY <1>l, <1>14, RecordActs DEF Record_release, Locked, Holding, Inside, Same
  <2>2. CASE th[t].why \in Updates BY <2>1, <2>2
  <2>3. CASE th[t].why \notin Updates
    <3>1. Settled(S(t), Sel(t)) BY <1>n, <2>1, <2>3
    <3>2. selection'[S(t)] = IF Sel(t).kind \in Released
                             THEN [kind |-> "release", version |-> th[t].target] ELSE Sel(t)
      BY <1>f, <1>s, <2>1
    <3>3. Settled(S(t), selection'[S(t)])
      <4>1. CASE Sel(t).kind \notin Released BY <3>1, <3>2, <4>1
      <4>2. CASE Sel(t).kind \in Released
        <5>1. selection'[S(t)].kind = "release" BY <3>2, <4>2
        <5>2. Looked(t) /\ th[t].pc = "record" BY <2>1 DEF Sourced
        <5>3. CASE S(t) \in overlapped /\ chosen[S(t)].kind \in Released
          BY <5>1, <5>3 DEF Settled
        <5>4. CASE S(t) \notin overlapped
          <6>1. chosen[S(t)].kind \notin {"release", "prerelease"}
            BY <2>3, <5>2, <5>4 DEF Looked, Unasked
          <6>2. chosen[S(t)].kind = "latest"
            BY <3>1, <4>2, <5>4, <6>1 DEF Settled, Released
          <6> QED BY <5>1, <6>2 DEF Settled
        <5>5. CASE chosen[S(t)].kind \notin Released
          BY <3>1, <4>2, <5>5 DEF Settled, Released
        <5> QED BY <5>3, <5>4, <5>5
      <4> QED BY <4>1, <4>2
    <3> QED BY <3>3
  <2> QED BY <2>2, <2>3
<1>15. CASE Capture_rollback_snapshot(t)
  BY <1>t, <1>i, <1>l, <1>o, <1>15, ToEffect, EndEffect
     DEF Capture_rollback_snapshot, Same, Remembers, Results, After, Place, Locked, Holding,
         Inside, Boot_like, Updates, Lifecycles
<1>16. CASE Stop_process(t)
  BY <1>t, <1>i, <1>l, <1>o, <1>16, ToEffect
     DEF Stop_process, Same, Remembers, Results, After, Place, Locked, Holding, Inside,
         Boot_like, Updates, Lifecycles
<1>17. CASE Select_emby_release(t)
  BY <1>t, <1>i, <1>l, <1>o, <1>17, EmbyActs
     DEF Select_emby_release, Same, Remembers, Results, After, Place, Locked, Holding,
         Inside, Boot_like, Updates, Lifecycles
<1>18. CASE Setup_release_version(t)
  BY <1>t, <1>i, <1>l, <1>o, <1>18, ToEffect, EndEffect
     DEF Setup_release_version, Same, Remembers, Results, After, Place, Locked, Holding,
         Inside, Boot_like, Updates, Lifecycles
<1>19. CASE Setup_project(t)
  <2>1. /\ updating' = updating /\ updating = t /\ th[t].pc = "setup"
        /\ th'[t].why = th[t].why /\ th'[t].pc # "select"
        /\ selection' = IF th[t].moving /\ Sel(t).kind \in Released
                         THEN [selection EXCEPT ![S(t)] = th[t].channel] ELSE selection
    BY <1>t, <1>l, <1>19, ToEffect, EndEffect
       DEF Setup_project, Locked, Holding, Inside, Same, Results, After
  <2>2. CASE th[t].why \in Updates BY <2>1, <2>2
  <2>3. CASE th[t].why \notin Updates /\ ~th[t].moving BY <2>1, <2>3
  <2>4. CASE th[t].why \notin Updates /\ th[t].moving
    <3>2. CASE Sel(t).kind \notin Released
      <4>1. selection' = selection BY <2>1, <3>2
      <4> QED BY <1>h, <2>1, <2>4, <3>2, <4>1 DEF Returns, Sel
    <3>3. CASE Sel(t).kind \in Released
      <4>1. selection'[S(t)] = th[t].channel BY <1>f, <1>s, <2>1, <2>4, <3>3
      <4>2. Settled(S(t), th[t].channel)
        BY <1>h, <2>1, <2>4, <3>3 DEF Returns
      <4> QED BY <4>1, <4>2
    <3> QED BY <3>2, <3>3
  <2> QED BY <2>2, <2>3, <2>4
<1>20. CASE Build_candidate(t)
  BY <1>t, <1>i, <1>l, <1>o, <1>20, ToEffect, EndEffect
     DEF Build_candidate, Same, Remembers, Results, After, Place, Locked, Holding, Inside,
         Boot_like, Updates, Lifecycles
<1>21. CASE Activate_candidate(t)
  BY <1>t, <1>i, <1>l, <1>o, <1>21, ToEffect, RollBackEffect
     DEF Activate_candidate, Roll_back, Same, Remembers, Results, After, Place, Locked,
         Holding, Inside, Boot_like, Updates, Lifecycles
<1>22. CASE Start_process(t)
  BY <1>t, <1>i, <1>l, <1>o, <1>22, ToEffect, EndEffect, RollBackEffect
     DEF Start_process, Not_running, Same, Remembers, Results, After, Place, Locked,
         Holding, Inside, Boot_like, Updates, Lifecycles
<1>23. CASE Wait_for_update_health(t)
  BY <1>t, <1>i, <1>l, <1>o, <1>23, EndEffect, RollBackEffect
     DEF Wait_for_update_health, Not_running, Same, Remembers, Results, After, Place,
         Locked, Holding, Inside, Boot_like, Updates, Lifecycles
<1>24. CASE Recover_pending_snapshot(t)
  BY <1>t, <1>i, <1>l, <1>o, <1>24, RecoverActs
     DEF Recover_pending_snapshot, Same, Remembers, Results, After, Place, Locked, Holding,
         Inside, Boot_like, Updates, Lifecycles
<1>25. CASE Leave_scheduled(t)
  BY <1>t, <1>i, <1>l, <1>o, <1>25, ToEffect, PutDownEffect
     DEF Leave_scheduled, Same, Remembers, Results, After, Place, Locked, Holding, Inside,
         Boot_like, Updates, Lifecycles
<1>26. CASE Leave_manual(t)
  <2>1. /\ updating = t /\ th[t].pc = "leave" /\ th[t].why \in Updates
        /\ selection' = IF Source_guard(Sel(t)) = th[t].guard
                         THEN [selection EXCEPT ![S(t)] = th[t].original] ELSE selection
    BY <1>l, <1>26 DEF Leave_manual, Locked, Boot_like, Updates, Lifecycles
  <2>2. \/ Settled(S(t), th[t].original) /\ Source_guard(Sel(t)) = th[t].guard
        \/ th[t].original = None /\ th[t].guard = None /\ Settled(S(t), Sel(t))
    BY <1>h, <2>1 DEF Returns
  <2>3. Source_guard(Sel(t)) = None => Sel(t) = None
    BY DEF Source_guard, None, Released
  <2>4. CASE Source_guard(Sel(t)) = th[t].guard
    <3>1. selection'[S(t)] = th[t].original BY <1>f, <1>s, <2>1, <2>4
    <3> QED BY <2>2, <2>3, <2>4, <3>1
  <2>5. CASE Source_guard(Sel(t)) # th[t].guard BY <2>1, <2>2, <2>5 DEF Sel
  <2> QED BY <2>4, <2>5
<1>27. CASE Finally_manual(t)
  BY <1>t, <1>i, <1>l, <1>o, <1>27, ToEffect, PutDownEffect
     DEF Finally_manual, Return, Same, Remembers, Results, After, Place, Locked, Holding,
         Inside, Boot_like, Updates, Lifecycles
<1>28. CASE Leave_boot(t)
  BY <1>t, <1>i, <1>l, <1>o, <1>28, PutDownEffect, AgainEffect
     DEF Leave_boot, Same, Remembers, Results, After, Place, Locked, Holding, Inside,
         Boot_like, Updates, Lifecycles
<1> QED BY <1>1, <1>2, <1>3, <1>4, <1>5, <1>6, <1>7, <1>8, <1>9, <1>10, <1>11, <1>12, <1>13,
           <1>14, <1>15, <1>16, <1>17, <1>18, <1>19, <1>20, <1>21, <1>22, <1>23, <1>24,
           <1>25, <1>26, <1>27, <1>28 DEF Step

\* What a thread will put back stays settled.
LEMMA ReturnsStep ==
  ASSUME Typed, Places, Sourced, NEW t \in Threads, Step(t)
  PROVE  Returns(t)'
<1> USE DEF config, locks, Returns, Moving, At
<1>t. Threaded BY DEF Typed, Threaded
<1>w. th[t] \in Work BY <1>t DEF Threaded
<1>p. th[t].pc # "idle" => S(t) \in Enabled BY DEF Places, Purpose
<1>i. Idle.pc = "idle" /\ Idle.why = "none" /\ Idle.moving = FALSE BY IdleFacts
<1>f. S(t) \in Enabled BY ServiceEffect
<1>l. Place(t) /\ Locked(t) /\ Purpose(t) BY ServiceEffect DEF Places
<1>h. Fresh(t) /\ Returns(t) BY DEF Sourced
<1>m. th[t].pc \in Early \cup {"install"} => ~th[t].moving BY <1>h DEF Fresh
<1>n. updating = t /\ ~Borrows(t) => Settled(S(t), Sel(t)) BY <1>f, NoneBorrows DEF Sourced
<1>o. Nobody \notin Threads BY UpdatesAssumption
<1>s. selection \in [Enabled -> Sources] BY DEF Typed
<1>c. th'[t] = Idle \/ (S(t)' = S(t) /\ th'[t].why = th[t].why) BY ThreadEffect
<1>k. UNCHANGED selection /\ S(t)' = S(t) => Sel(t)' = Sel(t) BY DEF Sel
<1>e. \A c : Settled(S(t), c) /\ S(t)' = S(t) => Settled(S(t), c)'
  BY ServiceEffect DEF Settled
<1>1. CASE Take_admission(t)
  BY <1>t, <1>i, <1>l, <1>m, <1>h, <1>o, <1>e, <1>c, <1>k, <1>1, AdmissionActs
     DEF Take_admission, Same, Remembers, Results, After, Place, Locked, Holding, Inside,
         Early, Boot_like, Updates, Lifecycles
<1>2. CASE Scheduled_update_check(t)
  BY <1>t, <1>i, <1>l, <1>m, <1>h, <1>o, <1>e, <1>c, <1>k, <1>2, ToEffect, PutDownEffect
     DEF Scheduled_update_check, Return, Same, Remembers, Results, After, Place, Locked,
         Holding, Inside, Early, Boot_like, Updates, Lifecycles
<1>3. CASE Manual_update_install(t)
  BY <1>t, <1>i, <1>l, <1>m, <1>h, <1>o, <1>e, <1>c, <1>k, <1>3, JudgeActs, PutDownEffect
     DEF Manual_update_install, Return, Same, Remembers, Results, After, Place, Locked,
         Holding, Inside, Early, Boot_like, Updates, Lifecycles
<1>4. CASE Stop_service(t)
  BY <1>t, <1>i, <1>l, <1>m, <1>h, <1>o, <1>e, <1>c, <1>k, <1>4, ToEffect, PutDownEffect
     DEF Stop_service, Return, Same, Remembers, Results, After, Place, Locked, Holding,
         Inside, Early, Boot_like, Updates, Lifecycles
<1>5. CASE Start_service(t)
  BY <1>t, <1>i, <1>l, <1>m, <1>h, <1>o, <1>e, <1>c, <1>k, <1>5, ToEffect, PutDownEffect
     DEF Start_service, Same, Remembers, Results, After, Place, Locked, Holding, Inside,
         Early, Boot_like, Updates, Lifecycles
<1>6. CASE Auto_update(t)
  BY <1>t, <1>i, <1>l, <1>m, <1>h, <1>o, <1>e, <1>c, <1>k, <1>6, ToEffect
     DEF Auto_update, Same, Remembers, Results, After, Place, Locked, Holding, Inside,
         Early, Boot_like, Updates, Lifecycles
<1>7. CASE Take_updating(t)
  BY <1>t, <1>i, <1>l, <1>m, <1>h, <1>o, <1>e, <1>c, <1>k, <1>7, ToEffect
     DEF Take_updating, Same, Remembers, Results, After, Place, Locked, Holding, Inside,
         Early, Boot_like, Updates, Lifecycles
<1>8. CASE Initial_update_check(t)
  BY <1>t, <1>i, <1>l, <1>m, <1>h, <1>o, <1>e, <1>c, <1>k, <1>8, ToEffect, EndEffect
     DEF Initial_update_check, Same, Remembers, Results, After, Place, Locked, Holding,
         Inside, Early, Boot_like, Updates, Lifecycles
<1>9. CASE Start_preinstalled(t)
  BY <1>t, <1>i, <1>l, <1>m, <1>h, <1>o, <1>e, <1>c, <1>k, <1>9, ToEffect
     DEF Start_preinstalled, Same, Remembers, Results, After, Place, Locked, Holding,
         Inside, Early, Boot_like, Updates, Lifecycles
<1>10. CASE Configure_or_set_up(t)
  BY <1>t, <1>i, <1>l, <1>m, <1>h, <1>o, <1>e, <1>c, <1>k, <1>10, ToEffect, EndEffect
     DEF Configure_or_set_up, Same, Remembers, Results, After, Place, Locked, Holding,
         Inside, Early, Boot_like, Updates, Lifecycles
<1>11. CASE Select_source(t)
  <2>1. /\ updating' = updating /\ updating = t /\ th[t].pc = "select" /\ S(t)' = S(t)
        /\ th'[t].why = th[t].why /\ ~th[t].moving /\ th'[t].moving = th[t].moving
        /\ th[t].original = None /\ th[t].guard = None /\ th[t].why \in Updates
    BY <1>l, <1>h, <1>11, SelectActs
       DEF Locked, Holding, Inside, Early, Same, Place, Fresh
  <2>2. Settled(S(t), Sel(t)) BY <1>n, <2>1 DEF Borrows
  <2>3. CASE Refused(t) /\ th'[t].pc = After(t) /\ UNCHANGED selection
             /\ th'[t].original = th[t].original /\ th'[t].guard = th[t].guard
    <3>1. th'[t].pc = "leave" BY <2>1, <2>3 DEF After
    <3>2. Settled(S(t), Sel(t))' BY <1>k, <1>e, <2>1, <2>2, <2>3
    <3> QED BY <2>1, <2>3, <3>1, <3>2
  <2>4. CASE /\ selection' = [selection EXCEPT ![S(t)] = Chosen_for(t)]
             /\ th'[t].pc = IF th[t].why = "configured" THEN "configured" ELSE "check"
             /\ th'[t].original = Sel(t) /\ th'[t].guard = Source_guard(Chosen_for(t))
    <3>1. Sel(t)' = Chosen_for(t) BY <1>f, <1>s, <2>1, <2>4 DEF Sel
    <3>2. Settled(S(t), th[t].original)' BY <1>e, <2>1, <2>2, <2>4
    <3> QED BY <2>1, <2>4, <3>1, <3>2
  <2> QED BY <1>11, <2>3, <2>4, SelectActs
<1>12. CASE Install_configured_target(t)
  BY <1>t, <1>i, <1>l, <1>m, <1>h, <1>o, <1>e, <1>c, <1>k, <1>12, ConfiguredActs
     DEF Install_configured_target, Same, Remembers, Results, After, Place, Locked, Holding,
         Inside, Early, Boot_like, Updates, Lifecycles
<1>13. CASE Update_check(t)
  BY <1>t, <1>i, <1>l, <1>m, <1>h, <1>o, <1>e, <1>c, <1>k, <1>13, CheckActs
     DEF Update_check, Same, Remembers, Results, After, Place, Locked, Holding, Inside,
         Early, Boot_like, Updates, Lifecycles
<1>14. CASE Record_release(t)
  <2>1. /\ updating' = updating /\ th[t].pc = "record" /\ S(t)' = S(t)
        /\ th'[t].why = th[t].why /\ th'[t].pc \in {"build", "stop"}
        /\ th'[t].original = th[t].original /\ th'[t].guard = th[t].guard
        /\ Sel(t)' = IF Sel(t).kind \in Released
                     THEN [kind |-> "release", version |-> th[t].target] ELSE Sel(t)
    BY <1>f, <1>s, <1>14, RecordActs, ZenonT(60) DEF Record_release, Same, Remembers, Sel
  <2>2. Source_guard(Sel(t))' = Source_guard(Sel(t)) BY <2>1 DEF Source_guard, Released
  <2>3. th[t].why \in Updates /\ updating = t =>
          Settled(S(t), th[t].original) /\ Source_guard(Sel(t)) = th[t].guard
    BY <1>h, <2>1
  <2> QED BY <1>e, <2>1, <2>2, <2>3
<1>15. CASE Capture_rollback_snapshot(t)
  BY <1>t, <1>i, <1>l, <1>m, <1>h, <1>o, <1>e, <1>c, <1>k, <1>15, ToEffect, EndEffect
     DEF Capture_rollback_snapshot, Same, Remembers, Results, After, Place, Locked, Holding,
         Inside, Early, Boot_like, Updates, Lifecycles
<1>16. CASE Stop_process(t)
  BY <1>t, <1>i, <1>l, <1>m, <1>h, <1>o, <1>e, <1>c, <1>k, <1>16, ToEffect
     DEF Stop_process, Same, Remembers, Results, After, Place, Locked, Holding, Inside,
         Early, Boot_like, Updates, Lifecycles
<1>17. CASE Select_emby_release(t)
  <2>1. /\ updating' = updating /\ updating = t /\ th[t].pc = "emby" /\ S(t)' = S(t)
        /\ th'[t].why = th[t].why /\ th'[t].pc = "setup" /\ th'[t].channel = Sel(t)
        /\ th'[t].original = th[t].original /\ th'[t].guard = th[t].guard
        /\ th'[t].moving = TRUE
    BY <1>l, <1>17, EmbyActs DEF Select_emby_release, Same, Locked, Holding, Inside
  <2>6. Sel(t)' = [kind |-> "release", version |-> th[t].target]
    BY <1>f, <1>s, <1>17, <2>1 DEF Select_emby_release, Sel
  <2>7. Sel(t)'.kind = "release" BY <2>6
  <2>2. th[t].why \in Updates =>
          Settled(S(t), th[t].original) /\ Source_guard(Sel(t)) = th[t].guard
    BY <1>h, <2>1
  <2>3. th[t].why \in Updates =>
          Settled(S(t), th[t].original)' /\ Source_guard(th'[t].channel) = th'[t].guard
    BY <1>e, <2>1, <2>2
  <2>4. th[t].why \notin Updates => Settled(S(t), th[t].channel)'
    <3>1. th[t].why \notin Updates => Settled(S(t), Sel(t)) BY <1>n, <2>1 DEF Borrows
    <3> QED BY <1>e, <2>1, <3>1
  <2>5. "release" \in Released BY DEF Released
  <2>8. (Sel(t).kind)' \in Released BY <2>5, <2>7
  <2> QED BY <2>1, <2>3, <2>4, <2>8
<1>18. CASE Setup_release_version(t)
  BY <1>t, <1>i, <1>l, <1>m, <1>h, <1>o, <1>e, <1>c, <1>k, <1>18, ToEffect, EndEffect
     DEF Setup_release_version, Same, Remembers, Results, After, Place, Locked, Holding,
         Inside, Early, Boot_like, Updates, Lifecycles
<1>19. CASE Setup_project(t)
  <2>1. /\ updating' = updating /\ th[t].pc = "setup" /\ S(t)' = S(t)
        /\ th'[t].why = th[t].why /\ th'[t].pc # "setup"
        /\ th'[t].original = th[t].original /\ th'[t].guard = th[t].guard
        /\ Sel(t)' = IF th[t].moving /\ Sel(t).kind \in Released THEN th[t].channel ELSE Sel(t)
    BY <1>f, <1>s, <1>t, <1>19, ToEffect, EndEffect
       DEF Setup_project, Same, Remembers, Results, After, Sel
  <2>2. th[t].why \in Updates /\ updating = t =>
          Settled(S(t), th[t].original) /\ Source_guard(Sel(t))' = th[t].guard
    BY <1>h, <2>1
  <2> QED BY <1>e, <2>1, <2>2
<1>20. CASE Build_candidate(t)
  BY <1>t, <1>i, <1>l, <1>m, <1>h, <1>o, <1>e, <1>c, <1>k, <1>20, ToEffect, EndEffect
     DEF Build_candidate, Same, Remembers, Results, After, Place, Locked, Holding, Inside,
         Early, Boot_like, Updates, Lifecycles
<1>21. CASE Activate_candidate(t)
  BY <1>t, <1>i, <1>l, <1>m, <1>h, <1>o, <1>e, <1>c, <1>k, <1>21, ToEffect, RollBackEffect
     DEF Activate_candidate, Roll_back, Same, Remembers, Results, After, Place, Locked,
         Holding, Inside, Early, Boot_like, Updates, Lifecycles
<1>22. CASE Start_process(t)
  BY <1>t, <1>i, <1>l, <1>m, <1>h, <1>o, <1>e, <1>c, <1>k, <1>22, ToEffect, EndEffect,
     RollBackEffect
     DEF Start_process, Not_running, Same, Remembers, Results, After, Place, Locked,
         Holding, Inside, Early, Boot_like, Updates, Lifecycles
<1>23. CASE Wait_for_update_health(t)
  BY <1>t, <1>i, <1>l, <1>m, <1>h, <1>o, <1>e, <1>c, <1>k, <1>23, EndEffect, RollBackEffect
     DEF Wait_for_update_health, Not_running, Same, Remembers, Results, After, Place,
         Locked, Holding, Inside, Early, Boot_like, Updates, Lifecycles
<1>24. CASE Recover_pending_snapshot(t)
  BY <1>t, <1>i, <1>l, <1>m, <1>h, <1>o, <1>e, <1>c, <1>k, <1>24, RecoverActs, ZenonT(60)
     DEF Recover_pending_snapshot, Same, Remembers, Results, After, Place, Locked, Holding,
         Inside, Early, Boot_like, Updates, Lifecycles
<1>25. CASE Leave_scheduled(t)
  BY <1>t, <1>i, <1>l, <1>m, <1>h, <1>o, <1>e, <1>c, <1>k, <1>25, ToEffect, PutDownEffect
     DEF Leave_scheduled, Same, Remembers, Results, After, Place, Locked, Holding, Inside,
         Early, Boot_like, Updates, Lifecycles
<1>26. CASE Leave_manual(t)
  BY <1>t, <1>i, <1>l, <1>m, <1>h, <1>o, <1>e, <1>c, <1>k, <1>26, ToEffect
     DEF Leave_manual, Same, Remembers, Results, After, Place, Locked, Holding, Inside,
         Early, Boot_like, Updates, Lifecycles
<1>27. CASE Finally_manual(t)
  BY <1>t, <1>i, <1>l, <1>m, <1>h, <1>o, <1>e, <1>c, <1>k, <1>27, ToEffect, PutDownEffect
     DEF Finally_manual, Return, Same, Remembers, Results, After, Place, Locked, Holding,
         Inside, Early, Boot_like, Updates, Lifecycles
<1>28. CASE Leave_boot(t)
  BY <1>t, <1>i, <1>l, <1>m, <1>h, <1>o, <1>e, <1>c, <1>k, <1>28, PutDownEffect, AgainEffect
     DEF Leave_boot, Same, Remembers, Results, After, Place, Locked, Holding, Inside, Early,
         Boot_like, Updates, Lifecycles
<1> QED BY <1>1, <1>2, <1>3, <1>4, <1>5, <1>6, <1>7, <1>8, <1>9, <1>10, <1>11, <1>12, <1>13,
           <1>14, <1>15, <1>16, <1>17, <1>18, <1>19, <1>20, <1>21, <1>22, <1>23, <1>24,
           <1>25, <1>26, <1>27, <1>28 DEF Step

\* A check that finds an update available was not blocked.
LEMMA AvailableIsFree ==
  ASSUME NEW s \in Services, Manual_update_check_internal(s) = "update_available"
  PROVE  ~Get_update_block_reason(selection[s])
<1>1. Family[s] \in Families BY UpdatesAssumption
<1>2. \A c, w, r : Status(c, w, r) = "update_available" => ~Get_update_block_reason(c)
  BY DEF Status
<1>3. \A c, r : Manual_check_generic_repo(c, r) = "update_available" => ~Get_update_block_reason(c)
  BY <1>2 DEF Manual_check_generic_repo
<1>4. \A c, r : Manual_check_arr(c, r) = "update_available" => ~Get_update_block_reason(c)
  BY <1>2, <1>3 DEF Manual_check_arr
<1> QED
  BY <1>1, <1>2, <1>3, <1>4
     DEF Manual_update_check_internal, Families, Manual_check_jellyfin, Manual_check_emby,
         Manual_check_plex, Manual_check_oci

\* Who holds the admission lock, or finds it free, and has not changed the selection,
\* finds it settled.
LEMMA HeldIsSettled ==
  ASSUME Typed, Places, Sourced, NEW t \in Threads, admission \in {Nobody, t}, S(t) \in Enabled,
         ~Borrows(t), Family[S(t)] # "emby"
  PROVE  Settled(S(t), Sel(t))
<1>1. ASSUME NEW u \in Threads, Borrows(u), S(u) = S(t) PROVE FALSE
  <2>1. u # t /\ updating = u /\ th[u].pc \notin {"idle", "admission"}
    BY <1>1 DEF Borrows, Places, Locked
  <2>2. u \in Boots BY <2>1, UpdatesAssumption DEF Places, Locked
  <2>3. th[u].why = "boot" BY <2>1, <2>2, UpdatesAssumption DEF Places, Purpose
  <2>4. th[u].moving BY <1>1, <2>3 DEF Borrows, Moving, Updates
  <2> QED BY <1>1, <2>4 DEF Sourced, Fresh
<1> QED BY <1>1 DEF Sourced, AllSettled, Sel

\* A settled selection that is not blocked is no pin.
LEMMA FreeIsSaved ==
  ASSUME NEW s, NEW c, Settled(s, c), Family[s] # "emby", ~Get_update_block_reason(c)
  PROVE  ~Get_update_block_reason(chosen[s])
  BY DEF Settled, Get_update_block_reason

\* What goes as far as recording a release found no pin when it began.
LEMMA LookedStepActs ==
  ASSUME Typed, Places, Sourced, NEW t \in Threads, Step(t)
  PROVE  Looked(t)'
<1> USE DEF locks, At
<1>t. Threaded BY DEF Typed, Threaded
<1>w. th[t] \in Work BY <1>t DEF Threaded
<1>p. th[t].pc # "idle" => S(t) \in Enabled BY DEF Places, Purpose
<1>i. Idle.pc = "idle" BY IdleFacts
<1>f. S(t) \in Enabled /\ chosen' = chosen /\ S(t) \in Services BY ServiceEffect DEF Typed
<1>l. Place(t) /\ Locked(t) /\ Purpose(t) BY ServiceEffect DEF Places
<1>h. Fresh(t) BY DEF Sourced
<1>c. th'[t] = Idle \/ (S(t)' = S(t) /\ th'[t].why = th[t].why) BY ThreadEffect
<1>n. Boots \cap Requests = {} /\ Scheduler \notin Boots BY UpdatesAssumption
<1>k. Looked(t) BY DEF Sourced
<1>u. S(t)' = S(t) /\ th'[t].why = th[t].why => Unasked(t)' = Unasked(t)
  BY ServiceEffect DEF Unasked, S
\* The selection it has just looked at is the one the operator saved.
<1>a. /\ admission \in {Nobody, t} /\ Unasked(t) /\ ~Get_update_block_reason(Sel(t))
      /\ th[t].pc \in {"judge", "auto_update"}
      => chosen[S(t)].kind # "release"
  <2>1. SUFFICES ASSUME admission \in {Nobody, t}, Unasked(t), ~Get_update_block_reason(Sel(t)),
                        th[t].pc \in {"judge", "auto_update"}
                 PROVE  chosen[S(t)].kind # "release"
    OBVIOUS
  <2>2. ~Borrows(t) BY <1>l, <2>1 DEF Borrows, Moving, Unasked
  <2>3. Settled(S(t), Sel(t)) BY <1>f, <2>1, <2>2, HeldIsSettled DEF Unasked
  <2> QED BY <2>1, <2>3, FreeIsSaved DEF Get_update_block_reason, Unasked
<1>1. CASE Take_admission(t)
  BY <1>t, <1>i, <1>l, <1>f, <1>c, <1>1, AdmissionActs
     DEF Take_admission, Looked, Same, Results, After, Place, Boot_like, Updates, Lifecycles
<1>2. CASE Scheduled_update_check(t)
  <2>1. CASE Return(t) BY <1>t, <1>i, <2>1, PutDownEffect DEF Return, Looked
  <2>2. CASE /\ Manual_update_check_internal(S(t)) = "update_available" /\ To(t, "updating")
    <3>1. ~Get_update_block_reason(Sel(t)) BY <1>f, <2>2, AvailableIsFree DEF Sel
    <3>2. admission = t /\ th[t].pc = "judge" /\ th[t].why = "scheduled"
      BY <1>l, <1>n, <1>2 DEF Scheduled_update_check, Locked, Purpose
    <3>3. Unasked(t) => chosen[S(t)].kind # "release" BY <1>a, <3>1, <3>2
    <3>4. S(t)' = S(t) /\ th'[t].why = th[t].why /\ th'[t].pc = "updating"
      BY <1>t, <2>2, ToEffect DEF Same
    <3> QED BY <1>f, <1>u, <3>3, <3>4 DEF Looked
  <2> QED BY <1>2, <2>1, <2>2 DEF Scheduled_update_check
<1>3. CASE Manual_update_install(t)
  BY <1>t, <1>i, <1>3, JudgeActs, PutDownEffect
     DEF Manual_update_install, Return, Looked, Unasked, Same
<1>4. CASE Stop_service(t)
  BY <1>t, <1>i, <1>l, <1>f, <1>c, <1>4, ToEffect, PutDownEffect
     DEF Stop_service, Return, Looked, Same, Results, After, Place, Boot_like, Updates,
         Lifecycles
<1>5. CASE Start_service(t)
  BY <1>t, <1>i, <1>l, <1>f, <1>c, <1>5, ToEffect, PutDownEffect
     DEF Start_service, Looked, Same, Results, After, Place, Boot_like, Updates, Lifecycles
<1>6. CASE Auto_update(t)
  <2>1. /\ S(t)' = S(t) /\ th'[t].why = th[t].why /\ th[t].pc = "auto_update"
        /\ admission \in {Nobody, t}
        /\ \/ th'[t].pc = "updating" /\ ~Get_update_block_reason(Sel(t))
           \/ th'[t].pc \in {"configure", "preinstalled"}
    BY <1>t, <1>6, ToEffect DEF Auto_update, Same, Sel
  <2>2. CASE th'[t].pc = "updating" /\ ~Get_update_block_reason(Sel(t))
    BY <1>f, <1>a, <1>u, <2>1, <2>2 DEF Looked
  <2> QED BY <2>1, <2>2 DEF Looked
<1>7. CASE Take_updating(t)
  BY <1>t, <1>f, <1>l, <1>k, <1>u, <1>7, ToEffect
     DEF Take_updating, Looked, Same, After, Boot_like, Place, Updates, Lifecycles
<1>8. CASE Initial_update_check(t)
  <2>1. S(t)' = S(t) /\ th'[t].why = th[t].why /\ th[t].pc = "initial"
        /\ th'[t].pc \in {"check", "start", After(t)}
    BY <1>t, <1>8, ToEffect, EndEffect DEF Initial_update_check, Same, Results
  <2>2. Looked(t)' BY <1>f, <1>k, <1>u, <2>1 DEF Looked, After
  <2> QED BY <2>2
<1>9. CASE Start_preinstalled(t)
  BY <1>t, <1>i, <1>l, <1>f, <1>c, <1>9, ToEffect
     DEF Start_preinstalled, Looked, Same, Results, After, Place, Boot_like, Updates,
         Lifecycles
<1>10. CASE Configure_or_set_up(t)
  BY <1>t, <1>i, <1>l, <1>f, <1>c, <1>10, ToEffect, EndEffect
     DEF Configure_or_set_up, Looked, Same, Results, After, Place, Boot_like, Updates,
         Lifecycles
<1>11. CASE Select_source(t)
  <2>1. th'[t].why = th[t].why /\ th[t].why \in Updates /\ th'[t].pc # "record"
    BY <1>l, <1>11, SelectActs DEF Same, Place, After
  <2> QED BY <2>1 DEF Looked, Unasked
<1>12. CASE Install_configured_target(t)
  BY <1>t, <1>i, <1>l, <1>f, <1>c, <1>12, ConfiguredActs
     DEF Install_configured_target, Looked, Same, Results, After, Place, Boot_like, Updates,
         Lifecycles
<1>13. CASE Update_check(t)
  <2>1. S(t)' = S(t) /\ th'[t].why = th[t].why /\ th[t].pc = "check" /\ updating = t
    BY <1>l, <1>13, CheckActs DEF Same, Locked, Holding, Inside
  <2>2. CASE th'[t].pc = "record" /\ Generic(S(t)) /\ Sel(t).kind # "prerelease"
    <3>1. Unasked(t) => ~Borrows(t) /\ chosen[S(t)].kind # "release"
      BY <1>k, <2>1 DEF Borrows, Moving, Unasked, Looked
    <3>2. Unasked(t) => Settled(S(t), Sel(t)) BY <1>f, <2>1, <3>1, NoneBorrows DEF Sourced
    <3>3. Unasked(t) => chosen[S(t)].kind # "prerelease"
      BY <2>2, <3>2 DEF Settled, Unasked
    <3>4. Family[S(t)] # "emby" BY <2>2 DEF Generic
    <3> QED BY <1>f, <1>u, <2>1, <2>2, <3>1, <3>3, <3>4 DEF Looked
  <2>3. CASE th'[t].pc \notin {"updating", "initial", "check", "record"} BY <2>3 DEF Looked
  <2> QED BY <1>13, <2>2, <2>3, CheckActs DEF After
<1>14. CASE Record_release(t)
  BY <1>t, <1>i, <1>l, <1>f, <1>c, <1>14, RecordActs
     DEF Record_release, Looked, Same, Results, After, Place, Boot_like, Updates, Lifecycles
<1>15. CASE Capture_rollback_snapshot(t)
  BY <1>t, <1>i, <1>l, <1>f, <1>c, <1>15, ToEffect, EndEffect
     DEF Capture_rollback_snapshot, Looked, Same, Results, After, Place, Boot_like, Updates,
         Lifecycles
<1>16. CASE Stop_process(t)
  BY <1>t, <1>i, <1>l, <1>f, <1>c, <1>16, ToEffect
     DEF Stop_process, Looked, Same, Results, After, Place, Boot_like, Updates, Lifecycles
<1>17. CASE Select_emby_release(t)
  BY <1>t, <1>i, <1>l, <1>f, <1>c, <1>17, EmbyActs
     DEF Select_emby_release, Looked, Same, Results, After, Place, Boot_like, Updates,
         Lifecycles
<1>18. CASE Setup_release_version(t)
  BY <1>t, <1>i, <1>l, <1>f, <1>c, <1>18, ToEffect, EndEffect
     DEF Setup_release_version, Looked, Same, Results, After, Place, Boot_like, Updates,
         Lifecycles
<1>19. CASE Setup_project(t)
  BY <1>t, <1>i, <1>l, <1>f, <1>c, <1>19, ToEffect, EndEffect
     DEF Setup_project, Looked, Same, Results, After, Place, Boot_like, Updates, Lifecycles
<1>20. CASE Build_candidate(t)
  BY <1>t, <1>i, <1>l, <1>f, <1>c, <1>20, ToEffect, EndEffect
     DEF Build_candidate, Looked, Same, Results, After, Place, Boot_like, Updates, Lifecycles
<1>21. CASE Activate_candidate(t)
  BY <1>t, <1>i, <1>l, <1>f, <1>c, <1>21, ToEffect, RollBackEffect
     DEF Activate_candidate, Roll_back, Looked, Same, Results, After, Place, Boot_like,
         Updates, Lifecycles
<1>22. CASE Start_process(t)
  BY <1>t, <1>i, <1>l, <1>f, <1>c, <1>22, ToEffect, EndEffect, RollBackEffect
     DEF Start_process, Not_running, Looked, Same, Results, After, Place, Boot_like,
         Updates, Lifecycles
<1>23. CASE Wait_for_update_health(t)
  BY <1>t, <1>i, <1>l, <1>f, <1>c, <1>23, EndEffect, RollBackEffect
     DEF Wait_for_update_health, Not_running, Looked, Same, Results, After, Place,
         Boot_like, Updates, Lifecycles
<1>24. CASE Recover_pending_snapshot(t)
  BY <1>t, <1>i, <1>l, <1>f, <1>c, <1>24, RecoverActs
     DEF Recover_pending_snapshot, Looked, Same, Results, After, Place, Boot_like, Updates,
         Lifecycles
<1>25. CASE Leave_scheduled(t)
  BY <1>t, <1>i, <1>l, <1>f, <1>c, <1>25, ToEffect, PutDownEffect
     DEF Leave_scheduled, Looked, Same, Results, After, Place, Boot_like, Updates, Lifecycles
<1>26. CASE Leave_manual(t)
  BY <1>t, <1>i, <1>l, <1>f, <1>c, <1>26, ToEffect
     DEF Leave_manual, Looked, Same, Results, After, Place, Boot_like, Updates, Lifecycles
<1>27. CASE Finally_manual(t)
  BY <1>t, <1>i, <1>l, <1>f, <1>c, <1>27, ToEffect, PutDownEffect
     DEF Finally_manual, Return, Looked, Same, Results, After, Place, Boot_like, Updates,
         Lifecycles
<1>28. CASE Leave_boot(t)
  BY <1>t, <1>i, <1>l, <1>f, <1>c, <1>28, PutDownEffect, AgainEffect
     DEF Leave_boot, Looked, Same, Results, After, Place, Boot_like, Updates, Lifecycles
<1> QED BY <1>1, <1>2, <1>3, <1>4, <1>5, <1>6, <1>7, <1>8, <1>9, <1>10, <1>11, <1>12, <1>13,
           <1>14, <1>15, <1>16, <1>17, <1>18, <1>19, <1>20, <1>21, <1>22, <1>23, <1>24,
           <1>25, <1>26, <1>27, <1>28 DEF Step

\* What the others borrow, and will put back, is not touched.
LEMMA SourcedStepActs ==
  ASSUME Typed, Places, Sourced, NEW t \in Threads, Step(t)
  PROVE  Sourced'
<1>c. /\ OthersKeep(t) /\ (th'[t] = Idle \/ (S(t)' = S(t) /\ th'[t].why = th[t].why))
      /\ chosen' = chosen /\ overlapped' = overlapped /\ Enabled' = Enabled /\ S(t) \in Enabled
      /\ \A s \in Enabled \ {S(t)} : selection'[s] = selection[s]
  BY ThreadEffect, ServiceEffect DEF OneService, Enabled
<1>l. \A u \in Threads \ {t} : updating' = u <=> updating = u BY LocksStep
<1>i. Idle.pc = "idle" /\ Idle.moving = FALSE BY IdleFacts
<1>k. Lends(t) BY LendsStep
<1>e. \A s, c : Settled(s, c)' <=> Settled(s, c) BY <1>c DEF Settled
<1>p. Locked(t) /\ Locked(t)' BY PlaceStep DEF Places
<1>b. Borrows(t)' => S(t)' = S(t)
  BY <1>c, <1>i, <1>p DEF Borrows, Locked
<1>1. ASSUME NEW u \in Threads \ {t}, Borrows(u) PROVE Borrows(u)' /\ S(u)' = S(u)
  BY <1>c, <1>l, <1>1 DEF Borrows, Moving, OthersKeep, S
<1>2. AllSettled'
  <2>1. SUFFICES ASSUME NEW s \in Enabled
                 PROVE  Settled(s, selection'[s]) \/ \E u \in Threads : Borrows(u)' /\ S(u)' = s
    BY <1>c, <1>e DEF AllSettled
  <2>2. CASE \E u \in Threads \ {t} : Borrows(u) /\ S(u) = s BY <1>1, <2>2
  <2>3. CASE s = S(t) /\ Borrows(t)' BY <1>b, <2>3
  <2>4. CASE s = S(t) /\ Settled(S(t), selection'[S(t)]) BY <2>4
  <2>5. CASE selection'[s] = selection[s] /\ Settled(s, selection[s]) BY <2>5
  <2>6. Settled(s, selection[s]) \/ \E u \in Threads : Borrows(u) /\ S(u) = s
    BY DEF Sourced, AllSettled
  <2> QED BY <1>c, <1>k, <2>2, <2>3, <2>4, <2>5, <2>6 DEF Lends
<1>3. ASSUME NEW u \in Threads PROVE Fresh(u)' /\ Returns(u)' /\ Looked(u)'
  <2>1. CASE u = t BY <2>1, FreshStep, ReturnsStep, LookedStepActs DEF Sourced
  <2>2. CASE u # t
    <3>1. th'[u] = th[u] /\ Fresh(u) /\ Returns(u) /\ Locked(u)
      BY <1>c, <2>2 DEF OthersKeep, Sourced, Places
    <3>2. updating = u => updating' = u /\ selection' = selection
      BY <1>l, <2>2, MovesUnderLock
    <3>3. updating' = u => updating = u BY <1>l, <2>2
    <3>4. Moving(u) => updating = u BY <3>1 DEF Moving, Locked, Holding
    <3>5. Fresh(u)' BY <3>1 DEF Fresh, S
    <3>8. Looked(u)' BY <1>c, <3>1 DEF Sourced, Looked, Unasked, S
    <3>6. CASE updating = u
      <4>1. Sel(u)' = Sel(u) /\ S(u)' = S(u) BY <3>1, <3>2, <3>6 DEF Sel, S
      <4>2. /\ Settled(S(u), th[u].original)' <=> Settled(S(u), th[u].original)
            /\ Settled(S(u), th[u].channel)' <=> Settled(S(u), th[u].channel)
            /\ Settled(S(u), Sel(u))' <=> Settled(S(u), Sel(u))
        BY <1>c, <3>1, <4>1 DEF Settled
      <4>3. Returns(u)' BY <3>1, <3>2, <3>6, <4>1, <4>2 DEF Returns, Moving
      <4> QED BY <3>5, <3>8, <4>3
    <3>7. CASE updating # u
      BY <3>1, <3>3, <3>4, <3>5, <3>7, <3>8 DEF Returns, Moving
    <3> QED BY <3>5, <3>6, <3>7, <3>8
  <2> QED BY <2>1, <2>2
<1> QED BY <1>2, <1>3 DEF Sourced

\* An operator saves between updates, and a setup puts an emby release back over it.
LEMMA SaveSourced ==
  ASSUME Typed, Places, Sourced, NEW s \in Enabled, NEW c \in Choices[s], NEW a \in Modes,
         Save(s, c, a)
  PROVE  Sourced'
<1>1. /\ admission = Nobody /\ UNCHANGED <<th, updating>>
      /\ selection' = [selection EXCEPT ![s] = c] /\ chosen' = [chosen EXCEPT ![s] = c]
  BY DEF Save, locks
<1>2. /\ Enabled' = Enabled /\ selection'[s] = c /\ chosen'[s] = c
      /\ \A x \in Enabled \ {s} : /\ selection'[x] = selection[x] /\ chosen'[x] = chosen[x]
                                  /\ x \in overlapped' <=> x \in overlapped
  BY <1>1 DEF Typed, Enabled, Save
<1>6. (\E b \in Boots : S(b) = s /\ First_check(b)) => s \in overlapped'
  BY DEF Save
<1>7. ASSUME NEW u \in Threads, th[u].pc \notin {"idle", "admission"} PROVE u \in Boots
  BY <1>1, <1>7, UpdatesAssumption DEF Places, Locked
<1>3. ASSUME NEW u \in Threads, updating = u PROVE th[u].why \notin Updates
  <2>1. th[u].pc \notin {"idle", "admission"} /\ admission # u
    BY <1>1, <1>3, UpdatesAssumption DEF Places, Locked
  <2>2. u \in Boots /\ Purpose(u) BY <2>1 DEF Places, Locked
  <2> QED BY <2>2, UpdatesAssumption DEF Purpose, Updates
<1>4. ASSUME NEW x \in Enabled
      PROVE  Settled(x, selection[x])' \/ \E u \in Threads : Borrows(u)' /\ S(u)' = x
  <2>1. CASE x = s BY <1>2, <2>1 DEF Settled
  <2>2. CASE x # s /\ Settled(x, selection[x]) BY <1>2, <2>2 DEF Settled
  <2>3. CASE \E u \in Threads : Borrows(u) /\ S(u) = x
    BY <1>1, <2>3 DEF Borrows, Moving, S
  <2> QED BY <2>1, <2>2, <2>3 DEF Sourced, AllSettled
<1>5. ASSUME NEW u \in Threads PROVE Fresh(u)' /\ Returns(u)' /\ Looked(u)'
  <2>1. Fresh(u) /\ Returns(u) /\ Looked(u) BY DEF Sourced
  <2>2. Moving(u) => updating = u BY DEF Places, Moving, Locked, Holding
  <2>3. Moving(u) => S(u) \in Enabled BY DEF Places, Moving, Purpose
  <2>4. Fresh(u)' BY <1>1, <2>1 DEF Fresh, S
  <2>5. S(u) \in Enabled \ {s} =>
          /\ Sel(u)' = Sel(u) /\ \A d : Settled(S(u), d)' <=> Settled(S(u), d)
          /\ Unasked(u)' <=> Unasked(u) /\ chosen'[S(u)] = chosen[S(u)]
    BY <1>1, <1>2 DEF Sel, S, Settled, Unasked
  <2>6. S(u) = s /\ Moving(u) =>
          IF Sel(u)'.kind \in Released THEN Settled(S(u), th[u].channel)' ELSE Settled(S(u), Sel(u))'
    <3>1. SUFFICES ASSUME S(u) = s, Moving(u)
                   PROVE  IF Sel(u)'.kind \in Released THEN Settled(S(u), th[u].channel)'
                          ELSE Settled(S(u), Sel(u))'
      OBVIOUS
    <3>2. u \in Boots /\ First_check(u) BY <1>7, <3>1 DEF Moving, First_check
    <3>3. s \in overlapped' /\ Family[s] = "emby" BY <1>6, <2>1, <3>1, <3>2 DEF Fresh, Moving
    <3>4. Sel(u)' = c /\ chosen'[s] = c /\ S(u)' = s BY <1>1, <1>2, <3>1 DEF Sel, S
    <3> QED BY <3>3, <3>4 DEF Settled, S
  <2>7. Returns(u)'
    <3>1. updating' = u => th[u].why \notin Updates BY <1>1, <1>3
    <3>2. Moving(u)' <=> Moving(u) BY <1>1 DEF Moving
    <3>3. CASE S(u) = s BY <1>1, <2>6, <3>1, <3>2, <3>3 DEF Returns
    <3>4. CASE S(u) # s
      BY <1>1, <2>1, <2>3, <2>5, <3>1, <3>2, <3>4 DEF Returns, S
    <3> QED BY <3>3, <3>4
  <2>8. Looked(u)'
    <3>1. CASE th[u].pc \in {"updating", "initial", "check", "record"}
      <4>1. u \in Boots /\ First_check(u) /\ S(u) \in Enabled
        BY <1>7, <3>1 DEF First_check, Places, Purpose
      <4>2. CASE S(u) = s
        BY <1>1, <1>6, <2>1, <4>1, <4>2 DEF Looked, Unasked, S
      <4>3. CASE S(u) # s BY <1>1, <2>1, <2>5, <4>1, <4>3 DEF Looked, S
      <4> QED BY <4>2, <4>3
    <3>2. CASE th[u].pc \notin {"updating", "initial", "check", "record"}
      BY <1>1, <3>2 DEF Looked
    <3> QED BY <3>1, <3>2
  <2> QED BY <2>4, <2>7, <2>8
<1> QED BY <1>2, <1>4, <1>5 DEF Sourced, AllSettled

\* Selections are settled, or somebody is there to settle them.
LEMMA SourcedStep ==
  ASSUME Typed, Places, Written, Sourced, [Next]_vars PROVE Sourced'
<1>e. Enabled' = Enabled BY TypedStep
<1>1. ASSUME UNCHANGED <<selection, chosen, overlapped, th, updating>> PROVE Sourced'
  BY <1>e, <1>1
     DEF Looked, Unasked, Sourced, AllSettled, Settled, Borrows, Moving, Fresh, Returns, Sel, S
<1>2. ASSUME NEW t \in Threads, NEW s \in Enabled, Begins(t, s), ~UNCHANGED th PROVE Sourced'
  <2>1. /\ UNCHANGED <<selection, chosen, overlapped, updating>> /\ OthersKeep(t)
        /\ th[t].pc = "idle"
        /\ th'[t].pc \in {"auto_update", "admission"} /\ th'[t].original = None
        /\ th'[t].guard = None /\ th'[t].moving = FALSE /\ th'[t].undo = FALSE
    BY <1>2, BeginEffects DEF Fresh_at, locks, config
  <2>2. updating # t BY <2>1 DEF Places, Locked
  <2>3. ASSUME NEW u \in Threads PROVE Fresh(u)' /\ Returns(u)' /\ Looked(u)'
    <3>1. CASE u = t BY <2>1, <2>2, <3>1 DEF Fresh, Returns, Moving, Early, Looked
    <3>2. CASE u # t
      <4>1. th'[u] = th[u] /\ Fresh(u) /\ Returns(u) /\ Looked(u)
        BY <2>1, <3>2 DEF OthersKeep, Sourced
      <4>2. Sel(u)' = Sel(u) BY <2>1, <4>1 DEF Sel, S
      <4>3. \A c : Settled(S(u), c)' <=> Settled(S(u), c) BY <2>1, <4>1 DEF Settled, S
      <4>4. Looked(u)' BY <2>1, <4>1 DEF Looked, Unasked, S
      <4>5. Fresh(u)' BY <2>1, <4>1 DEF Fresh, S
      <4>6. Returns(u)' BY <2>1, <4>1, <4>2, <4>3 DEF Returns, Moving, S
      <4> QED BY <4>4, <4>5, <4>6
    <3> QED BY <3>1, <3>2
  <2>4. \A u \in Threads : Borrows(u) => Borrows(u)' /\ S(u)' = S(u)
    BY <2>1, <2>2 DEF Borrows, Moving, OthersKeep, S
  <2>5. AllSettled' BY <1>e, <2>1, <2>4 DEF Sourced, AllSettled, Settled
  <2> QED BY <2>3, <2>5 DEF Sourced
<1>3. CASE Outside
  <2>1. CASE \E s \in Enabled : \E c \in Choices[s], a \in Modes : Save(s, c, a)
    BY <2>1, SaveSourced
  <2>2. CASE UNCHANGED <<selection, chosen, overlapped, th, updating>> BY <1>1, <2>2
  <2> QED
    BY <1>3, <2>1, <2>2
       DEF Outside, Publish, Write, Update_schedule, Reschedule_auto_update, vars, config,
           locks
<1>4. ASSUME NEW t \in Threads, NEW s \in Enabled, Begins(t, s), UNCHANGED th PROVE Sourced'
  BY <1>1, <1>4, BeginEffects DEF config, locks
<1> QED BY <1>2, <1>3, <1>4, Steps, SourcedStepActs

\* A thread judges by the selection the operator saved.
LEMMA JudgedStepActs ==
  ASSUME Typed, Places, Sourced, NEW t \in Threads, Step(t), Judged(t)
  PROVE  Judged(t)'
<1> USE DEF locks, At
<1>t. Threaded BY DEF Typed, Threaded
<1>w. th[t] \in Work BY <1>t DEF Threaded
<1>p. th[t].pc # "idle" => S(t) \in Enabled BY DEF Places, Purpose
<1>i. Idle.pc = "idle" BY IdleFacts
<1>f. S(t) \in Enabled /\ chosen' = chosen /\ S(t) \in Services BY ServiceEffect DEF Typed
<1>l. Place(t) /\ Locked(t) /\ Purpose(t) BY ServiceEffect DEF Places
<1>h. Fresh(t) BY DEF Sourced
<1>c. th'[t] = Idle \/ (S(t)' = S(t) /\ th'[t].why = th[t].why) BY ThreadEffect
<1>n. Boots \cap Requests = {} /\ Scheduler \notin Boots BY UpdatesAssumption
\* The selection it has just looked at is the one the operator saved.
<1>a. th[t].pc \in {"judge", "select"} /\ th[t].why \in {"scheduled", "update"}
      /\ Family[S(t)] # "emby" /\ ~Get_update_block_reason(Sel(t)) =>
        ~Get_update_block_reason(chosen[S(t)])
  <2>1. SUFFICES ASSUME th[t].pc \in {"judge", "select"}, th[t].why \in {"scheduled", "update"},
                        Family[S(t)] # "emby", ~Get_update_block_reason(Sel(t))
                 PROVE  ~Get_update_block_reason(chosen[S(t)])
    OBVIOUS
  <2>2. t \in Threads \ Boots BY <1>n, <1>l, <2>1 DEF Purpose
  <2>3. admission = t BY <1>l, <2>1, <2>2 DEF Locked
  <2>4. ~Borrows(t) BY <1>l, <2>1 DEF Borrows, Moving, Locked
  <2>5. Settled(S(t), Sel(t)) BY <1>f, <2>1, <2>2, <2>3, <2>4, HeldIsSettled
  <2> QED BY <2>1, <2>5, FreeIsSaved
<1>1. CASE Take_admission(t)
  BY <1>t, <1>i, <1>l, <1>f, <1>c, <1>1, AdmissionActs
     DEF Take_admission, Judged, Same, Results, After, Place, Boot_like, Updates, Lifecycles
<1>2. CASE Scheduled_update_check(t)
  <2>1. CASE Return(t) BY <1>t, <1>i, <2>1, PutDownEffect DEF Return, Judged
  <2>2. CASE /\ Manual_update_check_internal(S(t)) = "update_available" /\ To(t, "updating")
    <3>1. ~Get_update_block_reason(Sel(t)) BY <1>f, <2>2, AvailableIsFree DEF Sel
    <3>2. Family[S(t)] # "emby" => ~Get_update_block_reason(chosen[S(t)])
      BY <1>a, <1>2, <3>1 DEF Scheduled_update_check
    <3>3. S(t)' = S(t) /\ th'[t].why = "scheduled"
      BY <1>t, <1>2, <2>2, ToEffect DEF Scheduled_update_check, Same
    <3> QED BY <1>f, <3>2, <3>3 DEF Judged
  <2> QED BY <1>2, <2>1, <2>2 DEF Scheduled_update_check
<1>3. CASE Manual_update_install(t)
  <2>1. CASE Return(t) BY <1>t, <1>i, <2>1, PutDownEffect DEF Return, Judged
  <2>2. CASE /\ Same(t) /\ th'[t].pc = "updating"
             /\ th'[t].result = IF Refused(t) THEN "refused" ELSE th[t].result
    <3>1. th[t].pc = "judge" /\ th[t].why \in Updates BY <1>3 DEF Manual_update_install
    <3>2. S(t)' = S(t) /\ th'[t].why = th[t].why BY <2>2 DEF Same
    <3>3. CASE Refused(t) BY <1>f, <2>2, <3>1, <3>2, <3>3 DEF Judged, Updates
    <3>4. CASE ~Refused(t)
      <4>1. th[t].why = "update" => ~Get_update_block_reason(Sel(t)) BY <3>4 DEF Refused
      <4>2. th[t].why = "update" /\ Family[S(t)] # "emby" =>
              ~Get_update_block_reason(chosen[S(t)])
        BY <1>a, <3>1, <4>1
      <4> QED BY <1>f, <3>1, <3>2, <4>2 DEF Judged, Updates
    <3> QED BY <3>3, <3>4
  <2> QED BY <1>3, <2>1, <2>2, JudgeActs
<1>4. CASE Stop_service(t)
  BY <1>t, <1>i, <1>l, <1>f, <1>c, <1>4, ToEffect, PutDownEffect
     DEF Stop_service, Return, Judged, Same, Results, After, Place, Boot_like, Updates,
         Lifecycles
<1>5. CASE Start_service(t)
  BY <1>t, <1>i, <1>l, <1>f, <1>c, <1>5, ToEffect, PutDownEffect
     DEF Start_service, Judged, Same, Results, After, Place, Boot_like, Updates, Lifecycles
<1>6. CASE Auto_update(t)
  BY <1>t, <1>i, <1>l, <1>f, <1>c, <1>6, ToEffect
     DEF Auto_update, Judged, Same, Results, After, Place, Boot_like, Updates, Lifecycles
<1>7. CASE Take_updating(t)
  BY <1>t, <1>i, <1>l, <1>f, <1>c, <1>7, ToEffect
     DEF Take_updating, Judged, Same, Results, After, Place, Boot_like, Updates, Lifecycles
<1>8. CASE Initial_update_check(t)
  BY <1>t, <1>i, <1>l, <1>f, <1>c, <1>8, ToEffect, EndEffect
     DEF Initial_update_check, Judged, Same, Results, After, Place, Boot_like, Updates,
         Lifecycles
<1>9. CASE Start_preinstalled(t)
  BY <1>t, <1>i, <1>l, <1>f, <1>c, <1>9, ToEffect
     DEF Start_preinstalled, Judged, Same, Results, After, Place, Boot_like, Updates,
         Lifecycles
<1>10. CASE Configure_or_set_up(t)
  BY <1>t, <1>i, <1>l, <1>f, <1>c, <1>10, ToEffect, EndEffect
     DEF Configure_or_set_up, Judged, Same, Results, After, Place, Boot_like, Updates,
         Lifecycles
<1>11. CASE Select_source(t)
  <2>1. /\ th[t].pc = "select" /\ S(t)' = S(t) /\ th'[t].why = th[t].why /\ updating = t
        /\ ~th[t].undo /\ th[t].why \in Updates
    BY <1>h, <1>l, <1>11, SelectActs
       DEF Same, Locked, Holding, Inside, Fresh, Early, Place
  <2>2. CASE /\ th'[t].pc = After(t)
             /\ th'[t].result = IF th[t].undo THEN th[t].result
                                ELSE IF th[t].result = "refused" THEN "refused" ELSE "failed"
    <3>1. th'[t].pc = "leave" BY <2>1, <2>2 DEF After
    <3> QED BY <1>f, <2>1, <2>2, <3>1 DEF Judged, Updates
  <2>3. CASE ~Refused(t)
    <3>1. th[t].why = "update" => ~Get_update_block_reason(Sel(t)) BY <2>3 DEF Refused
    <3>2. th[t].why = "update" /\ Family[S(t)] # "emby" =>
            ~Get_update_block_reason(chosen[S(t)])
      BY <1>a, <2>1, <3>1
    <3> QED BY <1>f, <2>1, <3>2 DEF Judged, Updates
  <2> QED BY <1>11, <2>2, <2>3, SelectActs
<1>12. CASE Install_configured_target(t)
  BY <1>t, <1>i, <1>l, <1>f, <1>c, <1>12, ConfiguredActs
     DEF Install_configured_target, Judged, Same, Results, After, Place, Boot_like, Updates,
         Lifecycles
<1>13. CASE Update_check(t)
  BY <1>t, <1>i, <1>l, <1>f, <1>c, <1>13, CheckActs
     DEF Update_check, Judged, Same, Results, After, Place, Boot_like, Updates, Lifecycles
<1>14. CASE Record_release(t)
  BY <1>t, <1>i, <1>l, <1>f, <1>c, <1>14, RecordActs
     DEF Record_release, Judged, Same, Results, After, Place, Boot_like, Updates, Lifecycles
<1>15. CASE Capture_rollback_snapshot(t)
  BY <1>t, <1>i, <1>l, <1>f, <1>c, <1>15, ToEffect, EndEffect
     DEF Capture_rollback_snapshot, Judged, Same, Results, After, Place, Boot_like, Updates,
         Lifecycles
<1>16. CASE Stop_process(t)
  BY <1>t, <1>i, <1>l, <1>f, <1>c, <1>16, ToEffect
     DEF Stop_process, Judged, Same, Results, After, Place, Boot_like, Updates, Lifecycles
<1>17. CASE Select_emby_release(t)
  BY <1>t, <1>i, <1>l, <1>f, <1>c, <1>17, EmbyActs
     DEF Select_emby_release, Judged, Same, Results, After, Place, Boot_like, Updates,
         Lifecycles
<1>18. CASE Setup_release_version(t)
  BY <1>t, <1>i, <1>l, <1>f, <1>c, <1>18, ToEffect, EndEffect
     DEF Setup_release_version, Judged, Same, Results, After, Place, Boot_like, Updates,
         Lifecycles
<1>19. CASE Setup_project(t)
  BY <1>t, <1>i, <1>l, <1>f, <1>c, <1>19, ToEffect, EndEffect
     DEF Setup_project, Judged, Same, Results, After, Place, Boot_like, Updates, Lifecycles
<1>20. CASE Build_candidate(t)
  BY <1>t, <1>i, <1>l, <1>f, <1>c, <1>20, ToEffect, EndEffect
     DEF Build_candidate, Judged, Same, Results, After, Place, Boot_like, Updates, Lifecycles
<1>21. CASE Activate_candidate(t)
  BY <1>t, <1>i, <1>l, <1>f, <1>c, <1>21, ToEffect, RollBackEffect
     DEF Activate_candidate, Roll_back, Judged, Same, Results, After, Place, Boot_like,
         Updates, Lifecycles
<1>22. CASE Start_process(t)
  BY <1>t, <1>i, <1>l, <1>f, <1>c, <1>22, ToEffect, EndEffect, RollBackEffect
     DEF Start_process, Not_running, Judged, Same, Results, After, Place, Boot_like,
         Updates, Lifecycles
<1>23. CASE Wait_for_update_health(t)
  BY <1>t, <1>i, <1>l, <1>f, <1>c, <1>23, EndEffect, RollBackEffect
     DEF Wait_for_update_health, Not_running, Judged, Same, Results, After, Place,
         Boot_like, Updates, Lifecycles
<1>24. CASE Recover_pending_snapshot(t)
  BY <1>t, <1>i, <1>l, <1>f, <1>c, <1>24, RecoverActs
     DEF Recover_pending_snapshot, Judged, Same, Results, After, Place, Boot_like, Updates,
         Lifecycles
<1>25. CASE Leave_scheduled(t)
  BY <1>t, <1>i, <1>l, <1>f, <1>c, <1>25, ToEffect, PutDownEffect
     DEF Leave_scheduled, Judged, Same, Results, After, Place, Boot_like, Updates, Lifecycles
<1>26. CASE Leave_manual(t)
  BY <1>t, <1>i, <1>l, <1>f, <1>c, <1>26, ToEffect
     DEF Leave_manual, Judged, Same, Results, After, Place, Boot_like, Updates, Lifecycles
<1>27. CASE Finally_manual(t)
  BY <1>t, <1>i, <1>l, <1>f, <1>c, <1>27, ToEffect, PutDownEffect
     DEF Finally_manual, Return, Judged, Same, Results, After, Place, Boot_like, Updates,
         Lifecycles
<1>28. CASE Leave_boot(t)
  BY <1>t, <1>i, <1>l, <1>f, <1>c, <1>28, PutDownEffect, AgainEffect
     DEF Leave_boot, Judged, Same, Results, After, Place, Boot_like, Updates, Lifecycles
<1> QED BY <1>1, <1>2, <1>3, <1>4, <1>5, <1>6, <1>7, <1>8, <1>9, <1>10, <1>11, <1>12, <1>13,
           <1>14, <1>15, <1>16, <1>17, <1>18, <1>19, <1>20, <1>21, <1>22, <1>23, <1>24,
           <1>25, <1>26, <1>27, <1>28 DEF Step

\* Nobody saves a selection while an update that was judged is under way.
LEMMA JudgedStep ==
  ASSUME Typed, Places, Sourced, [Next]_vars, NEW t \in Threads, Judged(t)
  PROVE  Judged(t)'
<1> USE DEF Judged
<1>1. ASSUME NEW u \in Threads, Step(u) PROVE Judged(t)'
  <2>1. CASE u = t BY <1>1, <2>1, JudgedStepActs
  <2>2. CASE u # t
    <3>1. th'[t] = th[t] /\ chosen' = chosen
      BY <1>1, <2>2, ThreadEffect, ServiceEffect DEF OthersKeep
    <3> QED BY <3>1 DEF S
  <2> QED BY <2>1, <2>2
<1>2. ASSUME NEW u \in Threads, NEW s \in Enabled, Begins(u, s) PROVE Judged(t)'
  <2>1. chosen' = chosen BY <1>2, BeginEffects DEF config
  <2>2. CASE th'[t] = th[t] BY <2>1, <2>2 DEF S
  <2>3. CASE th'[t] # th[t]
    <3>1. t = u BY <1>2, <2>3, BeginEffects DEF Fresh_at, OthersKeep
    <3>2. th'[t].pc = "admission" \/ th'[t].why = "boot"
      BY <1>2, <2>3, <3>1, BeginEffects DEF Fresh_at
    <3> QED BY <3>2
  <2> QED BY <2>2, <2>3
<1>3. CASE Outside
  <2>1. CASE UNCHANGED <<th, chosen>> BY <2>1 DEF S
  <2>2. ASSUME NEW s \in Enabled, NEW c \in Choices[s], NEW a \in Modes, Save(s, c, a)
        PROVE  Judged(t)'
    <3>1. admission = Nobody /\ th' = th BY <2>2 DEF Save
    <3>2. CASE th[t].pc \in {"idle", "admission", "judge"} BY <3>1, <3>2
    <3>3. CASE th[t].pc \notin {"idle", "admission", "judge"}
      <4>1. t \in Boots BY <3>1, <3>3, UpdatesAssumption DEF Places, Locked
      <4>2. th[t].why = "boot" BY <3>3, <4>1, UpdatesAssumption DEF Places, Purpose
      <4> QED BY <3>1, <4>2
    <3> QED BY <3>2, <3>3
  <2> QED
    BY <1>3, <2>1, <2>2
       DEF Outside, Publish, Write, Update_schedule, Reschedule_auto_update, vars, config
<1> QED BY <1>1, <1>2, <1>3, Steps

\* A service has never more than it has written.
LEMMA WrittenStep == ASSUME Typed, Places, Written, [Next]_vars PROVE Written'
<1> USE DEF service
<1>e. Enabled' = Enabled BY TypedStep
<1>c. /\ snapshot \in [Enabled -> Snapshots] /\ data \in [Enabled -> 0 .. MaxWrites]
      /\ written \in [Enabled -> 0 .. MaxWrites]
  BY DEF Typed
<1>0. ASSUME UNCHANGED <<data, written, snapshot>> PROVE Written'
  BY <1>e, <1>0 DEF Written
<1>1. ASSUME NEW t \in Threads, Step(t) PROVE Written'
  <2>f. S(t) \in Enabled /\ written' = written BY <1>1, ServiceEffect
  <2>1. CASE UNCHANGED <<data, snapshot>> BY <1>0, <2>f, <2>1
  <2>z. NoSnapshot.data = 0 BY DEF NoSnapshot
  <2>2. CASE UNCHANGED data
             /\ \/ snapshot' = [snapshot EXCEPT ![S(t)] = NoSnapshot]
                \/ snapshot' = [snapshot EXCEPT ![S(t)] = [runtime |-> runtime[S(t)],
                                                          data |-> data[S(t)]]]
    <3>1. ASSUME NEW s \in Enabled PROVE snapshot'[s].data \in {snapshot[s].data, 0, data[s]}
      BY <1>c, <2>f, <2>2, <2>z, <3>1
    <3> QED BY <1>e, <1>c, <2>f, <2>2, <3>1 DEF Written
  <2>3. CASE Recover_pending_snapshot(t)
    <3>1. /\ snapshot' = [snapshot EXCEPT ![S(t)] = NoSnapshot]
          /\ \/ data' = data
             \/ data' = [data EXCEPT ![S(t)] = IF S(t) \in DataInTarget THEN snapshot[S(t)].data
                                               ELSE data[S(t)]]
      BY <1>c, <2>f, <2>3 DEF Recover_pending_snapshot
    <3>2. ASSUME NEW s \in Enabled
          PROVE  /\ snapshot'[s].data \in {snapshot[s].data, 0}
                 /\ \/ data'[s] = data[s]
                    \/ data'[s] = snapshot[s].data /\ s \in DataInTarget
      BY <1>c, <2>f, <2>z, <3>1, <3>2
    <3>3. \A s \in Enabled : written[s] \in Nat BY <1>c, UpdatesAssumption
    <3> QED BY <1>e, <2>f, <3>2, <3>3 DEF Written
  <2> QED
    BY <1>1, <2>1, <2>2, <2>3
       DEF Step, starter, Take_admission, Scheduled_update_check,
             Manual_update_install, Return, Stop_service, Start_service, Auto_update,
             Take_updating, Initial_update_check, Start_preinstalled, Configure_or_set_up,
             Select_source, Install_configured_target, Update_check, Record_release,
             Capture_rollback_snapshot, Stop_process, Select_emby_release,
             Setup_release_version, Setup_project, Build_candidate, Activate_candidate,
             Start_process, Wait_for_update_health,
             Leave_scheduled, Leave_manual, Finally_manual, Leave_boot
<1>2. ASSUME NEW t \in Threads, NEW s \in Enabled, Begins(t, s) PROVE Written'
  BY <1>0, <1>2, BeginEffects
<1>3. CASE Outside
  <2>1. ASSUME NEW s \in Enabled, Write(s) PROVE Written'
    <3>1. /\ data' = [data EXCEPT ![s] = @ + 1] /\ written' = [written EXCEPT ![s] = @ + 1]
          /\ UNCHANGED snapshot
      BY <2>1 DEF Write
    <3>2. ASSUME NEW x \in Enabled
          PROVE  \/ data'[x] = data[x] /\ written'[x] = written[x]
                 \/ data'[x] = data[x] + 1 /\ written'[x] = written[x] + 1
      BY <1>c, <3>1
    <3>3. \A x \in Enabled : data[x] \in Nat /\ written[x] \in Nat /\ snapshot[x].data \in Nat
      BY <1>c, UpdatesAssumption DEF Snapshots, NoSnapshot
    <3> QED BY <1>e, <3>1, <3>2, <3>3 DEF Written
  <2> QED
    BY <1>0, <1>3, <2>1
       DEF Outside, Save, Publish, Update_schedule, Reschedule_auto_update, vars
<1> QED BY <1>1, <1>2, <1>3, Steps

\* The thread that starts a service is at work on what its snapshot is for.
AtWork == {"stopping", "health", "recover"}

\* What a step leaves of the snapshot and the process of its service.
LEMMA SnapshotActs ==
  ASSUME Typed, Places, NEW t \in Threads, Step(t)
  PROVE  LET s == S(t) IN
         \/ snapshot'[s] = NoSnapshot \/ process'[s] = Down
         \/ th'[t].pc \in AtWork /\ S(t)' = s
         \/ th[t].pc \notin AtWork /\ snapshot'[s] = snapshot[s] /\ process'[s] = process[s]
<1> USE DEF service, AtWork, At
<1>t. Threaded BY DEF Typed, Threaded
<1>w. th[t] \in Work BY <1>t DEF Threaded
<1>p. th[t].pc # "idle" => S(t) \in Enabled BY DEF Places, Purpose
<1>f. S(t) \in Enabled BY ServiceEffect
<1>c. snapshot \in [Enabled -> Snapshots] /\ process \in [Enabled -> Process] BY DEF Typed
<1>n. Down \notin Version BY UpdatesAssumption
<1>1. CASE Take_admission(t)
  BY <1>t, <1>f, <1>c, <1>n, <1>1, AdmissionActs
     DEF Take_admission, Same, Results
<1>2. CASE Scheduled_update_check(t) BY <1>2 DEF Scheduled_update_check, Return
<1>3. CASE Manual_update_install(t) BY <1>3 DEF Manual_update_install, Return
<1>4. CASE Stop_service(t)
  BY <1>t, <1>f, <1>c, <1>n, <1>4, ToEffect, PutDownEffect
     DEF Stop_service, Return, Same, Results
<1>5. CASE Start_service(t)
  BY <1>t, <1>f, <1>c, <1>n, <1>5, ToEffect, PutDownEffect
     DEF Start_service, Same, Results
<1>6. CASE Auto_update(t)
  BY <1>t, <1>f, <1>c, <1>n, <1>6, ToEffect
     DEF Auto_update, Same, Results
<1>7. CASE Take_updating(t)
  BY <1>t, <1>f, <1>c, <1>n, <1>7, ToEffect
     DEF Take_updating, Same, Results
<1>8. CASE Initial_update_check(t)
  BY <1>t, <1>f, <1>c, <1>n, <1>8, ToEffect, EndEffect
     DEF Initial_update_check, Same, Results
<1>9. CASE Start_preinstalled(t)
  BY <1>t, <1>f, <1>c, <1>n, <1>9, ToEffect
     DEF Start_preinstalled, Same, Results
<1>10. CASE Configure_or_set_up(t)
  BY <1>t, <1>f, <1>c, <1>n, <1>10, ToEffect, EndEffect
     DEF Configure_or_set_up, Same, Results
<1>11. CASE Select_source(t)
  BY <1>t, <1>f, <1>c, <1>n, <1>11, SelectActs
     DEF Select_source, Same, Results
<1>12. CASE Install_configured_target(t)
  BY <1>t, <1>f, <1>c, <1>n, <1>12, ConfiguredActs
     DEF Install_configured_target, Same, Results
<1>13. CASE Update_check(t)
  BY <1>t, <1>f, <1>c, <1>n, <1>13, CheckActs
     DEF Update_check, Same, Results
<1>14. CASE Record_release(t)
  BY <1>t, <1>f, <1>c, <1>n, <1>14, RecordActs
     DEF Record_release, Same, Results
<1>15. CASE Capture_rollback_snapshot(t)
  BY <1>t, <1>f, <1>c, <1>n, <1>15, ToEffect, EndEffect
     DEF Capture_rollback_snapshot, Same, Results
<1>16. CASE Stop_process(t)
  BY <1>t, <1>f, <1>c, <1>n, <1>16, ToEffect
     DEF Stop_process, Same, Results
<1>17. CASE Select_emby_release(t)
  BY <1>t, <1>f, <1>c, <1>n, <1>17, EmbyActs
     DEF Select_emby_release, Same, Results
<1>18. CASE Setup_release_version(t)
  BY <1>t, <1>f, <1>c, <1>n, <1>18, ToEffect, EndEffect
     DEF Setup_release_version, Same, Results
<1>19. CASE Setup_project(t)
  BY <1>t, <1>f, <1>c, <1>n, <1>19, ToEffect, EndEffect
     DEF Setup_project, Same, Results
<1>20. CASE Build_candidate(t)
  BY <1>t, <1>f, <1>c, <1>n, <1>20, ToEffect, EndEffect
     DEF Build_candidate, Same, Results
<1>21. CASE Activate_candidate(t)
  BY <1>t, <1>f, <1>c, <1>n, <1>21, ToEffect, RollBackEffect
     DEF Activate_candidate, Roll_back, Same, Results
<1>22. CASE Start_process(t)
  BY <1>t, <1>f, <1>c, <1>n, <1>22, ToEffect, EndEffect, RollBackEffect
     DEF Start_process, Not_running, Same, Results
<1>23. CASE Wait_for_update_health(t)
  BY <1>t, <1>f, <1>c, <1>n, <1>23, EndEffect, RollBackEffect
     DEF Wait_for_update_health, Not_running, Same, Results
<1>24. CASE Recover_pending_snapshot(t)
  BY <1>t, <1>f, <1>c, <1>n, <1>24, RecoverActs
     DEF Recover_pending_snapshot, Same, Results
<1>25. CASE Leave_scheduled(t)
  BY <1>t, <1>f, <1>c, <1>n, <1>25, ToEffect, PutDownEffect
     DEF Leave_scheduled, Same, Results
<1>26. CASE Leave_manual(t)
  BY <1>t, <1>f, <1>c, <1>n, <1>26, ToEffect
     DEF Leave_manual, Same, Results
<1>27. CASE Finally_manual(t)
  BY <1>t, <1>f, <1>c, <1>n, <1>27, ToEffect, PutDownEffect
     DEF Finally_manual, Return, Same, Results
<1>28. CASE Leave_boot(t)
  BY <1>t, <1>f, <1>c, <1>n, <1>28, PutDownEffect, AgainEffect
     DEF Leave_boot, Same, Results
<1> QED BY <1>1, <1>2, <1>3, <1>4, <1>5, <1>6, <1>7, <1>8, <1>9, <1>10, <1>11, <1>12, <1>13,
           <1>14, <1>15, <1>16, <1>17, <1>18, <1>19, <1>20, <1>21, <1>22, <1>23, <1>24,
           <1>25, <1>26, <1>27, <1>28 DEF Step

\* No snapshot is left behind by a service that runs.
LEMMA SnapshotUsedStep ==
  ASSUME Typed, Places, Written, SnapshotUsed, [Next]_vars PROVE SnapshotUsed'
<1> USE DEF AtWork
<1>e. Enabled' = Enabled BY TypedStep
<1>1. ASSUME NEW t \in Threads, Step(t) PROVE SnapshotUsed'
  <2>c. /\ OthersKeep(t) /\ S(t) \in Enabled
        /\ \A s \in Enabled \ {S(t)} : snapshot'[s] = snapshot[s] /\ process'[s] = process[s]
    BY <1>1, ThreadEffect, ServiceEffect DEF OneService
  <2>1. SUFFICES ASSUME NEW s \in Enabled, snapshot'[s] # NoSnapshot, process'[s] # Down
                 PROVE  \E u \in Threads : S(u)' = s /\ th'[u].pc \in AtWork
    BY <1>e DEF SnapshotUsed
  <2>2. ASSUME NEW u \in Threads \ {t}, S(u) = s, th[u].pc \in AtWork
        PROVE  S(u)' = s /\ th'[u].pc \in AtWork
    BY <2>2, <2>c DEF OthersKeep, S
  <2>3. CASE snapshot'[s] = snapshot[s] /\ process'[s] = process[s]
             /\ (S(t) # s \/ th[t].pc \notin AtWork)
    <3>1. PICK u \in Threads : S(u) = s /\ th[u].pc \in AtWork
      BY <2>1, <2>3 DEF SnapshotUsed
    <3> QED BY <2>2, <2>3, <3>1
  <2>4. CASE S(t) = s BY <1>1, <2>1, <2>3, <2>4, SnapshotActs
  <2> QED BY <2>c, <2>3, <2>4
<1>2. ASSUME NEW t \in Threads, NEW s \in Enabled, Begins(t, s) PROVE SnapshotUsed'
  <2>1. snapshot' = snapshot /\ process' = process BY <1>2, BeginEffects DEF service
  <2>2. CASE UNCHANGED th BY <1>e, <2>1, <2>2 DEF SnapshotUsed, S
  <2>3. CASE OthersKeep(t) /\ th[t].pc = "idle"
    <3>1. ASSUME NEW u \in Threads, th[u].pc \in AtWork
          PROVE  S(u)' = S(u) /\ th'[u].pc \in AtWork
      BY <2>3, <3>1 DEF OthersKeep, S
    <3> QED BY <1>e, <2>1, <3>1 DEF SnapshotUsed
  <2> QED BY <1>2, <2>2, <2>3, BeginEffects DEF Fresh_at
<1>3. CASE Outside
  <2>1. UNCHANGED <<th, snapshot, process>>
    BY <1>3
       DEF Outside, Save, Publish, Write, Update_schedule, Reschedule_auto_update, vars,
                service
  <2> QED BY <1>e, <2>1 DEF SnapshotUsed, S
<1> QED BY <1>1, <1>2, <1>3, Steps

\* Nobody else is at work on the service of an update.
LEMMA Aloof ==
  ASSUME Typed, Places, StartedOnce, NEW t \in Threads, NEW u \in Threads \ {t}, Step(u),
         Careful(t), S(t) \in completed
  PROVE  S(u) # S(t)
<1>1. t \in Threads \ Boots /\ admission = t
  <2>1. th[t].pc \notin {"idle", "admission"} /\ th[t].why # "boot"
    BY DEF Careful, Updates
  <2> QED BY <2>1, UpdatesAssumption DEF Places, Purpose, Locked
<1>2. th[u].pc # "idle" BY ServiceEffect
<1>3. CASE u \in Boots BY <1>2, <1>3 DEF StartedOnce
<1>4. CASE u \notin Boots
  <2>1. th[u].pc = "admission" BY <1>1, <1>2, <1>4 DEF Places, Locked
  <2>2. Take_admission(u)
    BY <2>1, AdmissionOnly
  <2> QED BY <1>1, <2>2, UpdatesAssumption DEF Take_admission
<1> QED BY <1>3, <1>4

\* An update starts from a service that has no snapshot.
LEMMA KeptTaken ==
  ASSUME Typed, Places, StartedOnce, SnapshotUsed, NEW t \in Threads, Take_admission(t),
         Careful(t)'
  PROVE  Kept(t)'
<1>1. /\ th[t].pc = "admission" /\ admission = Nobody
      /\ th'[t].pc = "judge" /\ S(t)' = S(t)
      /\ th'[t].was = process[S(t)] /\ th'[t].had = runtime[S(t)]
      /\ th'[t].kept = data[S(t)] /\ th'[t].calm = (S(t) \in completed)
      /\ th'[t].faults = faults /\ UNCHANGED <<service, completed, faults>>
  BY AdmissionActs DEF Take_admission, At, starter, bounds
<1>2. /\ S(t) \in completed /\ process[S(t)] # Down /\ S(t) \in Enabled
  <2>1. S(t) \in completed /\ process[S(t)] \in Version BY <1>1 DEF Careful
  <2> QED BY <1>1, <2>1, UpdatesAssumption DEF Places, Purpose
<1>3. snapshot[S(t)] = NoSnapshot
  <2>1. SUFFICES ASSUME NEW u \in Threads, S(u) = S(t),
                        th[u].pc \in {"stopping", "health", "recover"}
                 PROVE  FALSE
    BY <1>2 DEF SnapshotUsed
  <2>2. u \in Boots BY <1>1, <2>1, UpdatesAssumption DEF Places, Locked
  <2> QED BY <1>2, <2>1, <2>2 DEF StartedOnce
<1>4. data[S(t)] \in Int /\ faults \in Int BY <1>2, UpdatesAssumption DEF Typed
<1>5. data[S(t)] >= data[S(t)] /\ faults >= faults BY <1>4
<1> QED BY <1>1, <1>2, <1>3, <1>5 DEF Kept, Untouched, service, S

\* An update with one failure always has a way back.
LEMMA KeptStepActs ==
  ASSUME Typed, Places, Sourced, NEW t \in Threads, Step(t), ~Take_admission(t),
         Careful(t) => Kept(t), Careful(t)'
  PROVE  Kept(t)'
<1> USE DEF locks, service, At
<1>t. Threaded BY DEF Typed, Threaded
<1>w. th[t] \in Work BY <1>t DEF Threaded
<1>p. th[t].pc # "idle" => S(t) \in Enabled BY DEF Places, Purpose
<1>f. S(t) \in Enabled BY ServiceEffect
<1>l. Place(t) /\ Locked(t) BY DEF Places
<1>i. Idle.pc = "idle" BY IdleFacts
<1>h. Fresh(t) BY DEF Sourced
<1>s. Same(t) /\ th'[t].pc # "idle" /\ OthersKeep(t)
  <2>1. th'[t].pc # "idle" BY DEF Careful
  <2>2. CASE Scheduled_update_check(t)
    BY <1>t, <1>i, <2>1, <2>2, ToEffect, PutDownEffect
       DEF Scheduled_update_check, Return, Results, Pcs
  <2>3. CASE Manual_update_install(t)
    BY <1>t, <1>i, <2>1, <2>3, JudgeActs, PutDownEffect DEF Return
  <2>4. CASE Stop_service(t)
    BY <1>t, <1>i, <2>1, <2>4, ToEffect, PutDownEffect
       DEF Stop_service, Return, Results, Pcs
  <2>5. CASE Start_service(t)
    BY <1>t, <1>i, <2>1, <2>5, ToEffect, PutDownEffect
       DEF Start_service, Results, Pcs
  <2>6. CASE Auto_update(t)
    BY <1>t, <1>i, <2>1, <2>6, ToEffect
       DEF Auto_update, Results, Pcs
  <2>7. CASE Take_updating(t)
    BY <1>t, <1>i, <2>1, <2>7, ToEffect
       DEF Take_updating, Results, Pcs
  <2>8. CASE Initial_update_check(t)
    BY <1>t, <1>i, <2>1, <2>8, ToEffect, EndEffect
       DEF Initial_update_check, Results, Pcs
  <2>9. CASE Start_preinstalled(t)
    BY <1>t, <1>i, <2>1, <2>9, ToEffect
       DEF Start_preinstalled, Results, Pcs
  <2>10. CASE Configure_or_set_up(t)
    BY <1>t, <1>i, <2>1, <2>10, ToEffect, EndEffect
       DEF Configure_or_set_up, Results, Pcs
  <2>11. CASE Select_source(t)
    BY <1>t, <1>i, <2>1, <2>11, SelectActs
       DEF Select_source, Results, Pcs
  <2>12. CASE Install_configured_target(t)
    BY <1>t, <1>i, <2>1, <2>12, ConfiguredActs
       DEF Install_configured_target, Results, Pcs
  <2>13. CASE Update_check(t)
    BY <1>t, <1>i, <2>1, <2>13, CheckActs
       DEF Update_check, Results, Pcs
  <2>14. CASE Record_release(t)
    BY <1>t, <1>i, <2>1, <2>14, RecordActs
       DEF Record_release, Results, Pcs
  <2>15. CASE Capture_rollback_snapshot(t)
    BY <1>t, <1>i, <2>1, <2>15, ToEffect, EndEffect
       DEF Capture_rollback_snapshot, Results, Pcs
  <2>16. CASE Stop_process(t)
    BY <1>t, <1>i, <2>1, <2>16, ToEffect
       DEF Stop_process, Results, Pcs
  <2>17. CASE Select_emby_release(t)
    BY <1>t, <1>i, <2>1, <2>17, EmbyActs
       DEF Select_emby_release, Results, Pcs
  <2>18. CASE Setup_release_version(t)
    BY <1>t, <1>i, <2>1, <2>18, ToEffect, EndEffect
       DEF Setup_release_version, Results, Pcs
  <2>19. CASE Setup_project(t)
    BY <1>t, <1>i, <2>1, <2>19, ToEffect, EndEffect
       DEF Setup_project, Results, Pcs
  <2>20. CASE Build_candidate(t)
    BY <1>t, <1>i, <2>1, <2>20, ToEffect, EndEffect
       DEF Build_candidate, Results, Pcs
  <2>21. CASE Activate_candidate(t)
    BY <1>t, <1>i, <2>1, <2>21, ToEffect, RollBackEffect
       DEF Activate_candidate, Roll_back, Results, Pcs
  <2>22. CASE Start_process(t)
    BY <1>t, <1>i, <2>1, <2>22, ToEffect, EndEffect, RollBackEffect
       DEF Start_process, Not_running, Results, Pcs
  <2>23. CASE Wait_for_update_health(t)
    BY <1>t, <1>i, <2>1, <2>23, EndEffect, RollBackEffect
       DEF Wait_for_update_health, Not_running, Results, Pcs
  <2>24. CASE Recover_pending_snapshot(t)
    BY <1>t, <1>i, <2>1, <2>24, RecoverActs
       DEF Recover_pending_snapshot, Results, Pcs
  <2>25. CASE Leave_scheduled(t)
    BY <1>t, <1>i, <2>1, <2>25, ToEffect, PutDownEffect
       DEF Leave_scheduled, Results, Pcs
  <2>26. CASE Leave_manual(t)
    BY <1>t, <1>i, <2>1, <2>26, ToEffect
       DEF Leave_manual, Results, Pcs
  <2>27. CASE Finally_manual(t)
    BY <1>t, <1>i, <2>1, <2>27, ToEffect, PutDownEffect
       DEF Finally_manual, Return, Results, Pcs
  <2>28. CASE Leave_boot(t)
    BY <1>t, <1>i, <2>1, <2>28, PutDownEffect, AgainEffect
       DEF Leave_boot, Results, Pcs
  <2> QED BY <2>2, <2>3, <2>4, <2>5, <2>6, <2>7, <2>8, <2>9, <2>10, <2>11, <2>12, <2>13,
             <2>14, <2>15, <2>16, <2>17, <2>18, <2>19, <2>20, <2>21, <2>22, <2>23, <2>24,
             <2>25, <2>26, <2>27, <2>28 DEF Step
<1>v. /\ th[t].why \in Updates \cup {"scheduled"} /\ ~Boot_like(t)
      /\ th[t].pc \notin {"idle", "admission"}
  <2>1. th[t].why \in Updates \cup {"scheduled"} BY <1>s DEF Careful, Same
  <2>2. th[t].pc # "idle" BY ServiceEffect
  <2>3. ~Boot_like(t) BY <2>1 DEF Boot_like, Updates, Lifecycles
  <2>4. th[t].pc # "admission"
    BY AdmissionOnly
  <2> QED BY <2>1, <2>2, <2>3, <2>4
<1>d. /\ faults \in Int /\ faults' \in {faults, faults + 1} /\ th[t].faults \in Int
      /\ data[S(t)] \in Int /\ th[t].kept \in Int
  BY <1>w, <1>f, ServiceEffect, UpdatesAssumption DEF Typed, Work
<1>g. /\ S(t)' = S(t) /\ th'[t].s = S(t) /\ th'[t].was = th[t].was /\ th'[t].had = th[t].had
      /\ th'[t].kept = th[t].kept /\ th'[t].faults = th[t].faults /\ th'[t].why = th[t].why
  BY <1>s DEF Same, S
<1>k. Kept(t) /\ Careful(t)
  <2>1. faults <= th[t].faults + 1 BY <1>d, <1>s DEF Careful, Same
  <2> QED BY <1>s, <1>v, <2>1 DEF Careful, Same
<1>b. faults' <= th[t].faults + 1 /\ faults >= th[t].faults
  BY <1>s, <1>k DEF Careful, Same, Kept
<1>r. {th[t].was, th[t].had} \subseteq Version /\ S(t) \notin Unprotected
  BY <1>k DEF Careful
<1>n. Down \notin Version /\ NoSnapshot.runtime = Down BY UpdatesAssumption DEF NoSnapshot
<1>c. /\ snapshot \in [Enabled -> Snapshots] /\ process \in [Enabled -> Process]
      /\ runtime \in [Enabled -> Content] /\ data \in [Enabled -> 0 .. MaxWrites]
      /\ selection \in [Enabled -> Sources] /\ upstream \in Version
  BY DEF Typed
<1>m. completed \subseteq completed' BY CompletedStep
<1>z. th'[t].pc # "idle" /\ Idle.pc = "idle" BY <1>s, <1>i
<1>y. S(t)' \in completed' /\ faults' >= th'[t].faults
  BY <1>d, <1>g, <1>k, <1>m, <1>b DEF Kept
<1>1. CASE Take_admission(t) BY <1>1
<1>2. CASE Scheduled_update_check(t)
  <2>1. CASE Return(t) BY <1>t, <1>z, <2>1, PutDownEffect DEF Return
  <2>2. CASE To(t, "updating") /\ UNCHANGED service
    <3>1. th[t].pc = "judge" /\ th'[t].pc = "updating"
      BY <1>t, <1>2, <2>2, ToEffect DEF Scheduled_update_check
    <3> QED BY <1>g, <1>k, <1>y, <2>2, <3>1 DEF Kept, Untouched
  <2> QED BY <1>2, <2>1, <2>2 DEF Scheduled_update_check
<1>3. CASE Manual_update_install(t)
  <2>1. CASE Return(t) BY <1>t, <1>z, <2>1, PutDownEffect DEF Return
  <2>2. CASE th'[t].pc = "updating" /\ UNCHANGED service
    <3>1. th[t].pc = "judge" BY <1>3 DEF Manual_update_install
    <3> QED BY <1>g, <1>k, <1>y, <2>2, <3>1 DEF Kept, Untouched
  <2> QED BY <1>3, <2>1, <2>2, JudgeActs
<1>4. CASE Stop_service(t)
  BY <1>l, <1>v, <1>4 DEF Stop_service, Place, Updates, Lifecycles
<1>5. CASE Start_service(t)
  BY <1>l, <1>v, <1>5 DEF Start_service, Place, Updates, Lifecycles
<1>6. CASE Auto_update(t)
  BY <1>l, <1>v, <1>6 DEF Auto_update, Place, Updates, Lifecycles
<1>7. CASE Take_updating(t)
  BY <1>t, <1>l, <1>h, <1>v, <1>d, <1>g, <1>k, <1>b, <1>r, <1>n, <1>c, <1>y, <1>7, ToEffect
     DEF Take_updating, Kept, Untouched, Copied, Back, Failed, Fresh, Results, After, Early,
         Inside, Locked, Holding
<1>8. CASE Initial_update_check(t)
  BY <1>l, <1>v, <1>8 DEF Initial_update_check, Place, Updates, Lifecycles
<1>9. CASE Start_preinstalled(t)
  BY <1>l, <1>v, <1>9 DEF Start_preinstalled, Place, Updates, Lifecycles
<1>10. CASE Configure_or_set_up(t)
  BY <1>l, <1>v, <1>10 DEF Configure_or_set_up, Place, Updates, Lifecycles
<1>11. CASE Select_source(t)
  BY <1>t, <1>l, <1>h, <1>v, <1>d, <1>g, <1>k, <1>b, <1>r, <1>n, <1>c, <1>y, <1>11,
     SelectActs
     DEF Select_source, Kept, Untouched, Copied, Back, Failed, Fresh, Results, After, Early,
         Inside, Locked, Holding
<1>12. CASE Install_configured_target(t)
  BY <1>t, <1>l, <1>h, <1>v, <1>d, <1>g, <1>k, <1>b, <1>r, <1>n, <1>c, <1>y, <1>12,
     ConfiguredActs
     DEF Install_configured_target, Kept, Untouched, Copied, Back, Failed, Fresh, Results,
         After, Early, Inside, Locked, Holding
<1>13. CASE Update_check(t)
  BY <1>t, <1>l, <1>h, <1>v, <1>d, <1>g, <1>k, <1>b, <1>r, <1>n, <1>c, <1>y, <1>13,
     CheckActs
     DEF Update_check, Kept, Untouched, Copied, Back, Failed, Fresh, Results, After, Early,
         Inside, Locked, Holding
<1>14. CASE Record_release(t)
  BY <1>t, <1>l, <1>h, <1>v, <1>d, <1>g, <1>k, <1>b, <1>r, <1>n, <1>c, <1>y, <1>14,
     RecordActs
     DEF Record_release, Kept, Untouched, Copied, Back, Failed, Fresh, Results, After,
         Early, Inside, Locked, Holding
<1>15. CASE Capture_rollback_snapshot(t)
  <2>1. /\ th[t].pc = "stop" /\ Untouched(t) /\ data[S(t)] >= th[t].kept /\ updating = t
        /\ ~th[t].undo /\ process[S(t)] # Down
    BY <1>l, <1>h, <1>k, <1>r, <1>n, <1>15
       DEF Capture_rollback_snapshot, Kept, Untouched, Locked, Holding, Fresh, Early
  <2>2. CASE /\ To(t, "stopping")
             /\ snapshot' = IF process[S(t)] # Down /\ Snapshot_target(S(t))
                                /\ snapshot[S(t)] = NoSnapshot
                             THEN [snapshot EXCEPT ![S(t)] = [runtime |-> runtime[S(t)],
                                                             data |-> data[S(t)]]]
                             ELSE snapshot
    <3>1. snapshot'[S(t)] = [runtime |-> runtime[S(t)], data |-> data[S(t)]]
      BY <1>f, <1>c, <1>r, <2>1, <2>2 DEF Snapshot_target, Untouched
    <3>2. th'[t].pc = "stopping" BY <1>t, <2>2, ToEffect
    <3>3. data' = data BY <1>15 DEF Capture_rollback_snapshot
    <3> QED BY <1>g, <1>y, <2>1, <3>1, <3>2, <3>3 DEF Kept, Copied, Untouched
  <2>3. CASE End(t, "failed") /\ UNCHANGED service
    <3>1. th'[t].pc = "leave" /\ th'[t].result = "failed"
      BY <1>t, <2>1, <2>3, EndEffect DEF After, Results
    <3> QED BY <1>g, <1>y, <2>1, <2>3, <3>1 DEF Kept, Back, Untouched
  <2> QED BY <1>15, <2>2, <2>3 DEF Capture_rollback_snapshot
<1>16. CASE Stop_process(t)
  <2>1. /\ th[t].pc = "stopping" /\ Copied(t) /\ data[S(t)] >= th[t].kept
        /\ UNCHANGED <<snapshot, data>> /\ process'[S(t)] = Down
    BY <1>f, <1>c, <1>k, <1>16 DEF Stop_process, Kept
  <2>2. th'[t].pc \in {"emby", "install", "setup"} BY <1>t, <1>16, ToEffect DEF Stop_process
  <2> QED BY <1>g, <1>y, <2>1, <2>2 DEF Kept, Copied
<1>17. CASE Select_emby_release(t)
  BY <1>t, <1>l, <1>h, <1>v, <1>d, <1>g, <1>k, <1>b, <1>r, <1>n, <1>c, <1>y, <1>17, EmbyActs
     DEF Select_emby_release, Kept, Untouched, Copied, Back, Failed, Fresh, Results, After,
         Early, Inside, Locked, Holding
<1>18. CASE Setup_release_version(t)
  <2>1. /\ th[t].pc = "install" /\ Copied(t) /\ process[S(t)] = Down /\ ~th[t].undo
        /\ UNCHANGED <<snapshot, data, process>> /\ data[S(t)] >= th[t].kept /\ updating = t
    BY <1>l, <1>h, <1>k, <1>18 DEF Setup_release_version, Kept, Fresh, Locked, Holding
  <2>2. CASE To(t, "setup")
    <3>1. th'[t].pc = "setup" /\ th'[t].undo = th[t].undo BY <1>t, <2>2, ToEffect
    <3> QED BY <1>g, <1>y, <2>1, <3>1 DEF Kept, Copied
  <2>3. CASE Fault /\ End(t, "failed")
    <3>1. /\ th'[t].pc = "leave" /\ th'[t].result = "failed" /\ th'[t].undo = th[t].undo
      BY <1>t, <2>1, <2>3, EndEffect DEF After, Results
    <3>2. faults' = th'[t].faults + 1 BY <1>d, <1>g, <1>b, <2>3 DEF Fault
    <3> QED BY <1>g, <1>y, <2>1, <3>1, <3>2 DEF Kept, Copied, Failed
  <2> QED BY <1>18, <2>2, <2>3 DEF Setup_release_version
<1>19. CASE Setup_project(t)
  <2>1. /\ th[t].pc = "setup" /\ Copied(t) /\ process[S(t)] = Down /\ ~th[t].undo
        /\ UNCHANGED <<snapshot, data, process>> /\ data[S(t)] >= th[t].kept /\ updating = t
    BY <1>l, <1>h, <1>k, <1>19 DEF Setup_project, Kept, Fresh, Locked, Holding
  <2>2. CASE /\ To(t, "start")
             /\ runtime' = [runtime EXCEPT ![S(t)] =
                            IF th[t].moving THEN Configured_target(Sel(t)) ELSE Brought(t)]
    <3>1. th'[t].pc = "start" /\ th'[t].undo = th[t].undo BY <1>t, <2>2, ToEffect
    <3>3. Brought(t) \in Version
      <4>1. th[t].target \in 0 .. MaxVersion BY <1>w DEF Work
      <4> QED BY <1>c, <4>1, UpdatesAssumption DEF Brought, Version
    <3>4. Configured_target(Sel(t)) \in Version BY <1>f, <1>c, Targets DEF Sel
    <3>5. runtime'[S(t)] \in Version BY <1>f, <1>c, <2>2, <3>3, <3>4
    <3> QED BY <1>g, <1>y, <2>1, <3>1, <3>5 DEF Kept, Copied
  <2>3. CASE Fault /\ End(t, "failed")
    <3>1. /\ th'[t].pc = "leave" /\ th'[t].result = "failed" /\ th'[t].undo = th[t].undo
      BY <1>t, <2>1, <2>3, EndEffect DEF After, Results
    <3>2. faults' = th'[t].faults + 1 BY <1>d, <1>g, <1>b, <2>3 DEF Fault
    <3> QED BY <1>g, <1>y, <2>1, <3>1, <3>2 DEF Kept, Copied, Failed
  <2> QED BY <1>19, <2>2, <2>3 DEF Setup_project
<1>20. CASE Build_candidate(t)
  BY <1>t, <1>l, <1>h, <1>v, <1>d, <1>g, <1>k, <1>b, <1>r, <1>n, <1>c, <1>y, <1>20,
     ToEffect, EndEffect
     DEF Build_candidate, Kept, Untouched, Copied, Back, Failed, Fresh, Results, After,
         Early, Inside, Locked, Holding
<1>21. CASE Activate_candidate(t)
  <2>1. /\ th[t].pc = "activate" /\ Untouched(t) /\ data[S(t)] >= th[t].kept
        /\ ~th[t].undo /\ data' = data
    BY <1>h, <1>k, <1>21 DEF Activate_candidate, Kept, Fresh, Early, Inside
  <2>2. /\ process'[S(t)] = Down /\ runtime'[S(t)] = Brought(t)
        /\ snapshot'[S(t)] = [runtime |-> runtime[S(t)], data |-> data[S(t)]]
    BY <1>f, <1>c, <1>21 DEF Activate_candidate
  <2>3. Brought(t) \in Version
    <3>1. th[t].target \in 0 .. MaxVersion BY <1>w DEF Work
    <3> QED BY <1>c, <3>1, UpdatesAssumption DEF Brought, Version
  <2>4. Copied(t)' BY <1>g, <2>1, <2>2 DEF Copied, Untouched
  <2>5. CASE To(t, "start")
    <3>1. th'[t].pc = "start" /\ th'[t].undo = th[t].undo BY <1>t, <2>5, ToEffect
    <3> QED BY <1>g, <1>y, <2>1, <2>2, <2>3, <2>4, <3>1 DEF Kept
  <2>6. CASE Fault /\ Roll_back(t)
    <3>1. th'[t].pc = "recover" /\ th'[t].undo = th[t].undo /\ th'[t].result = "failed"
      BY <1>t, <2>6, RollBackEffect
    <3>2. faults' = th'[t].faults + 1 BY <1>d, <1>g, <1>b, <2>6 DEF Fault
    <3> QED BY <1>g, <1>y, <2>1, <2>4, <3>1, <3>2 DEF Kept, Failed
  <2> QED BY <1>21, <2>5, <2>6 DEF Activate_candidate, Roll_back
<1>22. CASE Start_process(t)
  <2>1. /\ th[t].pc = "start" /\ process[S(t)] = Down /\ data[S(t)] >= th[t].kept
        /\ UNCHANGED <<runtime, snapshot, data>>
    BY <1>k, <1>22 DEF Start_process, Kept
  <2>2. \/ ~th[t].undo /\ Copied(t) /\ runtime[S(t)] \in Version
        \/ /\ th[t].undo /\ Failed(t) /\ snapshot[S(t)] = NoSnapshot
           /\ S(t) \notin RuntimeElsewhere => runtime[S(t)] = th[t].had
    BY <1>k, <2>1 DEF Kept
  <2>3. CASE To(t, "health") /\ Sound /\ process' = [process EXCEPT ![S(t)] =
                                              IF @ = Down THEN runtime[S(t)] ELSE @]
    <3>1. /\ th'[t].pc = "health" /\ th'[t].undo = th[t].undo
          /\ th'[t].result = th[t].result
      BY <1>t, <2>3, ToEffect
    <3>2. process'[S(t)] = runtime[S(t)] BY <1>f, <1>c, <2>1, <2>3
    <3> QED BY <1>g, <1>y, <2>1, <2>2, <2>3, <3>1, <3>2 DEF Kept, Copied, Failed, Sound
  <2>4. CASE Fault /\ Not_running(t)
    <3>1. ~th[t].undo /\ Copied(t)
      BY <1>d, <1>b, <2>2, <2>4 DEF Failed, Fault
    <3>2. snapshot[S(t)] # NoSnapshot BY <1>n, <1>r, <3>1 DEF Copied
    <3>3. th'[t].pc = "recover" /\ th'[t].undo = th[t].undo /\ th'[t].result = "failed"
      BY <1>t, <2>4, <3>2, RollBackEffect DEF Not_running
    <3>4. faults' = th'[t].faults + 1 BY <1>d, <1>g, <1>b, <2>4 DEF Fault
    <3> QED BY <1>g, <1>y, <2>1, <3>1, <3>3, <3>4 DEF Kept, Failed, Copied
  <2> QED BY <1>22, <2>3, <2>4 DEF Start_process
<1>23. CASE Wait_for_update_health(t)
  <2>1. /\ th[t].pc = "health" /\ data[S(t)] >= th[t].kept
        /\ UNCHANGED <<runtime, process, data>>
    BY <1>k, <1>23 DEF Wait_for_update_health, Kept
  <2>2. \/ ~th[t].undo /\ Copied(t) /\ process[S(t)] \in Version
        \/ /\ th[t].undo /\ Failed(t) /\ snapshot[S(t)] = NoSnapshot
           /\ S(t) \notin RuntimeElsewhere =>
                runtime[S(t)] = th[t].had /\ process[S(t)] = th[t].had
    BY <1>k, <2>1 DEF Kept
  <2>3. After(t) \in {"leave", "finally"} BY DEF After
  <2>4. CASE End(t, "updated") /\ snapshot' = [snapshot EXCEPT ![S(t)] = NoSnapshot]
    <3>1. /\ th'[t].pc = After(t)
          /\ th'[t].result = IF th[t].undo THEN th[t].result ELSE "updated"
      BY <1>t, <2>4, EndEffect DEF Results
    <3>2. snapshot'[S(t)] = NoSnapshot BY <1>f, <1>c, <2>4
    <3> QED BY <1>g, <1>y, <2>1, <2>2, <2>3, <3>1, <3>2 DEF Kept, Back, Failed
  <2>5. CASE process[S(t)] \notin Version /\ Not_running(t) /\ UNCHANGED snapshot
    <3>1. th[t].undo /\ Failed(t) /\ snapshot[S(t)] = NoSnapshot /\ S(t) \in RuntimeElsewhere
      BY <1>r, <2>2, <2>5
    <3>2. th'[t].pc = After(t) /\ th'[t].result = "failed"
      BY <1>t, <2>5, <3>1, EndEffect DEF Results, Not_running, Failed
    <3> QED BY <1>g, <1>y, <2>1, <2>3, <2>5, <3>1, <3>2 DEF Kept, Back
  <2>6. CASE Fault /\ Not_running(t) /\ UNCHANGED snapshot
    <3>1. ~th[t].undo /\ Copied(t)
      BY <1>d, <1>b, <2>2, <2>6 DEF Failed, Fault
    <3>2. snapshot[S(t)] # NoSnapshot BY <1>n, <1>r, <3>1 DEF Copied
    <3>3. th'[t].pc = "recover" /\ th'[t].undo = th[t].undo /\ th'[t].result = "failed"
      BY <1>t, <2>6, <3>2, RollBackEffect DEF Not_running
    <3>4. faults' = th'[t].faults + 1 BY <1>d, <1>g, <1>b, <2>6 DEF Fault
    <3> QED BY <1>g, <1>y, <2>1, <2>6, <3>1, <3>3, <3>4 DEF Kept, Failed, Copied
  <2> QED BY <1>23, <2>4, <2>5, <2>6 DEF Wait_for_update_health
<1>24. CASE Recover_pending_snapshot(t)
  <2>1. /\ th[t].pc = "recover" /\ Failed(t) /\ ~th[t].undo /\ Copied(t)
        /\ data[S(t)] >= th[t].kept
    BY <1>k, <1>24 DEF Recover_pending_snapshot, Kept
  <2>2. snapshot[S(t)] # NoSnapshot /\ ~Fault
    BY <1>d, <1>b, <1>n, <1>r, <2>1 DEF Copied, Failed, Fault
  <2>3. /\ Sound /\ process' = [process EXCEPT ![S(t)] = Down]
        /\ snapshot' = [snapshot EXCEPT ![S(t)] = NoSnapshot]
        /\ runtime' = [runtime EXCEPT ![S(t)] = IF S(t) \in RuntimeElsewhere THEN @
                                                 ELSE snapshot[S(t)].runtime]
        /\ data' = [data EXCEPT ![S(t)] = IF S(t) \in DataInTarget THEN snapshot[S(t)].data
                                           ELSE @]
        /\ th' = [th EXCEPT ![t].pc = "start", ![t].undo = TRUE]
    BY <1>24, <2>2 DEF Recover_pending_snapshot
  <2>4. /\ process'[S(t)] = Down /\ snapshot'[S(t)] = NoSnapshot
        /\ S(t) \notin RuntimeElsewhere => runtime'[S(t)] = th[t].had
        /\ data'[S(t)] >= th[t].kept
    BY <1>f, <1>c, <2>1, <2>3 DEF Copied
  <2>5. th'[t].pc = "start" /\ th'[t].undo = TRUE /\ th'[t].result = th[t].result
    BY <1>t, <2>3, UndoEffect
  <2> QED BY <1>g, <1>y, <2>1, <2>3, <2>4, <2>5 DEF Kept, Failed, Sound
<1>25. CASE Leave_scheduled(t)
  <2>1. CASE Put_down(t) BY <1>t, <1>z, <2>1, PutDownEffect DEF Return
  <2>2. CASE th[t].result # "updated" /\ snapshot[S(t)] # NoSnapshot
             /\ To(t, "recover") /\ UNCHANGED <<service, faults>>
    <3>1. th[t].pc = "leave" BY <1>25 DEF Leave_scheduled
    <3>2. Failed(t) /\ ~th[t].undo /\ Copied(t) /\ data[S(t)] >= th[t].kept
      BY <1>k, <2>2, <3>1 DEF Kept, Back
    <3>3. th'[t].pc = "recover" /\ th'[t].undo = th[t].undo /\ th'[t].result = th[t].result
      BY <1>t, <2>2, ToEffect
    <3> QED BY <1>g, <1>y, <2>2, <3>2, <3>3 DEF Kept, Failed, Copied
  <2> QED BY <1>25, <2>1, <2>2 DEF Leave_scheduled, bounds
<1>26. CASE Leave_manual(t)
  BY <1>t, <1>l, <1>h, <1>v, <1>d, <1>g, <1>k, <1>b, <1>r, <1>n, <1>c, <1>y, <1>26, ToEffect
     DEF Leave_manual, Kept, Untouched, Copied, Back, Failed, Fresh, Results, After, Early,
         Inside, Locked, Holding
<1>27. CASE Finally_manual(t)
  <2>1. CASE Return(t) BY <1>t, <1>z, <2>1, PutDownEffect DEF Return
  <2>2. CASE th[t].result = "failed" /\ snapshot[S(t)] # NoSnapshot
             /\ To(t, "recover") /\ UNCHANGED <<service, faults>>
    <3>1. th[t].pc = "finally" BY <1>27 DEF Finally_manual
    <3>2. Failed(t) /\ ~th[t].undo /\ Copied(t) /\ data[S(t)] >= th[t].kept
      BY <1>k, <2>2, <3>1 DEF Kept, Back
    <3>3. th'[t].pc = "recover" /\ th'[t].undo = th[t].undo /\ th'[t].result = th[t].result
      BY <1>t, <2>2, ToEffect
    <3> QED BY <1>g, <1>y, <2>2, <3>2, <3>3 DEF Kept, Failed, Copied
  <2> QED BY <1>27, <2>1, <2>2 DEF Finally_manual, bounds
<1>28. CASE Leave_boot(t)
  BY <1>l, <1>v, <1>28 DEF Leave_boot, Place, Updates, Lifecycles
<1> QED BY <1>1, <1>2, <1>3, <1>4, <1>5, <1>6, <1>7, <1>8, <1>9, <1>10, <1>11, <1>12, <1>13,
           <1>14, <1>15, <1>16, <1>17, <1>18, <1>19, <1>20, <1>21, <1>22, <1>23, <1>24,
           <1>25, <1>26, <1>27, <1>28 DEF Step

\* The steps of others leave the service of an update alone.
LEMMA KeptStep ==
  ASSUME Typed, Places, StartedOnce, Sourced, SnapshotUsed, Written, [Next]_vars,
         NEW t \in Threads, Careful(t) => Kept(t), Careful(t)'
  PROVE  Kept(t)'
\* What keeps it is the same service, with a copy that is the same.
<1>0. ASSUME th'[t] = th[t], faults' \in {faults, faults + 1}, completed \subseteq completed',
             S(t) \in Enabled =>
               /\ runtime'[S(t)] = runtime[S(t)] /\ process'[S(t)] = process[S(t)]
               /\ snapshot'[S(t)] = snapshot[S(t)] /\ data'[S(t)] >= data[S(t)]
      PROVE  Kept(t)'
  <2>1. th[t] \in Work BY DEF Typed
  <2>2. /\ faults \in Int /\ th[t].faults \in Int /\ th[t].kept \in Int
    BY <2>1, UpdatesAssumption DEF Typed, Work
  <2>3. faults' <= th[t].faults + 1 /\ faults <= th[t].faults + 1
    BY <1>0, <2>2 DEF Careful
  <2>4. Careful(t) /\ Kept(t) BY <1>0, <2>3 DEF Careful, S
  <2>5. S(t) \in Enabled BY <2>4 DEF Kept, Typed
  <2>6. data[S(t)] \in Int /\ data'[S(t)] \in Int
    <3>1. Typed' /\ Enabled' = Enabled BY TypedStep
    <3> QED BY <2>5, <3>1, UpdatesAssumption DEF Typed
  <2>7. Failed(t) => Failed(t)' BY <1>0, <2>2, <2>3 DEF Failed
  <2>8. /\ th'[t].s = th[t].s /\ data'[S(t)] >= th[t].kept /\ faults' >= th[t].faults
        /\ S(t) \in completed'
    BY <1>0, <2>2, <2>4, <2>5, <2>6 DEF Kept
  <2>9. /\ Untouched(t) => Untouched(t)'
        /\ Copied(t) => Copied(t)'
        /\ Back(t) => Back(t)'
    BY <1>0, <2>5, <2>8 DEF Untouched, Copied, Back, S
  <2> QED BY <1>0, <2>4, <2>5, <2>7, <2>8, <2>9 DEF Kept, S
<1>1. ASSUME NEW u \in Threads, Step(u) PROVE Kept(t)'
  <2>1. CASE u = t /\ Take_admission(t) BY <2>1, KeptTaken
  <2>2. CASE u = t /\ ~Take_admission(t) BY <1>1, <2>2, KeptStepActs
  <2>3. CASE u # t
    <3>1. th'[t] = th[t] /\ faults' \in {faults, faults + 1} /\ completed \subseteq completed'
      <4>1. completed \subseteq completed' BY <1>1, CompletedStep
      <4> QED BY <1>1, <2>3, <4>1, ThreadEffect, ServiceEffect DEF OthersKeep
    <3>2. Careful(t)
      <4>1. faults \in Int /\ th[t].faults \in Int
        BY UpdatesAssumption DEF Typed, Work
      <4> QED BY <3>1, <4>1 DEF Careful, S
    <3>3. S(t) \in completed BY <3>2 DEF Kept
    <3>4. S(u) # S(t) BY <1>1, <2>3, <3>2, <3>3, Aloof
    <3>5. S(t) \in Enabled => data[S(t)] \in Int BY UpdatesAssumption DEF Typed
    <3>6. S(t) \in Enabled => data[S(t)] >= data[S(t)] BY <3>5
    <3> QED BY <1>0, <1>1, <3>1, <3>4, <3>6, ServiceEffect DEF OneService
  <2> QED BY <2>1, <2>2, <2>3
<1>2. ASSUME NEW u \in Threads, NEW s \in Enabled, Begins(u, s) PROVE Kept(t)'
  <2>1. UNCHANGED <<service, completed, faults>> BY <1>2, BeginEffects
  <2>2. th'[t] = th[t]
    <3>1. CASE u = t /\ ~UNCHANGED th
      <4>1. th'[t].pc = "admission" \/ th'[t].why = "boot"
        BY <1>2, <3>1, BeginEffects DEF Fresh_at
      <4> QED BY <4>1 DEF Careful, Updates
    <3> QED BY <1>2, <3>1, BeginEffects DEF Fresh_at, OthersKeep
  <2>3. S(t) \in Enabled => data[S(t)] \in Int BY UpdatesAssumption DEF Typed
  <2>4. S(t) \in Enabled => data[S(t)] >= data[S(t)] BY <2>3
  <2> QED BY <1>0, <2>1, <2>2, <2>4 DEF service
<1>3. CASE Outside
  <2>1. UNCHANGED <<th, runtime, process, snapshot, completed, faults>>
    BY <1>3
       DEF Outside, Save, Publish, Write, Update_schedule, Reschedule_auto_update, vars,
                service, starter, bounds
  <2>2. data' = data \/ \E s \in Enabled : data' = [data EXCEPT ![s] = @ + 1]
    BY <1>3
       DEF Outside, Save, Publish, Write, Update_schedule, Reschedule_auto_update, vars,
                service
  <2>3. S(t) \in Enabled => data[S(t)] \in Int BY UpdatesAssumption DEF Typed
  <2>4. S(t) \in Enabled => data'[S(t)] \in {data[S(t)], data[S(t)] + 1}
    BY <2>2 DEF Typed
  <2>5. S(t) \in Enabled => data'[S(t)] >= data[S(t)] BY <2>3, <2>4
  <2> QED BY <1>0, <2>1, <2>5
<1> QED BY <1>1, <1>2, <1>3, Steps

\* The invariant holds at first.
LEMMA InitHolds == ASSUME Init PROVE IndInv
<1>1. PICK c \in Configured :
        /\ selection = [s \in DOMAIN c |-> c[s].selection] /\ chosen = selection
        /\ auto = [s \in DOMAIN c |-> c[s].auto] /\ overlapped = {}
        /\ admission = Nobody /\ updating = Nobody
        /\ th = [t \in Threads |-> Idle]
        /\ upstream = 1 /\ runtime = [s \in DOMAIN c |-> 1]
        /\ process = [s \in DOMAIN c |-> Down]
        /\ snapshot = [s \in DOMAIN c |-> NoSnapshot]
        /\ data = [s \in DOMAIN c |-> 0] /\ written = data
        /\ jobs = {Api} /\ scheduler = TRUE /\ spawned = {}
        /\ pending = DOMAIN c /\ completed = {}
        /\ saves = 0 /\ requests = 0 /\ faults = 0
  BY DEF Init
<1>2. /\ DOMAIN c \subseteq Services
      /\ \A s \in DOMAIN c : c[s].selection \in Sources /\ c[s].auto \in Modes
  BY UpdatesAssumption
<1>3. Enabled = DOMAIN c BY <1>1 DEF Enabled
<1>4. /\ \A t \in Threads : th[t] = Idle
      /\ \A s \in Enabled : /\ snapshot[s] = NoSnapshot /\ data[s] = 0 /\ written[s] = 0
                            /\ selection[s] = chosen[s]
  BY <1>1, <1>3
<1>5. Typed
  <2>1. th \in [Threads -> Work] BY <1>1, IdleWork
  <2>2. selection \in [Enabled -> Sources] /\ chosen = selection /\ auto \in [Enabled -> Modes]
    BY <1>1, <1>2, <1>3
  <2>3. upstream \in Version /\ 1 \in Content /\ Down \in Process
    BY <1>1, UpdatesAssumption DEF Version, Content, Process
  <2>4. runtime \in [Enabled -> Content] /\ process \in [Enabled -> Process]
        /\ snapshot \in [Enabled -> Snapshots]
    BY <1>1, <1>3, <2>3 DEF Snapshots
  <2>5. 0 \in 0 .. MaxWrites /\ 0 \in 0 .. MaxFaults BY UpdatesAssumption
  <2>6. data \in [Enabled -> 0 .. MaxWrites] BY <1>1, <1>3, <2>5
  <2> QED BY <1>1, <1>2, <1>3, <2>1, <2>2, <2>3, <2>4, <2>5, <2>6 DEF Typed
<1>6. Places
  BY <1>1, <1>4, IdleFacts, UpdatesAssumption
     DEF Places, Place, Locked, Boot_like, Lifecycles, Holding, Inside, Updates
<1>7. StartedOnce BY <1>1, <1>4, IdleFacts DEF StartedOnce, Threads
<1>8. Sourced
  <2>1. AllSettled BY <1>4 DEF AllSettled, Settled
  <2>2. \A t \in Threads : Fresh(t) /\ Returns(t) /\ Looked(t)
    BY <1>1, <1>4, IdleFacts, UpdatesAssumption
       DEF Fresh, Returns, Moving, Early, Inside, Looked
  <2> QED BY <2>1, <2>2 DEF Sourced
<1>9. SnapshotUsed /\ Written
  <2>1. NoSnapshot.data = 0 BY DEF NoSnapshot
  <2> QED BY <1>4, <2>1 DEF SnapshotUsed, Written
<1>10. Protected BY <1>4, IdleFacts DEF Protected, Judged, Careful
<1> QED BY <1>5, <1>6, <1>7, <1>8, <1>9, <1>10 DEF IndInv

\* Every step keeps it.
LEMMA NextPreservesIndInv == ASSUME IndInv, [Next]_vars PROVE IndInv'
<1> USE DEF IndInv
<1>1. Typed' /\ Places' /\ StartedOnce' BY TypedStep, PlacesStep, StartedOnceStep
<1>2. Sourced' /\ SnapshotUsed' /\ Written' BY SourcedStep, SnapshotUsedStep, WrittenStep
<1>3. Protected' BY JudgedStep, KeptStep DEF Protected
<1> QED BY <1>1, <1>2, <1>3

\* So it always holds.
LEMMA Invariance == Spec => []IndInv
<1>1. Init => IndInv BY InitHolds
<1>2. IndInv /\ [Next]_vars => IndInv' BY NextPreservesIndInv
<1> QED BY <1>1, <1>2, PTL DEF Spec

\* Every variable holds what it may, and who is inside an update holds its lock
\* (Update.updating, INFINIDYSK_MIGRATION_ADMISSION_LOCK).
THEOREM UpdatesTypeCorrect == Spec => []TypeOK
<1>1. IndInv => TypeOK
  <2> SUFFICES ASSUME IndInv PROVE TypeOK OBVIOUS
  <2>0. Typed /\ Places /\ StartedOnce BY DEF IndInv
  <2>1. \A t \in Threads :
       /\ S(t) \in Services
       /\ th[t].pc \in Inside => updating = t
       /\ updating = t => th[t].pc \notin {"idle", "admission", "judge", "finally", "auto_update",
                                           "preinstalled"}
       /\ admission = t <=> (t \notin Boots /\ th[t].pc \notin {"idle", "admission"})
    BY <2>0 DEF Typed, Work, S, Places, Locked, Holding
  <2>2. {selection, chosen} \subseteq [Enabled -> Selections]
    BY <2>0 DEF Typed, Sources
  <2>3. Snapshots \subseteq [runtime : Process, data : 0 .. MaxWrites]
    BY UpdatesAssumption DEF Snapshots, NoSnapshot, Process
  <2> QED BY <2>0, <2>1, <2>2, <2>3 DEF TypeOK, Typed, StartedOnce
<1> QED BY <1>1, Invariance, PTL

\* What an override, a prerelease or Emby's newest release changes in the selection
\* lasts as long as the update that holds Update.updating: temporary_source_guard,
\* and update_check_emby_latest's own.
THEOREM UpdatesOverrideIsTemporary == Spec => []OverrideIsTemporary
<1>1. IndInv => OverrideIsTemporary
  <2>1. ASSUME IndInv, NEW s \in Enabled
        PROVE  \/ \E t \in Threads : updating = t /\ S(t) = s
               \/ selection[s] = chosen[s]
               \/ chosen[s].kind = "latest" /\ selection[s].kind = "release"
               \/ /\ s \in overlapped /\ chosen[s].kind \in Released
                  /\ selection[s].kind = "release" \/ Family[s] = "emby"
    BY <2>1 DEF IndInv, Sourced, AllSettled, Settled, Borrows
  <2> QED BY <2>1 DEF OverrideIsTemporary
<1> QED BY <1>1, Invariance, PTL

\* What is installed changes in the thread of an update only past the judgement.
LEMMA RuntimeMoves ==
  ASSUME Typed, Places, NEW t \in Threads, Step(t), th[t].why \in {"scheduled", "update"},
         runtime' # runtime
  PROVE  th[t].pc \notin {"idle", "admission", "judge", "updating", "select", "leave", "finally"}
<1>1. Place(t) BY DEF Places
<1> QED
  BY <1>1
     DEF Step, service, Place, Boot_like, Lifecycles, At, Take_admission,
         Scheduled_update_check,
             Manual_update_install, Return, Stop_service, Start_service, Auto_update,
             Take_updating, Initial_update_check, Start_preinstalled, Configure_or_set_up,
             Select_source, Install_configured_target, Update_check, Record_release,
             Capture_rollback_snapshot, Stop_process, Select_emby_release,
             Setup_release_version, Setup_project, Build_candidate, Activate_candidate,
             Start_process, Wait_for_update_health, Recover_pending_snapshot,
             Leave_scheduled, Leave_manual, Finally_manual, Leave_boot

\* A service its operator has pinned is not moved by an update nobody asked to override
\* the pin: _get_update_block_reason is asked before and after the locks are waited for.
THEOREM UpdatesPinnedNotUpdated == Spec => PinnedNotUpdated
<1>1. ASSUME IndInv, [Next]_vars, NEW t \in Threads, NEW s \in Enabled,
             th[t].s = s, th[t].why \in {"scheduled", "update"}, th'[t] # th[t],
             runtime'[s] # runtime[s], Family[s] # "emby"
      PROVE  ~Get_update_block_reason(chosen[s])
  <2>1. runtime' # runtime /\ th' # th BY <1>1
  <2>2. Typed /\ Places /\ Judged(t) BY <1>1 DEF IndInv, Protected
  <2>3. ASSUME NEW u \in Threads, Step(u) PROVE ~Get_update_block_reason(chosen[s])
    <3>1. u = t BY <1>1, <2>2, <2>3, ThreadEffect DEF OthersKeep
    <3>2. th[t].pc \notin {"idle", "admission", "judge", "updating", "select", "leave", "finally"}
      BY <1>1, <2>1, <2>2, <2>3, <3>1, RuntimeMoves
    <3> QED BY <1>1, <2>2, <3>2 DEF Judged, S
  <2>4. ASSUME NEW u \in Threads, NEW x \in Enabled, Begins(u, x) PROVE FALSE
    BY <2>1, <2>2, <2>4, BeginEffects DEF service
  <2>5. CASE Outside
    BY <2>1, <2>5
       DEF Outside, Save, Publish, Write, Update_schedule, Reschedule_auto_update, vars
  <2> QED BY <1>1, <2>3, <2>4, <2>5, Steps
<1>2. IndInv /\ [Next]_vars =>
        [\A t \in Threads, s \in Enabled :
           (th[t].s = s /\ th[t].why \in {"scheduled", "update"} /\ th'[t] # th[t]
            /\ runtime'[s] # runtime[s] /\ Family[s] # "emby")
           => ~ Get_update_block_reason(chosen[s])]_vars
  BY <1>1
<1> QED BY <1>2, Invariance, PTL DEF Spec, PinnedNotUpdated

\* What is at the end of an update depends on nothing that happens there.
LEMMA UpdateEnds ==
  ASSUME Typed, Places, NEW t \in Threads, Step(t), th'[t].pc = "idle",
         th[t].why \in Updates \cup {"scheduled"}
  PROVE  /\ UNCHANGED service
         /\ th[t].pc \in {"judge", "leave", "finally"}
         /\ th[t].result = "failed" /\ th[t].pc # "judge" => snapshot[S(t)] = NoSnapshot
<1> USE DEF At
<1>t. Threaded BY DEF Typed, Threaded
<1>w. th[t] \in Work BY <1>t DEF Threaded
<1>p. th[t].pc # "idle" => S(t) \in Enabled BY DEF Places, Purpose
<1>l. Place(t) /\ ~Boot_like(t) BY DEF Places, Boot_like, Updates, Lifecycles
<1>1. CASE Take_admission(t)
  BY <1>t, <1>l, <1>1, AdmissionActs
     DEF Take_admission, Same, Results, After
<1>2. CASE Scheduled_update_check(t)
  BY <1>t, <1>l, <1>2, ToEffect, PutDownEffect
     DEF Scheduled_update_check, Return, Same, Results, After
<1>3. CASE Manual_update_install(t)
  BY <1>t, <1>l, <1>3, JudgeActs, PutDownEffect
     DEF Manual_update_install, Return, Same, Results, After
<1>4. CASE Stop_service(t) BY <1>l, <1>4 DEF Stop_service, Place, Updates, Lifecycles
<1>5. CASE Start_service(t) BY <1>l, <1>5 DEF Start_service, Place, Updates, Lifecycles
<1>6. CASE Auto_update(t) BY <1>l, <1>6 DEF Auto_update, Place, Updates, Lifecycles
<1>7. CASE Take_updating(t)
  BY <1>t, <1>l, <1>7, ToEffect
     DEF Take_updating, Same, Results, After
<1>8. CASE Initial_update_check(t)
  BY <1>l, <1>8 DEF Initial_update_check, Place, Updates, Lifecycles
<1>9. CASE Start_preinstalled(t)
  BY <1>l, <1>9 DEF Start_preinstalled, Place, Updates, Lifecycles
<1>10. CASE Configure_or_set_up(t)
  BY <1>l, <1>10 DEF Configure_or_set_up, Place, Updates, Lifecycles
<1>11. CASE Select_source(t)
  BY <1>t, <1>l, <1>11, SelectActs
     DEF Select_source, Same, Results, After
<1>12. CASE Install_configured_target(t)
  BY <1>t, <1>l, <1>12, ConfiguredActs
     DEF Install_configured_target, Same, Results, After
<1>13. CASE Update_check(t)
  BY <1>t, <1>l, <1>13, CheckActs
     DEF Update_check, Same, Results, After
<1>14. CASE Record_release(t)
  BY <1>t, <1>l, <1>14, RecordActs
     DEF Record_release, Same, Results, After
<1>15. CASE Capture_rollback_snapshot(t)
  BY <1>t, <1>l, <1>15, ToEffect, EndEffect
     DEF Capture_rollback_snapshot, Same, Results, After
<1>16. CASE Stop_process(t)
  BY <1>t, <1>l, <1>16, ToEffect
     DEF Stop_process, Same, Results, After
<1>17. CASE Select_emby_release(t)
  BY <1>t, <1>l, <1>17, EmbyActs
     DEF Select_emby_release, Same, Results, After
<1>18. CASE Setup_release_version(t)
  BY <1>t, <1>l, <1>18, ToEffect, EndEffect
     DEF Setup_release_version, Same, Results, After
<1>19. CASE Setup_project(t)
  BY <1>t, <1>l, <1>19, ToEffect, EndEffect
     DEF Setup_project, Same, Results, After
<1>20. CASE Build_candidate(t)
  BY <1>t, <1>l, <1>20, ToEffect, EndEffect
     DEF Build_candidate, Same, Results, After
<1>21. CASE Activate_candidate(t)
  BY <1>t, <1>l, <1>21, ToEffect, RollBackEffect
     DEF Activate_candidate, Roll_back, Same, Results, After
<1>22. CASE Start_process(t)
  BY <1>t, <1>l, <1>22, ToEffect, EndEffect, RollBackEffect
     DEF Start_process, Not_running, Same, Results, After
<1>23. CASE Wait_for_update_health(t)
  BY <1>t, <1>l, <1>23, EndEffect, RollBackEffect
     DEF Wait_for_update_health, Not_running, Same, Results, After
<1>24. CASE Recover_pending_snapshot(t)
  BY <1>t, <1>l, <1>24, RecoverActs
     DEF Recover_pending_snapshot, Same, Results, After
<1>25. CASE Leave_scheduled(t)
  BY <1>t, <1>l, <1>25, ToEffect, PutDownEffect
     DEF Leave_scheduled, Same, Results, After
<1>26. CASE Leave_manual(t)
  BY <1>t, <1>l, <1>26, ToEffect
     DEF Leave_manual, Same, Results, After
<1>27. CASE Finally_manual(t)
  BY <1>t, <1>l, <1>27, ToEffect, PutDownEffect
     DEF Finally_manual, Return, Same, Results, After
<1>28. CASE Leave_boot(t) BY <1>l, <1>28 DEF Leave_boot, Place, Updates, Lifecycles
<1> QED BY <1>1, <1>2, <1>3, <1>4, <1>5, <1>6, <1>7, <1>8, <1>9, <1>10, <1>11, <1>12, <1>13,
           <1>14, <1>15, <1>16, <1>17, <1>18, <1>19, <1>20, <1>21, <1>22, <1>23, <1>24,
           <1>25, <1>26, <1>27, <1>28 DEF Step

\* An update of a running, started service that fails once leaves it running on what
\* was installed before, with what it has written (_finalize_runtime_snapshot).
THEOREM UpdatesFailedUpdateKeepsService == Spec => FailedUpdateKeepsService
<1>1. ASSUME IndInv, [Next]_vars, NEW t \in Threads,
             th[t].why \in Updates \cup {"scheduled"}, th[t].result = "failed",
             th'[t].pc = "idle", th[t].calm, {th[t].was, th[t].had} \subseteq Version,
             S(t) \notin Unprotected, faults <= th[t].faults + 1
      PROVE  /\ S(t) \notin RuntimeElsewhere
                => runtime'[S(t)] = th[t].had /\ process'[S(t)] \in {th[t].was, th[t].had}
             /\ data'[S(t)] >= IF S(t) \in DataInTarget THEN th[t].kept ELSE written'[S(t)]
  <2>1. /\ Typed /\ Places /\ Sourced /\ Written /\ (Careful(t) => Kept(t))
        /\ th[t].pc = "idle" => th[t].result = "none"
    BY <1>1 DEF IndInv, Protected, Sourced, Fresh
  <2>2. Step(t) /\ th[t].pc # "idle"
    <3>1. th[t].pc # "idle" BY <1>1, <2>1
    <3>2. th'[t] # th[t] BY <1>1, <3>1
    <3>3. ASSUME NEW u \in Threads, Step(u) PROVE u = t
      BY <2>1, <3>2, <3>3, ThreadEffect DEF OthersKeep
    <3>4. ASSUME NEW u \in Threads, NEW x \in Enabled, Begins(u, x) PROVE FALSE
      BY <2>1, <3>1, <3>2, <3>4, BeginEffects DEF Fresh_at, OthersKeep
    <3>5. ~Outside
      BY <3>2
         DEF Outside, Save, Publish, Write, Update_schedule, Reschedule_auto_update, vars
    <3> QED BY <1>1, <3>1, <3>3, <3>4, <3>5, Steps
  <2>3. /\ UNCHANGED service /\ th[t].pc \in {"judge", "leave", "finally"}
        /\ th[t].pc # "judge" => snapshot[S(t)] = NoSnapshot
    BY <1>1, <2>1, <2>2, UpdateEnds
  <2>4. Kept(t) BY <1>1, <2>1, <2>3 DEF Careful
  <2>5. S(t) \in Enabled /\ Down \notin Version
    BY <2>1, <2>2, ServiceEffect, UpdatesAssumption
  <2>6. data[S(t)] >= IF S(t) \in DataInTarget THEN th[t].kept ELSE written[S(t)]
    <3>1. data[S(t)] \in Int BY <2>1, <2>5, UpdatesAssumption DEF Typed
    <3> QED BY <2>1, <2>4, <2>5, <3>1 DEF Kept, Written
  <2>7. S(t) \notin RuntimeElsewhere =>
          runtime[S(t)] = th[t].had /\ process[S(t)] \in {th[t].was, th[t].had}
    <3>1. CASE th[t].pc = "judge" BY <2>4, <3>1 DEF Kept, Untouched
    <3>2. CASE th[t].pc # "judge"
      <4>1. ~Copied(t) BY <1>1, <2>3, <2>5, <3>2 DEF Copied, NoSnapshot
      <4> QED BY <1>1, <2>3, <2>4, <3>2, <4>1 DEF Kept, Back
    <3> QED BY <3>1, <3>2
  <2> QED BY <2>3, <2>6, <2>7 DEF service
<1>2. IndInv /\ [Next]_vars =>
        [\A t \in Threads :
           LET s == S(t) IN
           (/\ th[t].why \in Updates \cup {"scheduled"} /\ th[t].result = "failed"
            /\ th'[t].pc = "idle" /\ th[t].calm /\ {th[t].was, th[t].had} \subseteq Version
            /\ s \notin Unprotected /\ faults <= th[t].faults + 1)
           => /\ s \notin RuntimeElsewhere
                 => runtime'[s] = th[t].had /\ process'[s] \in {th[t].was, th[t].had}
              /\ data'[s] >= IF s \in DataInTarget THEN th[t].kept ELSE written'[s]]_vars
  BY <1>1
<1> QED BY <1>2, Invariance, PTL DEF Spec, FailedUpdateKeepsService

=============================================================================
