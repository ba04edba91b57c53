----------------------- MODULE MediaProtection_proofs -----------------------
(* Theorems of MediaProtection for every number of storage services, media  *)
(* servers, incidents and threads: type correctness, that protection rests   *)
(* during a namespace migration, and that a recovery waits for the operation *)
(* its incident protects.                                                   *)
EXTENDS MediaProtection, TLAPS

-----------------------------------------------------------------------------
(* The inductive invariant.                                                *)

OperationPCs == {"operate", "start_again", "complete"}

\* Who works on media servers holds the admission lock, a request holds it to its
\* end, and while a migration is active nobody does.
Owned ==
  /\ \A t \in Threads : pc[t] \in ProtectPCs => lock = t
  /\ \A t \in ApiThreads : pc[t] \in OperationPCs => lock = t
  /\ Blocking => lock = NoThread

\* What a thread carries at its control point.
Located ==
  /\ \A t \in Threads :
       pc[t] \in {"record", "stop", "idle_mark", "restore"} => med[t] \in Media
  /\ \A t \in Threads :
       pc[t] \in BeginPCs \cup OperationPCs \cup {"report"} => tgt[t] \in Stores

\* The incident of an operation is that operation's alone and waits for it; the
\* monitor only ever deals with one that does not wait.
OnHold ==
  /\ \A t \in Planners : pc[t] # "idle" /\ inc[t] # NoId =>
       incidents[inc[t]].status = "active" /\ incidents[inc[t]].awaiting
  /\ \A t, u \in Planners : pc[t] # "idle" /\ inc[t] # NoId /\ inc[u] = inc[t] => t = u
  /\ \A t \in Planners : pc[t] = "idle" => inc[t] = NoId
  /\ \A t \in Threads : pc[t] = "report" => t \in OutageThreads
  /\ pc[Monitor] # "idle" =>
       /\ inc[Monitor] \in Ids /\ ~incidents[inc[Monitor]].awaiting
       /\ incidents[inc[Monitor]].status # "none"

\* A job at work has found every incident recovered.
Settled ==
  migration = "working" => \A i \in Ids : incidents[i].status \in {"none", "recovered"}

IndInv == TypeOK /\ Owned /\ Located /\ OnHold /\ Settled

-----------------------------------------------------------------------------
(* One lemma for each part of the invariant.                               *)

\* The control points, one by one.
LEMMA Points ==
  /\ PCs = {"idle", "report", "operate", "start_again", "complete", "idle_stop",
            "ready", "recover", "guard", "record", "stop", "revive", "restore",
            "settle", "idle_mark"}
  /\ ProtectPCs = {"guard", "record", "stop", "revive", "restore", "settle",
                   "idle_mark"}
  /\ BeginPCs = {"guard", "record", "stop"}
  BY DEF PCs, ProtectPCs, BeginPCs, RecoverPCs

\* The kinds of threads.
LEMMA Kinds ==
  /\ \A t \in Planners \cup OutageThreads : t \in Threads /\ t # Monitor /\ t # NoThread
  /\ \A t \in ApiThreads : t \in Planners
  /\ \A t \in Planners : t \notin OutageThreads
  /\ Monitor \in Threads /\ Monitor # NoThread /\ Monitor \notin Planners
  /\ NoThread \notin Threads
  BY MediaAssumption DEF Planners, Threads

\* Tokens are numbers, and the lack of one is another.
LEMMA Tokens ==
  NoId \notin Ids /\ 0 .. MaxIncidents = Ids \cup {NoId}
  BY MediaAssumption DEF Ids, NoId

\* What the fields of an incident hold.
LEMMA Fields ==
  ASSUME NEW r \in Incident
  PROVE  /\ r.target \in Stores \cup {NoStore} /\ r.status \in Statuses
         /\ r.servers \in SUBSET Media /\ r.stopped \in SUBSET Media
         /\ r.planned \in BOOLEAN /\ r.awaiting \in BOOLEAN
  BY DEF Incident

\* A media_servers entry is added to an incident.
LEMMA EntryTyped ==
  ASSUME NEW r \in Incident, NEW m \in Media, NEW guard, NEW stops \in BOOLEAN
  PROVE  WithEntry(r, m, guard, stops) \in Incident
  BY DEF Incident, WithEntry

\* _load leaves an incident.
LEMMA LoadedTyped == ASSUME NEW r \in Incident PROVE Loaded(r) \in Incident
  BY DEF Incident, Loaded, Statuses

\* A new incident is one.
LEMMA NewTyped ==
  ASSUME NEW s \in Stores, NEW p \in BOOLEAN
  PROVE  NewIncident(s, p) \in Incident
  BY DEF Incident, NewIncident, Blank, Statuses

\* The incidents keep their type under the updates the code makes.
LEMMA Edits ==
  ASSUME NEW f \in [Ids -> Incident], NEW i
  PROVE  /\ \A x \in Statuses : [f EXCEPT ![i].status = x] \in [Ids -> Incident]
         /\ \A m \in Media :
              [f EXCEPT ![i].stopped = @ \cup {m}] \in [Ids -> Incident]
         /\ \A x \in Statuses, y \in BOOLEAN :
              [f EXCEPT ![i] = [@ EXCEPT !.awaiting = y, !.status = x]]
                \in [Ids -> Incident]
         /\ \A m \in Media, guard \in {"none", "taken", "changed"}, stops \in BOOLEAN :
              [f EXCEPT ![i] = WithEntry(@, m, guard, stops)] \in [Ids -> Incident]
<1>1. ASSUME NEW x \in Statuses PROVE [f EXCEPT ![i].status = x] \in [Ids -> Incident]
  BY DEF Incident
<1>2. ASSUME NEW m \in Media
      PROVE  [f EXCEPT ![i].stopped = @ \cup {m}] \in [Ids -> Incident]
  BY DEF Incident
<1>3. ASSUME NEW x \in Statuses, NEW y \in BOOLEAN
      PROVE  [f EXCEPT ![i] = [@ EXCEPT !.awaiting = y, !.status = x]]
               \in [Ids -> Incident]
  BY DEF Incident
<1>4. ASSUME NEW m \in Media, NEW guard \in {"none", "taken", "changed"},
             NEW stops \in BOOLEAN
      PROVE  [f EXCEPT ![i] = WithEntry(@, m, guard, stops)] \in [Ids -> Incident]
  BY EntryTyped
<1> QED BY <1>1, <1>2, <1>3, <1>4

\* Opening an incident keeps the types.
LEMMA OpenedTyped ==
  ASSUME TypeOK, NEW t \in Threads, NEW s \in Stores, NEW p \in BOOLEAN,
         OpenIncident(t, s, p)
  PROVE  /\ incidents' \in [Ids -> Incident] /\ lock' \in Threads
         /\ pc' \in [Threads -> PCs] /\ inc' \in [Threads -> 0 .. MaxIncidents]
         /\ tgt' \in [Threads -> Stores \cup {NoStore}]
         /\ todo' \in [Threads -> SUBSET Media]
         /\ UNCHANGED <<med, snap, failed>>
<1>1. PICK i \in Ids : Opens(t, s, p, i) BY DEF OpenIncident
<1>2. incidents' \in [Ids -> Incident] BY <1>1, NewTyped DEF Opens, TypeOK
<1>3. lock' \in Threads BY <1>1 DEF Opens
<1>4. pc' \in [Threads -> PCs] BY <1>1, Points DEF Opens, TypeOK
<1>5. inc' \in [Threads -> 0 .. MaxIncidents] BY <1>1, Tokens DEF Opens, TypeOK
<1>6. tgt' \in [Threads -> Stores \cup {NoStore}] BY <1>1 DEF Opens, TypeOK
<1>7. todo' \in [Threads -> SUBSET Media]
  <2>1. Affected(s) \in SUBSET Media BY MediaAssumption DEF Affected
  <2> QED BY <1>1, <2>1 DEF Opens, TypeOK
<1>8. UNCHANGED <<med, snap, failed>> BY <1>1 DEF Opens
<1> QED BY <1>2, <1>3, <1>4, <1>5, <1>6, <1>7, <1>8

\* A thread that returns has blank locals.
LEMMA ReturnTyped ==
  ASSUME TypeOK, NEW t \in Threads, Return(t)
  PROVE  /\ pc' \in [Threads -> PCs] /\ inc' \in [Threads -> 0 .. MaxIncidents]
         /\ tgt' \in [Threads -> Stores \cup {NoStore}]
         /\ todo' \in [Threads -> SUBSET Media]
         /\ med' \in [Threads -> Media \cup {NoMedia}]
         /\ snap' \in [Threads -> {"none", "taken", "changed"}]
  BY Points, Tokens DEF Return, TypeOK

\* Types are kept.
LEMMA TypeStep == IndInv /\ [Next]_vars => TypeOK'
<1> SUFFICES ASSUME IndInv, [Next]_vars PROVE TypeOK'
  OBVIOUS
<1> USE MediaAssumption, Points, Kinds, Tokens DEF IndInv
<1>1. ASSUME NEW t \in Planners, NEW s \in Stores, Plan(t, s)
       PROVE  TypeOK'
  <2>1. CASE OpenIncident(t, s, TRUE)
    BY <1>1, <2>1, OpenedTyped DEF Plan, TypeOK, world, counts
  <2>2. CASE ~OpenIncident(t, s, TRUE)
    <3>1. /\ pc' = [pc EXCEPT ![t] = "operate"] /\ tgt' = [tgt EXCEPT ![t] = s]
          /\ inc' = [inc EXCEPT ![t] = NoId]
          /\ lock' = IF t \in ApiThreads THEN t ELSE lock
          /\ UNCHANGED <<incidents, todo, med, snap, failed>>
      BY <1>1, <2>2 DEF Plan
    <3>2. /\ lock = NoThread /\ ~Blocking
          /\ UNCHANGED <<world, migration, migrations, counts>>
      BY <1>1 DEF Plan, LockFree
    <3> QED BY <3>1, <3>2 DEF TypeOK, world, counts
  <2> QED BY <2>1, <2>2
<1>2. ASSUME NEW t \in Planners \cup OutageThreads, Report(t)
       PROVE  TypeOK'
  <2>1. tgt[t] \in Stores BY <1>2 DEF Report, Located, TypeOK
  <2>2. CASE OpenIncident(t, tgt[t], FALSE)
    <3>1. out' \subseteq Stores BY <1>2, <2>1, <2>2 DEF Report, TypeOK
    <3>2. UNCHANGED <<up, running, guarded, held, migration, migrations, counts>>
      BY <1>2 DEF Report
    <3> QED BY <2>1, <2>2, <3>1, <3>2, OpenedTyped DEF TypeOK, counts
  <2>3. CASE ~OpenIncident(t, tgt[t], FALSE)
    <3>1. Return(t) /\ UNCHANGED <<incidents, lock, failed>> BY <1>2, <2>3 DEF Report
    <3>2. out' \subseteq Stores BY <1>2, <2>1, <2>3 DEF Report, TypeOK
    <3>3. UNCHANGED <<up, running, guarded, held, migration, migrations, counts>>
      BY <1>2 DEF Report
    <3> QED BY <3>1, <3>2, <3>3, ReturnTyped DEF TypeOK, counts
  <2> QED BY <2>2, <2>3
<1>3. ASSUME NEW t \in Planners \cup OutageThreads, Guard(t)
       PROVE  TypeOK'
  BY <1>3 DEF Guard, TypeOK, world, admit, threads, counts
<1>4. ASSUME NEW t \in Planners \cup OutageThreads, Record(t)
       PROVE  TypeOK'
  <2>1. PICK stops \in BOOLEAN :
          incidents' = [incidents EXCEPT
                          ![inc[t]] = WithEntry(incidents[inc[t]], med[t], snap[t], stops)]
    BY <1>4 DEF Record
  <2>2. med[t] \in Media BY <1>4 DEF Record, Located
  <2>3. inc[t] \in Ids => WithEntry(incidents[inc[t]], med[t], snap[t], stops) \in Incident
    BY <2>2, EntryTyped DEF TypeOK
  <2>4. incidents' \in [Ids -> Incident] BY <2>1, <2>3 DEF TypeOK
  <2> QED BY <1>4, <2>4 DEF Record, TypeOK, world, admit, counts
<1>5. ASSUME NEW t \in Planners \cup OutageThreads, StopServer(t)
       PROVE  TypeOK'
  BY <1>5 DEF StopServer, Return, TypeOK, world, admit, threads, counts
<1>6. ASSUME NEW t \in Planners, Operate(t)
       PROVE  TypeOK'
  BY <1>6 DEF Operate, TypeOK, Located, OperationPCs, world, admit, threads, counts
<1>7. ASSUME NEW t \in Planners, StartAgain(t)
       PROVE  TypeOK'
  BY <1>7 DEF StartAgain, TypeOK, Located, OperationPCs, world, admit, threads, counts
<1>8. ASSUME NEW t \in Planners, Complete(t)
       PROVE  TypeOK'
  <2> "recovered" \in Statuses /\ "recovery_failed" \in Statuses
      /\ "waiting_for_recovery" \in Statuses
    BY DEF Statuses
  <2>1. incidents' \in [Ids -> Incident]
    BY <1>8, Edits DEF Complete, TypeOK
  <2> QED BY <1>8, <2>1 DEF Complete, Return, TypeOK, world, admit, threads, counts
<1>9. ASSUME NEW i \in Ids, Look(i)
       PROVE  TypeOK'
  BY <1>9, Fields DEF Look, Watched, TypeOK, world, admit, threads, counts
<1>10. CASE IdleStop
  BY <1>10 DEF IdleStop, TypeOK, world, admit, threads, counts
<1>11. CASE IdleMark
  <2>1. incidents' \in [Ids -> Incident]
    BY <1>11, Edits DEF IdleMark, TypeOK, Located
  <2> QED BY <1>11, <2>1 DEF IdleMark, TypeOK, world, admit, threads, counts
<1>12. CASE Stable
  BY <1>12 DEF Stable, TypeOK, world, admit, threads, counts
<1>13. CASE NotYet
  BY <1>13 DEF NotYet, Return, TypeOK, world, admit, threads, counts
<1>14. CASE Recover
  <2>1. UNCHANGED <<world, migration, migrations, counts>> BY <1>14 DEF Recover
  <2>2. CASE Blocking
    <3>1. Return(Monitor) /\ UNCHANGED <<incidents, lock, failed>>
      BY <1>14, <2>2 DEF Recover, RecoveryRefused
    <3> QED BY <2>1, <3>1, ReturnTyped DEF TypeOK, world, counts
  <2>3. CASE ~Blocking
    <3>1. /\ incidents' = [incidents EXCEPT ![inc[Monitor]].status = "recovering"]
          /\ todo' = [todo EXCEPT ![Monitor] = incidents[inc[Monitor]].servers]
          /\ lock' = Monitor /\ pc' = [pc EXCEPT ![Monitor] = "revive"]
          /\ UNCHANGED <<inc, tgt, med, snap, failed>>
      BY <1>14, <2>3 DEF Recover, RecoveryRefused
    <3>2. inc[Monitor] \in Ids BY <1>14 DEF Recover, OnHold
    <3>3. incidents' \in [Ids -> Incident] BY <3>1, <3>2, SMTT(30) DEF TypeOK, Incident, Statuses
    <3>4. todo' \in [Threads -> SUBSET Media] BY <3>1, <3>2, Fields DEF TypeOK
    <3> QED BY <2>1, <3>1, <3>3, <3>4 DEF TypeOK, world, counts
  <2> QED BY <2>2, <2>3
<1>15. CASE Revive
  <2>1. UNCHANGED <<up, out, guarded, incidents, lock, migration, inc, tgt,
                  snap, crashes, outages, migrations>>
    BY <1>15 DEF Revive, world, admit, threads, counts
  <2>2. running' \subseteq Media
    BY <1>15 DEF Revive, TypeOK
  <2>3. held' \subseteq Media
    BY <1>15 DEF Revive, TypeOK
  <2>4. pc' \in [Threads -> PCs]
    BY <1>15 DEF Revive, TypeOK
  <2>5. todo' \in [Threads -> SUBSET Media]
    BY <1>15 DEF Revive, TypeOK
  <2>6. med' \in [Threads -> Media \cup {NoMedia}]
    BY <1>15 DEF Revive, TypeOK
  <2>7. failed' \in BOOLEAN
    BY <1>15 DEF Revive, TypeOK
  <2>8. faults' \in 0 .. MaxFaults
    BY <1>15 DEF Revive, TypeOK
  <2> QED BY <2>1, <2>2, <2>3, <2>4, <2>5, <2>6, <2>7, <2>8 DEF TypeOK
<1>16. CASE RestoreGuard
  <2>1. UNCHANGED <<up, out, running, held, incidents, lock, migration, inc, tgt,
                  todo, med, snap, crashes, outages, migrations>>
    BY <1>16 DEF RestoreGuard, world, admit, threads, counts
  <2>2. guarded' \subseteq Media
    BY <1>16 DEF RestoreGuard, TypeOK
  <2>3. pc' \in [Threads -> PCs]
    BY <1>16 DEF RestoreGuard, TypeOK
  <2>4. failed' \in BOOLEAN
    BY <1>16 DEF RestoreGuard, TypeOK
  <2>5. faults' \in 0 .. MaxFaults
    BY <1>16 DEF RestoreGuard, TypeOK
  <2> QED BY <2>1, <2>2, <2>3, <2>4, <2>5 DEF TypeOK
<1>17. CASE Settle
  <2> "recovered" \in Statuses /\ "recovery_failed" \in Statuses
      /\ "waiting_for_recovery" \in Statuses
    BY DEF Statuses
  <2>1. incidents' \in [Ids -> Incident]
    BY <1>17, Edits DEF Settle, TypeOK
  <2> QED BY <1>17, <2>1 DEF Settle, Return, TypeOK, world, admit, threads, counts
<1>18. ASSUME NEW s \in Stores, Outage(s)
       PROVE  TypeOK'
  BY <1>18 DEF Outage, TypeOK, world, admit, threads, counts
<1>19. ASSUME NEW s \in Stores, Repair(s)
       PROVE  TypeOK'
  BY <1>19 DEF Repair, TypeOK, world, admit, threads, counts
<1>20. ASSUME NEW m \in Media, MediaStart(m)
       PROVE  TypeOK'
  BY <1>20 DEF MediaStart, TypeOK, world, admit, threads, counts
<1>21. ASSUME NEW m \in Media, MediaStop(m)
       PROVE  TypeOK'
  BY <1>21 DEF MediaStop, TypeOK, world, admit, threads, counts
<1>22. CASE StartMigration
  BY <1>22 DEF StartMigration, TypeOK, Jobs, world, admit, threads, counts
<1>23. CASE RepeatPreflight
  BY <1>23 DEF RepeatPreflight, TypeOK, Jobs, world, admit, threads, counts
<1>24. CASE EndMigration
  BY <1>24 DEF EndMigration, TypeOK, Jobs, world, admit, threads, counts
<1>25. CASE Crash
  <2>1. UNCHANGED <<guarded, faults, outages, migrations>>
    BY <1>25 DEF Crash, world, admit, threads, counts
  <2>2. migration' \in Jobs
    BY <1>25 DEF Crash, Jobs, TypeOK
  <2>3. up' \subseteq Stores
    BY <1>25 DEF Crash, TypeOK
  <2>4. out' \subseteq Stores
    BY <1>25 DEF Crash, TypeOK
  <2>5. running' \subseteq Media
    BY <1>25 DEF Crash, TypeOK
  <2>6. held' \subseteq Media
    BY <1>25 DEF Crash, TypeOK
  <2>7. incidents' \in [Ids -> Incident]
    BY <1>25, LoadedTyped DEF Crash, TypeOK
  <2>8. lock' \in Threads \cup {NoThread}
    BY <1>25 DEF Crash, TypeOK
  <2>9. pc' \in [Threads -> PCs]
    BY <1>25 DEF Crash, TypeOK
  <2>10. inc' \in [Threads -> 0 .. MaxIncidents]
    BY <1>25 DEF Crash, TypeOK
  <2>11. tgt' \in [Threads -> Stores \cup {NoStore}]
    BY <1>25 DEF Crash, TypeOK
  <2>12. todo' \in [Threads -> SUBSET Media]
    BY <1>25 DEF Crash, TypeOK
  <2>13. med' \in [Threads -> Media \cup {NoMedia}]
    BY <1>25 DEF Crash, TypeOK
  <2>14. snap' \in [Threads -> {"none", "taken", "changed"}]
    BY <1>25 DEF Crash, TypeOK
  <2>15. failed' \in BOOLEAN
    BY <1>25 DEF Crash, TypeOK
  <2>16. crashes' \in 0 .. MaxCrashes
    BY <1>25 DEF Crash, TypeOK
  <2> QED BY <2>1, <2>2, <2>3, <2>4, <2>5, <2>6, <2>7, <2>8, <2>9, <2>10, <2>11, <2>12,
    <2>13, <2>14, <2>15, <2>16 DEF TypeOK
<1>26. CASE UNCHANGED vars
  BY <1>26 DEF vars, TypeOK, world, admit, threads, counts
<1> QED BY <1>1, <1>2, <1>3, <1>4, <1>5, <1>6, <1>7, <1>8, <1>9, <1>10, <1>11, <1>12,
  <1>13, <1>14, <1>15, <1>16, <1>17, <1>18, <1>19, <1>20, <1>21, <1>22, <1>23, <1>24,
    <1>25, <1>26
  DEF Next, Begin, Action, MonitorStep, Environment

\* The lock is where it has to be.
LEMMA OwnedStep == IndInv /\ [Next]_vars => Owned'
<1> SUFFICES ASSUME IndInv, [Next]_vars PROVE Owned'
  OBVIOUS
<1> USE Points, Kinds DEF IndInv
<1>1. ASSUME NEW t \in Planners, NEW s \in Stores, Plan(t, s)
       PROVE  Owned'
  <2>1. CASE OpenIncident(t, s, TRUE)
    BY <1>1, <2>1 DEF Plan, OpenIncident, Opens, Owned, Blocking, LockFree,
      OperationPCs, TypeOK
  <2>2. CASE ~OpenIncident(t, s, TRUE)
    <3>1. /\ pc' = [pc EXCEPT ![t] = "operate"] /\ tgt' = [tgt EXCEPT ![t] = s]
          /\ inc' = [inc EXCEPT ![t] = NoId]
          /\ lock' = IF t \in ApiThreads THEN t ELSE lock
          /\ UNCHANGED <<incidents, todo, med, snap, failed>>
      BY <1>1, <2>2 DEF Plan
    <3>2. lock = NoThread /\ ~Blocking /\ UNCHANGED migration
      BY <1>1 DEF Plan, LockFree
    <3>3. lock' = t \/ (t \notin ApiThreads /\ lock' = NoThread) BY <3>1, <3>2
    <3> QED BY <3>1, <3>2, <3>3 DEF Owned, Blocking, OperationPCs, TypeOK
  <2> QED BY <2>1, <2>2
<1>2. ASSUME NEW t \in Planners \cup OutageThreads, Report(t)
       PROVE  Owned'
  <2>1. CASE OpenIncident(t, tgt[t], FALSE)
    <3>1. pc' = [pc EXCEPT ![t] = "guard"] /\ lock' = t
      BY <2>1 DEF OpenIncident, Opens
    <3>2. lock = NoThread /\ ~Blocking /\ UNCHANGED migration
      BY <1>2, <2>1 DEF Report, LockFree, OpenIncident, Opens
    <3> QED BY <3>1, <3>2 DEF Owned, Blocking, OperationPCs, TypeOK
  <2>2. CASE ~OpenIncident(t, tgt[t], FALSE)
    BY <1>2, <2>2, ZenonT(60)
    DEF Report, Return, Owned, Blocking, LockFree, OperationPCs, TypeOK
  <2> QED BY <2>1, <2>2
<1>3. ASSUME NEW t \in Planners \cup OutageThreads, Guard(t)
       PROVE  Owned'
  BY <1>3 DEF Guard, Owned, TypeOK, Blocking, LockFree, OperationPCs, world, admit,
    threads, counts
<1>4. ASSUME NEW t \in Planners \cup OutageThreads, Record(t)
       PROVE  Owned'
  BY <1>4 DEF Record, Owned, TypeOK, Blocking, LockFree, OperationPCs, world, admit,
    threads, counts
<1>5. ASSUME NEW t \in Planners \cup OutageThreads, StopServer(t)
       PROVE  Owned'
  BY <1>5 DEF StopServer, Return, Owned, TypeOK, Blocking, LockFree, OperationPCs,
    world, admit, threads, counts
<1>6. ASSUME NEW t \in Planners, Operate(t)
       PROVE  Owned'
  BY <1>6 DEF Operate, Owned, TypeOK, Blocking, LockFree, OperationPCs, world, admit,
    threads, counts
<1>7. ASSUME NEW t \in Planners, StartAgain(t)
       PROVE  Owned'
  BY <1>7 DEF StartAgain, Owned, TypeOK, Blocking, LockFree, OperationPCs, world,
    admit, threads, counts
<1>8. ASSUME NEW t \in Planners, Complete(t)
       PROVE  Owned'
  BY <1>8 DEF Complete, Return, Owned, TypeOK, Blocking, LockFree, OperationPCs, world,
    admit, threads, counts
<1>9. ASSUME NEW i \in Ids, Look(i)
       PROVE  Owned'
  BY <1>9 DEF Look, Watched, Owned, TypeOK, Blocking, LockFree, OperationPCs, world,
    admit, threads, counts
<1>10. CASE IdleStop
  BY <1>10 DEF IdleStop, Owned, TypeOK, Blocking, LockFree, OperationPCs, world, admit,
    threads, counts
<1>11. CASE IdleMark
  BY <1>11 DEF IdleMark, Owned, TypeOK, Blocking, LockFree, OperationPCs, world, admit,
    threads, counts
<1>12. CASE Stable
  BY <1>12 DEF Stable, Owned, TypeOK, Blocking, LockFree, OperationPCs, world, admit,
    threads, counts
<1>13. CASE NotYet
  BY <1>13 DEF NotYet, Return, Owned, TypeOK, Blocking, LockFree, OperationPCs, world,
    admit, threads, counts
<1>14. CASE Recover
  BY <1>14 DEF Recover, RecoveryRefused, Return, Owned, TypeOK, Blocking, LockFree,
    OperationPCs, world, admit, threads, counts
<1>15. CASE Revive
  BY <1>15 DEF Revive, Owned, TypeOK, Blocking, LockFree, OperationPCs, world, admit,
    threads, counts
<1>16. CASE RestoreGuard
  BY <1>16 DEF RestoreGuard, Owned, TypeOK, Blocking, LockFree, OperationPCs, world,
    admit, threads, counts
<1>17. CASE Settle
  BY <1>17 DEF Settle, Return, Owned, TypeOK, Blocking, LockFree, OperationPCs, world,
    admit, threads, counts
<1>18. ASSUME NEW s \in Stores, Outage(s)
       PROVE  Owned'
  BY <1>18 DEF Outage, Owned, TypeOK, Blocking, LockFree, OperationPCs, world, admit,
    threads, counts
<1>19. ASSUME NEW s \in Stores, Repair(s)
       PROVE  Owned'
  BY <1>19 DEF Repair, Owned, TypeOK, Blocking, LockFree, OperationPCs, world, admit,
    threads, counts
<1>20. ASSUME NEW m \in Media, MediaStart(m)
       PROVE  Owned'
  BY <1>20 DEF MediaStart, Owned, TypeOK, Blocking, LockFree, OperationPCs, world,
    admit, threads, counts
<1>21. ASSUME NEW m \in Media, MediaStop(m)
       PROVE  Owned'
  BY <1>21 DEF MediaStop, Owned, TypeOK, Blocking, LockFree, OperationPCs, world,
    admit, threads, counts
<1>22. CASE StartMigration
  BY <1>22 DEF StartMigration, Owned, TypeOK, Blocking, LockFree, OperationPCs, world,
    admit, threads, counts
<1>23. CASE RepeatPreflight
  BY <1>23 DEF RepeatPreflight, Owned, TypeOK, Blocking, LockFree, OperationPCs, world,
    admit, threads, counts
<1>24. CASE EndMigration
  BY <1>24 DEF EndMigration, Owned, TypeOK, Blocking, LockFree, OperationPCs, world,
    admit, threads, counts
<1>25. CASE Crash
  BY <1>25 DEF Crash, Owned, TypeOK, Blocking, LockFree, OperationPCs, world, admit,
    threads, counts
<1>26. CASE UNCHANGED vars
  BY <1>26 DEF vars, Owned, TypeOK, Blocking, LockFree, OperationPCs, world, admit,
    threads, counts
<1> QED BY <1>1, <1>2, <1>3, <1>4, <1>5, <1>6, <1>7, <1>8, <1>9, <1>10, <1>11, <1>12,
  <1>13, <1>14, <1>15, <1>16, <1>17, <1>18, <1>19, <1>20, <1>21, <1>22, <1>23, <1>24,
    <1>25, <1>26
  DEF Next, Begin, Action, MonitorStep, Environment

\* Locals are kept.
LEMMA LocatedStep == IndInv /\ [Next]_vars => Located'
<1> SUFFICES ASSUME IndInv, [Next]_vars PROVE Located'
  OBVIOUS
<1> USE Points, Kinds DEF IndInv
<1>1. ASSUME NEW t \in Planners, NEW s \in Stores, Plan(t, s)
       PROVE  Located'
  <2>1. CASE OpenIncident(t, s, TRUE)
    BY <1>1, <2>1 DEF Plan, OpenIncident, Opens, Located, OperationPCs, TypeOK
  <2>2. CASE ~OpenIncident(t, s, TRUE)
    BY <1>1, <2>2, ZenonT(60) DEF Plan, Located, OperationPCs, TypeOK
  <2> QED BY <2>1, <2>2
<1>2. ASSUME NEW t \in Planners \cup OutageThreads, Report(t)
       PROVE  Located'
  <2>1. CASE OpenIncident(t, tgt[t], FALSE)
    BY <1>2, <2>1 DEF Report, OpenIncident, Opens, Located, OperationPCs, TypeOK
  <2>2. CASE ~OpenIncident(t, tgt[t], FALSE)
    BY <1>2, <2>2, ZenonT(60) DEF Report, Return, Located, OperationPCs, TypeOK
  <2> QED BY <2>1, <2>2
<1>3. ASSUME NEW t \in Planners \cup OutageThreads, Guard(t)
       PROVE  Located'
  BY <1>3 DEF Guard, Located, TypeOK, OperationPCs, world, admit, threads, counts
<1>4. ASSUME NEW t \in Planners \cup OutageThreads, Record(t)
       PROVE  Located'
  BY <1>4 DEF Record, Located, TypeOK, OperationPCs, world, admit, threads, counts
<1>5. ASSUME NEW t \in Planners \cup OutageThreads, StopServer(t)
       PROVE  Located'
  BY <1>5 DEF StopServer, Return, Located, TypeOK, OperationPCs, world, admit, threads,
    counts
<1>6. ASSUME NEW t \in Planners, Operate(t)
       PROVE  Located'
  BY <1>6 DEF Operate, Located, TypeOK, OperationPCs, world, admit, threads, counts
<1>7. ASSUME NEW t \in Planners, StartAgain(t)
       PROVE  Located'
  BY <1>7 DEF StartAgain, Located, TypeOK, OperationPCs, world, admit, threads, counts
<1>8. ASSUME NEW t \in Planners, Complete(t)
       PROVE  Located'
  BY <1>8 DEF Complete, Return, Located, TypeOK, OperationPCs, world, admit, threads,
    counts
<1>9. ASSUME NEW i \in Ids, Look(i)
       PROVE  Located'
  BY <1>9 DEF Look, Watched, Located, TypeOK, OperationPCs, world, admit, threads,
    counts
<1>10. CASE IdleStop
  BY <1>10 DEF IdleStop, Located, TypeOK, OperationPCs, world, admit, threads, counts
<1>11. CASE IdleMark
  BY <1>11 DEF IdleMark, Located, TypeOK, OperationPCs, world, admit, threads, counts
<1>12. CASE Stable
  BY <1>12 DEF Stable, Located, TypeOK, OperationPCs, world, admit, threads, counts
<1>13. CASE NotYet
  BY <1>13 DEF NotYet, Return, Located, TypeOK, OperationPCs, world, admit, threads,
    counts
<1>14. CASE Recover
  BY <1>14 DEF Recover, RecoveryRefused, Return, Located, TypeOK, OperationPCs, world,
    admit, threads, counts
<1>15. CASE Revive
  BY <1>15 DEF Revive, Located, TypeOK, OperationPCs, world, admit, threads, counts
<1>16. CASE RestoreGuard
  BY <1>16 DEF RestoreGuard, Located, TypeOK, OperationPCs, world, admit, threads,
    counts
<1>17. CASE Settle
  BY <1>17 DEF Settle, Return, Located, TypeOK, OperationPCs, world, admit, threads,
    counts
<1>18. ASSUME NEW s \in Stores, Outage(s)
       PROVE  Located'
  BY <1>18 DEF Outage, Located, TypeOK, OperationPCs, world, admit, threads, counts
<1>19. ASSUME NEW s \in Stores, Repair(s)
       PROVE  Located'
  BY <1>19 DEF Repair, Located, TypeOK, OperationPCs, world, admit, threads, counts
<1>20. ASSUME NEW m \in Media, MediaStart(m)
       PROVE  Located'
  BY <1>20 DEF MediaStart, Located, TypeOK, OperationPCs, world, admit, threads, counts
<1>21. ASSUME NEW m \in Media, MediaStop(m)
       PROVE  Located'
  BY <1>21 DEF MediaStop, Located, TypeOK, OperationPCs, world, admit, threads, counts
<1>22. CASE StartMigration
  BY <1>22 DEF StartMigration, Located, TypeOK, OperationPCs, world, admit, threads,
    counts
<1>23. CASE RepeatPreflight
  BY <1>23 DEF RepeatPreflight, Located, TypeOK, OperationPCs, world, admit, threads,
    counts
<1>24. CASE EndMigration
  BY <1>24 DEF EndMigration, Located, TypeOK, OperationPCs, world, admit, threads,
    counts
<1>25. CASE Crash
  BY <1>25 DEF Crash, Located, TypeOK, OperationPCs, world, admit, threads, counts
<1>26. CASE UNCHANGED vars
  BY <1>26 DEF vars, Located, TypeOK, OperationPCs, world, admit, threads, counts
<1> QED BY <1>1, <1>2, <1>3, <1>4, <1>5, <1>6, <1>7, <1>8, <1>9, <1>10, <1>11, <1>12,
  <1>13, <1>14, <1>15, <1>16, <1>17, <1>18, <1>19, <1>20, <1>21, <1>22, <1>23, <1>24,
    <1>25, <1>26
  DEF Next, Begin, Action, MonitorStep, Environment

\* An operation's incident stays on hold.
LEMMA OnHoldStep == IndInv /\ [Next]_vars => OnHold'
<1> SUFFICES ASSUME IndInv, [Next]_vars PROVE OnHold'
  OBVIOUS
<1> USE Kinds, Tokens DEF IndInv
<1>1. ASSUME NEW t \in Planners, NEW s \in Stores, Plan(t, s)
       PROVE  OnHold'
  <2>1. CASE OpenIncident(t, s, TRUE)
    <3>1. PICK i \in Ids : Opens(t, s, TRUE, i) BY <2>1 DEF OpenIncident
    <3>2. \A j \in Ids \ {i} : incidents'[j] = incidents[j]
      BY <3>1 DEF Opens, TypeOK
    <3>3. incidents'[i].status = "active" /\ incidents'[i].awaiting = TRUE
      BY <3>1 DEF Opens, NewIncident, Blank, TypeOK
    <3>4. \A u \in Planners : pc[u] # "idle" /\ inc[u] # NoId => inc[u] \in Ids \ {i}
      BY <3>1 DEF Opens, OnHold, TypeOK
    <3>5. pc[Monitor] # "idle" => inc[Monitor] \in Ids \ {i}
      BY <3>1 DEF Opens, OnHold, TypeOK
    <3>6. /\ pc' = [pc EXCEPT ![t] = "guard"] /\ inc' = [inc EXCEPT ![t] = i]
          /\ t # Monitor
      BY <3>1 DEF Opens
    <3> QED BY <3>2, <3>3, <3>4, <3>5, <3>6 DEF OnHold, TypeOK
  <2>2. CASE ~OpenIncident(t, s, TRUE)
    <3>1. /\ pc' = [pc EXCEPT ![t] = "operate"] /\ inc' = [inc EXCEPT ![t] = NoId]
          /\ incidents' = incidents /\ t # Monitor
      BY <1>1, <2>2 DEF Plan
    <3> QED BY <3>1 DEF OnHold, TypeOK
  <2> QED BY <2>1, <2>2
<1>2. ASSUME NEW t \in Planners \cup OutageThreads, Report(t)
       PROVE  OnHold'
  <2>0. t \in OutageThreads /\ t \notin Planners BY <1>2 DEF Report, Located, OnHold
  <2>1. CASE OpenIncident(t, tgt[t], FALSE)
    <3>1. PICK i \in Ids : Opens(t, tgt[t], FALSE, i) BY <2>1 DEF OpenIncident
    <3>2. \A j \in Ids \ {i} : incidents'[j] = incidents[j]
      BY <3>1 DEF Opens, TypeOK
    <3>3. incidents'[i].status = "active" /\ incidents'[i].awaiting = FALSE
      BY <3>1 DEF Opens, NewIncident, Blank, TypeOK
    <3>4. \A u \in Planners : pc[u] # "idle" /\ inc[u] # NoId => inc[u] \in Ids \ {i}
      BY <3>1 DEF Opens, OnHold, TypeOK
    <3>5. pc[Monitor] # "idle" => inc[Monitor] \in Ids \ {i}
      BY <3>1 DEF Opens, OnHold, TypeOK
    <3>6. /\ pc' = [pc EXCEPT ![t] = "guard"] /\ inc' = [inc EXCEPT ![t] = i]
          /\ t # Monitor
      BY <3>1 DEF Opens
    <3> QED BY <3>2, <3>3, <3>4, <3>5, <3>6, <2>0 DEF OnHold, TypeOK
  <2>2. CASE ~OpenIncident(t, tgt[t], FALSE)
    <3>1. Return(t) /\ incidents' = incidents BY <1>2, <2>2 DEF Report
    <3> QED BY <2>0, <3>1 DEF OnHold, Return, TypeOK
  <2> QED BY <2>1, <2>2
<1>3. ASSUME NEW t \in Planners \cup OutageThreads, Guard(t)
       PROVE  OnHold'
  BY <1>3 DEF Guard, OnHold, TypeOK, world, admit, threads, counts
<1>4. ASSUME NEW t \in Planners \cup OutageThreads, Record(t)
       PROVE  OnHold'
  BY <1>4 DEF Record, WithEntry, OnHold, TypeOK, world, admit, threads, counts
<1>5. ASSUME NEW t \in Planners \cup OutageThreads, StopServer(t)
       PROVE  OnHold'
  BY <1>5 DEF StopServer, Return, OnHold, TypeOK, world, admit, threads, counts
<1>6. ASSUME NEW t \in Planners, Operate(t)
       PROVE  OnHold'
  BY <1>6 DEF Operate, OnHold, TypeOK, world, admit, threads, counts
<1>7. ASSUME NEW t \in Planners, StartAgain(t)
       PROVE  OnHold'
  BY <1>7 DEF StartAgain, OnHold, TypeOK, world, admit, threads, counts
<1>8. ASSUME NEW t \in Planners, Complete(t)
       PROVE  OnHold'
  BY <1>8 DEF Complete, Return, OnHold, TypeOK, world, admit, threads, counts
<1>9. ASSUME NEW i \in Ids, Look(i)
       PROVE  OnHold'
  BY <1>9 DEF Look, Watched, OnHold, TypeOK, world, admit, threads, counts
<1>10. CASE IdleStop
  BY <1>10 DEF IdleStop, OnHold, TypeOK, world, admit, threads, counts
<1>11. CASE IdleMark
  BY <1>11 DEF IdleMark, OnHold, TypeOK, world, admit, threads, counts
<1>12. CASE Stable
  BY <1>12 DEF Stable, OnHold, TypeOK, world, admit, threads, counts
<1>13. CASE NotYet
  BY <1>13 DEF NotYet, Return, OnHold, TypeOK, world, admit, threads, counts
<1>14. CASE Recover
  <2> DEFINE i == inc[Monitor]
  <2>1. i \in Ids /\ ~incidents[i].awaiting BY <1>14 DEF Recover, OnHold
  <2>2. \A j \in Ids : /\ incidents'[j].awaiting = incidents[j].awaiting
                       /\ j # i => incidents'[j].status = incidents[j].status
                       /\ incidents[j].status # "none" => incidents'[j].status # "none"
    BY <1>14 DEF Recover, TypeOK, Incident
  <2>3. \/ pc' = [pc EXCEPT ![Monitor] = "revive"] /\ inc' = inc
        \/ pc' = [pc EXCEPT ![Monitor] = "idle"] /\ inc' = [inc EXCEPT ![Monitor] = NoId]
    <3>1. CASE Blocking BY <1>14, <3>1 DEF Recover, RecoveryRefused, Return
    <3>2. CASE ~Blocking BY <1>14, <3>2 DEF Recover, RecoveryRefused
    <3> QED BY <3>1, <3>2
  <2>4. \A t \in Planners : inc'[t] = inc[t] /\ pc'[t] = pc[t] /\ t # Monitor
    BY <2>3 DEF TypeOK
  <2>5. \A t \in Planners : inc[t] # NoId => inc[t] \in Ids BY DEF TypeOK
  <2>6. \A t \in Planners : pc'[t] # "idle" /\ inc'[t] # NoId =>
          incidents'[inc'[t]].status = "active" /\ incidents'[inc'[t]].awaiting
    BY <2>1, <2>2, <2>4, <2>5 DEF OnHold
  <2>7. \A t \in Threads : pc'[t] = "report" => t \in OutageThreads
    BY <2>3 DEF OnHold, TypeOK
  <2>8. pc'[Monitor] # "idle" =>
          /\ inc'[Monitor] \in Ids /\ ~incidents'[inc'[Monitor]].awaiting
          /\ incidents'[inc'[Monitor]].status # "none"
    BY <1>14, <2>1, <2>2, <2>3 DEF Recover, OnHold, TypeOK
  <2> QED BY <2>4, <2>6, <2>7, <2>8 DEF OnHold
<1>15. CASE Revive
  BY <1>15 DEF Revive, OnHold, TypeOK, world, admit, threads, counts
<1>16. CASE RestoreGuard
  BY <1>16 DEF RestoreGuard, OnHold, TypeOK, world, admit, threads, counts
<1>17. CASE Settle
  BY <1>17 DEF Settle, Return, OnHold, TypeOK, world, admit, threads, counts
<1>18. ASSUME NEW s \in Stores, Outage(s)
       PROVE  OnHold'
  BY <1>18 DEF Outage, OnHold, TypeOK, world, admit, threads, counts
<1>19. ASSUME NEW s \in Stores, Repair(s)
       PROVE  OnHold'
  BY <1>19 DEF Repair, OnHold, TypeOK, world, admit, threads, counts
<1>20. ASSUME NEW m \in Media, MediaStart(m)
       PROVE  OnHold'
  BY <1>20 DEF MediaStart, OnHold, TypeOK, world, admit, threads, counts
<1>21. ASSUME NEW m \in Media, MediaStop(m)
       PROVE  OnHold'
  BY <1>21 DEF MediaStop, OnHold, TypeOK, world, admit, threads, counts
<1>22. CASE StartMigration
  BY <1>22 DEF StartMigration, OnHold, TypeOK, world, admit, threads, counts
<1>23. CASE RepeatPreflight
  BY <1>23 DEF RepeatPreflight, OnHold, TypeOK, world, admit, threads, counts
<1>24. CASE EndMigration
  BY <1>24 DEF EndMigration, OnHold, TypeOK, world, admit, threads, counts
<1>25. CASE Crash
  BY <1>25 DEF Crash, OnHold, TypeOK, world, admit, threads, counts
<1>26. CASE UNCHANGED vars
  BY <1>26 DEF vars, OnHold, TypeOK, world, admit, threads, counts
<1> QED BY <1>1, <1>2, <1>3, <1>4, <1>5, <1>6, <1>7, <1>8, <1>9, <1>10, <1>11, <1>12,
  <1>13, <1>14, <1>15, <1>16, <1>17, <1>18, <1>19, <1>20, <1>21, <1>22, <1>23, <1>24,
    <1>25, <1>26
  DEF Next, Begin, Action, MonitorStep, Environment

\* A job at work meets no open incident.
LEMMA SettledStep == IndInv /\ [Next]_vars => Settled'
<1> SUFFICES ASSUME IndInv, [Next]_vars PROVE Settled'
  OBVIOUS
<1> USE Points, Kinds, Tokens DEF IndInv
<1>1. ASSUME NEW t \in Planners, NEW s \in Stores, Plan(t, s)
       PROVE  Settled'
  BY <1>1 DEF Plan, OpenIncident, Opens, Blocking, Settled, TypeOK, world, admit,
    threads, counts
<1>2. ASSUME NEW t \in Planners \cup OutageThreads, Report(t)
       PROVE  Settled'
  BY <1>2 DEF Report, OpenIncident, Opens, Return, Blocking, Settled, TypeOK, world,
    admit, threads, counts
<1>3. ASSUME NEW t \in Planners \cup OutageThreads, Guard(t)
       PROVE  Settled'
  BY <1>3 DEF Guard, Settled, TypeOK, world, admit, threads, counts
<1>4. ASSUME NEW t \in Planners \cup OutageThreads, Record(t)
       PROVE  Settled'
  BY <1>4 DEF Record, WithEntry, Owned, Blocking, Settled, TypeOK, world, admit,
    threads, counts
<1>5. ASSUME NEW t \in Planners \cup OutageThreads, StopServer(t)
       PROVE  Settled'
  BY <1>5 DEF StopServer, Return, Settled, TypeOK, world, admit, threads, counts
<1>6. ASSUME NEW t \in Planners, Operate(t)
       PROVE  Settled'
  BY <1>6 DEF Operate, Settled, TypeOK, world, admit, threads, counts
<1>7. ASSUME NEW t \in Planners, StartAgain(t)
       PROVE  Settled'
  BY <1>7 DEF StartAgain, Settled, TypeOK, world, admit, threads, counts
<1>8. ASSUME NEW t \in Planners, Complete(t)
       PROVE  Settled'
  BY <1>8 DEF Complete, Return, OnHold, Settled, TypeOK, world, admit, threads, counts
<1>9. ASSUME NEW i \in Ids, Look(i)
       PROVE  Settled'
  BY <1>9 DEF Look, Watched, Settled, TypeOK, world, admit, threads, counts
<1>10. CASE IdleStop
  BY <1>10 DEF IdleStop, Settled, TypeOK, world, admit, threads, counts
<1>11. CASE IdleMark
  BY <1>11 DEF IdleMark, Owned, Blocking, Settled, TypeOK, world, admit, threads, counts
<1>12. CASE Stable
  BY <1>12 DEF Stable, Settled, TypeOK, world, admit, threads, counts
<1>13. CASE NotYet
  BY <1>13 DEF NotYet, Return, Settled, TypeOK, world, admit, threads, counts
<1>14. CASE Recover
  BY <1>14 DEF Recover, RecoveryRefused, Return, Blocking, Settled, TypeOK, world,
    admit, threads, counts
<1>15. CASE Revive
  BY <1>15 DEF Revive, Settled, TypeOK, world, admit, threads, counts
<1>16. CASE RestoreGuard
  BY <1>16 DEF RestoreGuard, Settled, TypeOK, world, admit, threads, counts
<1>17. CASE Settle
  BY <1>17 DEF Settle, Return, Owned, Blocking, Settled, TypeOK, world, admit, threads,
    counts
<1>18. ASSUME NEW s \in Stores, Outage(s)
       PROVE  Settled'
  BY <1>18 DEF Outage, Settled, TypeOK, world, admit, threads, counts
<1>19. ASSUME NEW s \in Stores, Repair(s)
       PROVE  Settled'
  BY <1>19 DEF Repair, Settled, TypeOK, world, admit, threads, counts
<1>20. ASSUME NEW m \in Media, MediaStart(m)
       PROVE  Settled'
  BY <1>20 DEF MediaStart, Settled, TypeOK, world, admit, threads, counts
<1>21. ASSUME NEW m \in Media, MediaStop(m)
       PROVE  Settled'
  BY <1>21 DEF MediaStop, Settled, TypeOK, world, admit, threads, counts
<1>22. CASE StartMigration
  BY <1>22 DEF StartMigration, Settled, TypeOK, world, admit, threads, counts
<1>23. CASE RepeatPreflight
  BY <1>23 DEF RepeatPreflight, MayWork, Unrecovered, Settled, TypeOK, world, admit,
    threads, counts
<1>24. CASE EndMigration
  BY <1>24 DEF EndMigration, Settled, TypeOK, world, admit, threads, counts
<1>25. CASE Crash
  BY <1>25 DEF Crash, Settled, TypeOK, world, admit, threads, counts
<1>26. CASE UNCHANGED vars
  BY <1>26 DEF vars, Settled, TypeOK, world, admit, threads, counts
<1> QED BY <1>1, <1>2, <1>3, <1>4, <1>5, <1>6, <1>7, <1>8, <1>9, <1>10, <1>11, <1>12,
  <1>13, <1>14, <1>15, <1>16, <1>17, <1>18, <1>19, <1>20, <1>21, <1>22, <1>23, <1>24,
    <1>25, <1>26
  DEF Next, Begin, Action, MonitorStep, Environment

-----------------------------------------------------------------------------
(* Theorems.                                                               *)

\* The invariant holds initially.
LEMMA Initially == Init => IndInv
<1> USE MediaAssumption, Points, Kinds, Tokens
<1> SUFFICES ASSUME Init PROVE IndInv OBVIOUS
<1>1. Blank \in Incident BY DEF Blank, Incident, Statuses
<1>2. TypeOK
  <2>1. incidents \in [Ids -> Incident] BY <1>1 DEF Init
  <2>2. /\ pc \in [Threads -> PCs] /\ inc \in [Threads -> 0 .. MaxIncidents]
        /\ tgt \in [Threads -> Stores \cup {NoStore}]
        /\ todo \in [Threads -> SUBSET Media] /\ med \in [Threads -> Media \cup {NoMedia}]
        /\ snap \in [Threads -> {"none", "taken", "changed"}]
    BY DEF Init
  <2>3. /\ up \subseteq Stores /\ out \subseteq Stores /\ running \subseteq Media
        /\ guarded \subseteq Media /\ held \subseteq Media
        /\ lock \in Threads \cup {NoThread}
    BY DEF Init
  <2>4. /\ faults \in 0 .. MaxFaults /\ crashes \in 0 .. MaxCrashes
        /\ outages \in Nat /\ migrations \in Nat
    BY DEF Init
  <2>5. migration \in Jobs /\ failed \in BOOLEAN BY DEF Init, Jobs
  <2> QED BY <2>1, <2>2, <2>3, <2>4, <2>5 DEF TypeOK
<1>3. Owned /\ Located /\ OnHold /\ Settled
  BY DEF Init, Owned, Blocking, Located, OnHold, OperationPCs, Settled
<1> QED BY <1>2, <1>3 DEF IndInv

\* The invariant holds in every reachable state.
LEMMA Invariance == Spec => []IndInv
<1>1. IndInv /\ [Next]_vars => IndInv'
  BY TypeStep, OwnedStep, LocatedStep, OnHoldStep, SettledStep DEF IndInv
<1> QED BY <1>1, Initially, PTL DEF Spec

\* The state of MediaProtectionManager and its threads keeps its type.
THEOREM MediaTypeCorrect == Spec => []TypeOK
<1>1. IndInv => TypeOK BY DEF IndInv
<1> QED BY <1>1, Invariance, PTL

\* No thread of the protection works on a media server while a namespace migration
\* is active: each of begin_planned, begin_unplanned, _recover and
\* _stop_idle_media_if_admitted asks for the migration under the admission lock and
\* keeps the lock until it is done, and a migration starts under the same lock.
THEOREM MigrationUndisturbed == Spec => []QuietDuringMigration
<1>1. IndInv => QuietDuringMigration
  BY Kinds, Points DEF IndInv, Owned, QuietDuringMigration, Blocking
<1> QED BY <1>1, Invariance, PTL

\* A namespace job that has passed its repeated preflight never meets an incident
\* that is not recovered: none is opened while a job is known, and a token that is
\* still to be completed belongs to an active incident.
THEOREM MigrationMeetsNoIncident == Spec => []MigrationOwnsMedia
<1>1. IndInv => MigrationOwnsMedia
  BY DEF IndInv, Settled, MigrationOwnsMedia, Unrecovered
<1> QED BY <1>1, Invariance, PTL

\* The monitor leaves an incident alone until complete_planned has released it,
\* because awaiting_operation_completion is set in the save that creates it.
THEOREM OperationFirst == Spec => []RecoveryWaitsForOperation
<1>1. IndInv => RecoveryWaitsForOperation
  BY DEF IndInv, OnHold, RecoveryWaitsForOperation
<1> QED BY <1>1, Invariance, PTL

-----------------------------------------------------------------------------
(* ProtectionRemembered.  What an incident lists is a matter of its entries  *)
(* (Entries); that the thread which works on it finds it open (Opened); and  *)
(* that a recovery which has met no error has nothing left of what it has    *)
(* behind it when it settles the incident (Recovering, Down).                *)

\* An entry that lists a change, or a stop, is in the incident.
Entries ==
  \A i \in Ids :
    /\ incidents[i].changed \subseteq incidents[i].guards
    /\ incidents[i].guards \subseteq incidents[i].servers
    /\ incidents[i].stopped \subseteq incidents[i].servers

\* Whoever works on an incident works on an open one.
AtWork(t) == pc[t] \in BeginPCs \/ (t = Monitor /\ pc[t] # "idle")
Opened ==
  /\ \A t \in Threads : AtWork(t) => inc[t] \in Ids /\ Unrecovered(inc[t])
  /\ pc[Monitor] = "idle_mark" => med[Monitor] \in incidents[inc[Monitor]].servers

\* A recovery without an error has dealt with what it has behind it.
Recovering ==
  pc[Monitor] \in RecoverPCs /\ ~failed =>
    /\ \A m \in incidents[inc[Monitor]].changed \cap guarded :
         m \in todo[Monitor] \/ (pc[Monitor] = "restore" /\ med[Monitor] = m)
    /\ incidents[inc[Monitor]].stopped \cap held \subseteq todo[Monitor]
    /\ pc[Monitor] = "settle" => todo[Monitor] = {}
Down == held \cap running = {}

\* Opening an incident changes that one, which was nobody's.
Fresh(t, s, i) ==
  /\ incidents[i].status = "none"
  /\ \A j \in Ids \ {i} : incidents'[j] = incidents[j]
  /\ incidents'[i].status = "active" /\ incidents'[i].servers = {}
  /\ incidents'[i].guards = {} /\ incidents'[i].changed = {}
  /\ incidents'[i].stopped = {}
  /\ inc' = [inc EXCEPT ![t] = i] /\ pc' = [pc EXCEPT ![t] = "guard"]
  /\ todo' = [todo EXCEPT ![t] = Affected(s)]
  /\ med' = med /\ snap' = snap /\ failed' = failed
LEMMA Opening ==
  ASSUME IndInv, NEW t \in Threads, NEW s \in Stores, NEW p \in BOOLEAN,
         OpenIncident(t, s, p)
  PROVE  \E i \in Ids : Fresh(t, s, i)
<1>1. PICK i \in Ids : Opens(t, s, p, i) BY DEF OpenIncident
<1> QED BY <1>1 DEF IndInv, TypeOK, Opens, NewIncident, Blank, Fresh

\* Loading an incident keeps its entries, and an open one open.
LEMMA Loading ==
  ASSUME NEW r \in Incident
  PROVE  /\ Loaded(r).servers = r.servers /\ Loaded(r).guards = r.guards
         /\ Loaded(r).changed = r.changed /\ Loaded(r).stopped = r.stopped
         /\ r.status \notin {"none", "recovered"} => Loaded(r).status \notin {"none", "recovered"}
  BY DEF Incident, Loaded

\* Entries only grow, with what the saved incident itself says.
LEMMA EntriesStep ==
  ASSUME IndInv, Entries, Opened, [Next]_vars
  PROVE  Entries'
<1> USE Kinds DEF Entries, TypeOK, IndInv, Incident, world, admit, threads, counts
<1>1. ASSUME NEW t \in Planners, NEW s \in Stores, Plan(t, s) PROVE Entries'
  <2>1. CASE OpenIncident(t, s, TRUE)
    BY <2>1, Opening DEF Plan, Fresh
  <2>2. CASE ~OpenIncident(t, s, TRUE)
    BY <1>1, <2>2 DEF Plan
  <2> QED BY <2>1, <2>2
<1>2. ASSUME NEW t \in Planners \cup OutageThreads, Report(t) PROVE Entries'
  <2>1. CASE OpenIncident(t, tgt[t], FALSE)
    <3>1. tgt[t] \in Stores BY <1>2 DEF Report, Located, IndInv
    <3> QED BY <1>2, <2>1, <3>1, Opening, ZenonT(60) DEF Report, Fresh
  <2>2. CASE ~OpenIncident(t, tgt[t], FALSE)
    BY <1>2, <2>2 DEF Report, Return
  <2> QED BY <2>1, <2>2
<1>3. ASSUME NEW t \in Planners \cup OutageThreads, Guard(t) PROVE Entries'
  BY <1>3 DEF Guard
<1>4. ASSUME NEW t \in Planners \cup OutageThreads, Record(t) PROVE Entries'
  BY <1>4 DEF Record, WithEntry
<1>5. ASSUME NEW t \in Planners \cup OutageThreads, StopServer(t) PROVE Entries'
  BY <1>5 DEF StopServer, Return
<1>6. ASSUME NEW t \in Planners, Operate(t) PROVE Entries'
  BY <1>6 DEF Operate
<1>7. ASSUME NEW t \in Planners, StartAgain(t) PROVE Entries'
  BY <1>7 DEF StartAgain
<1>8. ASSUME NEW t \in Planners, Complete(t) PROVE Entries'
  BY <1>8 DEF Complete, Return
<1>9. ASSUME NEW i \in Ids, Look(i) PROVE Entries'
  BY <1>9 DEF Look, Watched
<1>10. CASE IdleStop
  BY <1>10 DEF IdleStop
<1>11. CASE IdleMark
  BY <1>11, Points DEF IdleMark, Opened, AtWork
<1>12. CASE Stable
  BY <1>12 DEF Stable
<1>13. CASE NotYet
  BY <1>13 DEF NotYet, Return
<1>14. CASE Recover
  BY <1>14 DEF Recover, Return, RecoveryRefused
<1>15. CASE Revive
  BY <1>15 DEF Revive, NeedsStart
<1>16. CASE RestoreGuard
  BY <1>16 DEF RestoreGuard
<1>17. CASE Settle
  BY <1>17 DEF Settle, Return
<1>18. ASSUME NEW s \in Stores, Outage(s) PROVE Entries'
  BY <1>18 DEF Outage
<1>19. ASSUME NEW s \in Stores, Repair(s) PROVE Entries'
  BY <1>19 DEF Repair
<1>20. ASSUME NEW m \in Media, MediaStart(m) PROVE Entries'
  BY <1>20 DEF MediaStart
<1>21. ASSUME NEW m \in Media, MediaStop(m) PROVE Entries'
  BY <1>21 DEF MediaStop
<1>22. CASE StartMigration
  BY <1>22 DEF StartMigration
<1>23. CASE RepeatPreflight
  BY <1>23 DEF RepeatPreflight
<1>24. CASE EndMigration
  BY <1>24 DEF EndMigration
<1>25. CASE Crash
  BY <1>25, Loading DEF Crash
<1>26. CASE UNCHANGED vars
  BY <1>26 DEF vars
<1> QED BY <1>1, <1>2, <1>3, <1>4, <1>5, <1>6, <1>7, <1>8, <1>9, <1>10, <1>11,
         <1>12, <1>13,
           <1>14, <1>15, <1>16, <1>17, <1>18, <1>19, <1>20, <1>21, <1>22, <1>23, <1>24,
           <1>25, <1>26 DEF Next, Begin, Action, MonitorStep, Environment

\* No incident is settled under the thread that works on it.
LEMMA OpenedStep ==
  ASSUME IndInv, Entries, Opened, [Next]_vars
  PROVE  Opened'
<1> USE Kinds, Tokens DEF Opened, AtWork, Unrecovered, TypeOK, IndInv, BeginPCs,
         ProtectPCs, RecoverPCs, Owned, OnHold, Incident, world, admit, threads,
         counts
<1>1. ASSUME NEW t \in Planners, NEW s \in Stores, Plan(t, s) PROVE Opened'
  <2>1. CASE OpenIncident(t, s, TRUE)
    <3>1. PICK i \in Ids : Fresh(t, s, i)
      <4>1. s \in Stores BY <1>1 DEF Report, Located
      <4> QED BY <2>1, <4>1, Opening
    <3>2. \A u \in Threads : AtWork(u) => inc[u] \in Ids \ {i}
      BY <3>1 DEF Fresh
    <3>3. pc[t] \notin {"idle_mark"} /\ t # Monitor BY <1>1 DEF Plan
    <3> QED BY <3>1, <3>2, <3>3 DEF Fresh
  <2>2. CASE ~OpenIncident(t, s, TRUE)
    <3>1. /\ incidents' = incidents /\ med'[Monitor] = med[Monitor]
          /\ \A u \in Threads \ {t} : inc'[u] = inc[u] /\ pc'[u] = pc[u]
          /\ pc'[t] \in {"operate", "idle"} /\ t # Monitor
      BY <1>1, <2>2 DEF Plan, Return
    <3> QED BY <3>1
  <2> QED BY <2>1, <2>2
<1>2. ASSUME NEW t \in Planners \cup OutageThreads, Report(t) PROVE Opened'
  <2>1. CASE OpenIncident(t, tgt[t], FALSE)
    <3>1. PICK i \in Ids : Fresh(t, tgt[t], i)
      <4>1. tgt[t] \in Stores BY <1>2 DEF Report, Located
      <4> QED BY <2>1, <4>1, Opening
    <3>2. \A u \in Threads : AtWork(u) => inc[u] \in Ids \ {i}
      BY <3>1 DEF Fresh
    <3>3. pc[t] \notin {"idle_mark"} /\ t # Monitor BY <1>2 DEF Report
    <3> QED BY <3>1, <3>2, <3>3 DEF Fresh
  <2>2. CASE ~OpenIncident(t, tgt[t], FALSE)
    <3>1. /\ incidents' = incidents /\ med'[Monitor] = med[Monitor]
          /\ \A u \in Threads \ {t} : inc'[u] = inc[u] /\ pc'[u] = pc[u]
          /\ pc'[t] \in {"operate", "idle"} /\ t # Monitor
      BY <1>2, <2>2, ZenonT(60) DEF Report, Return
    <3> QED BY <3>1
  <2> QED BY <2>1, <2>2
<1>3. ASSUME NEW t \in Planners \cup OutageThreads, Guard(t) PROVE Opened'
  BY <1>3 DEF Guard
<1>4. ASSUME NEW t \in Planners \cup OutageThreads, Record(t) PROVE Opened'
  BY <1>4 DEF Record, WithEntry
<1>5. ASSUME NEW t \in Planners \cup OutageThreads, StopServer(t) PROVE Opened'
  BY <1>5 DEF StopServer, Return
<1>6. ASSUME NEW t \in Planners, Operate(t) PROVE Opened'
  BY <1>6 DEF Operate
<1>7. ASSUME NEW t \in Planners, StartAgain(t) PROVE Opened'
  BY <1>7 DEF StartAgain
<1>8. ASSUME NEW t \in Planners, Complete(t) PROVE Opened'
  BY <1>8 DEF Complete, Return
<1>9. ASSUME NEW i \in Ids, Look(i) PROVE Opened'
  BY <1>9 DEF Look, Watched
<1>10. CASE IdleStop
  BY <1>10 DEF IdleStop, LockFree
<1>11. CASE IdleMark
  BY <1>11 DEF IdleMark
<1>12. CASE Stable
  BY <1>12 DEF Stable
<1>13. CASE NotYet
  BY <1>13 DEF NotYet, Return
<1>14. CASE Recover
  BY <1>14 DEF Recover, Return, RecoveryRefused, LockFree
<1>15. CASE Revive
  BY <1>15 DEF Revive, NeedsStart
<1>16. CASE RestoreGuard
  BY <1>16 DEF RestoreGuard
<1>17. CASE Settle
  BY <1>17 DEF Settle, Return
<1>18. ASSUME NEW s \in Stores, Outage(s) PROVE Opened'
  BY <1>18 DEF Outage
<1>19. ASSUME NEW s \in Stores, Repair(s) PROVE Opened'
  BY <1>19 DEF Repair
<1>20. ASSUME NEW m \in Media, MediaStart(m) PROVE Opened'
  BY <1>20 DEF MediaStart
<1>21. ASSUME NEW m \in Media, MediaStop(m) PROVE Opened'
  BY <1>21 DEF MediaStop
<1>22. CASE StartMigration
  BY <1>22 DEF StartMigration
<1>23. CASE RepeatPreflight
  BY <1>23 DEF RepeatPreflight
<1>24. CASE EndMigration
  BY <1>24 DEF EndMigration
<1>25. CASE Crash
  BY <1>25 DEF Crash
<1>26. CASE UNCHANGED vars
  BY <1>26 DEF vars
<1> QED BY <1>1, <1>2, <1>3, <1>4, <1>5, <1>6, <1>7, <1>8, <1>9, <1>10, <1>11,
         <1>12, <1>13,
           <1>14, <1>15, <1>16, <1>17, <1>18, <1>19, <1>20, <1>21, <1>22, <1>23, <1>24,
           <1>25, <1>26 DEF Next, Begin, Action, MonitorStep, Environment

\* Who starts a media server is no longer held responsible for it.
LEMMA DownStep ==
  ASSUME IndInv, Entries, Opened, Down, [Next]_vars
  PROVE  Down'
<1> USE DEF Down, TypeOK, IndInv, world, admit, threads, counts
<1>1. ASSUME NEW t \in Planners, NEW s \in Stores, Plan(t, s) PROVE Down'
  BY <1>1 DEF Plan, OpenIncident, Opens, NewIncident, Blank
<1>2. ASSUME NEW t \in Planners \cup OutageThreads, Report(t) PROVE Down'
  BY <1>2 DEF Report, OpenIncident, Opens, NewIncident, Blank, Return
<1>3. ASSUME NEW t \in Planners \cup OutageThreads, Guard(t) PROVE Down'
  BY <1>3 DEF Guard
<1>4. ASSUME NEW t \in Planners \cup OutageThreads, Record(t) PROVE Down'
  BY <1>4 DEF Record, WithEntry
<1>5. ASSUME NEW t \in Planners \cup OutageThreads, StopServer(t) PROVE Down'
  BY <1>5 DEF StopServer, Return
<1>6. ASSUME NEW t \in Planners, Operate(t) PROVE Down'
  BY <1>6 DEF Operate
<1>7. ASSUME NEW t \in Planners, StartAgain(t) PROVE Down'
  BY <1>7 DEF StartAgain
<1>8. ASSUME NEW t \in Planners, Complete(t) PROVE Down'
  BY <1>8 DEF Complete, Return
<1>9. ASSUME NEW i \in Ids, Look(i) PROVE Down'
  BY <1>9 DEF Look, Watched
<1>10. CASE IdleStop
  BY <1>10 DEF IdleStop
<1>11. CASE IdleMark
  BY <1>11 DEF IdleMark
<1>12. CASE Stable
  BY <1>12 DEF Stable
<1>13. CASE NotYet
  BY <1>13 DEF NotYet, Return
<1>14. CASE Recover
  BY <1>14 DEF Recover, Return, RecoveryRefused
<1>15. CASE Revive
  BY <1>15 DEF Revive, NeedsStart
<1>16. CASE RestoreGuard
  BY <1>16 DEF RestoreGuard
<1>17. CASE Settle
  BY <1>17 DEF Settle, Return
<1>18. ASSUME NEW s \in Stores, Outage(s) PROVE Down'
  BY <1>18 DEF Outage
<1>19. ASSUME NEW s \in Stores, Repair(s) PROVE Down'
  BY <1>19 DEF Repair
<1>20. ASSUME NEW m \in Media, MediaStart(m) PROVE Down'
  BY <1>20 DEF MediaStart
<1>21. ASSUME NEW m \in Media, MediaStop(m) PROVE Down'
  BY <1>21 DEF MediaStop
<1>22. CASE StartMigration
  BY <1>22 DEF StartMigration
<1>23. CASE RepeatPreflight
  BY <1>23 DEF RepeatPreflight
<1>24. CASE EndMigration
  BY <1>24 DEF EndMigration
<1>25. CASE Crash
  BY <1>25 DEF Crash
<1>26. CASE UNCHANGED vars
  BY <1>26 DEF vars
<1> QED BY <1>1, <1>2, <1>3, <1>4, <1>5, <1>6, <1>7, <1>8, <1>9, <1>10, <1>11,
         <1>12, <1>13,
           <1>14, <1>15, <1>16, <1>17, <1>18, <1>19, <1>20, <1>21, <1>22, <1>23, <1>24,
           <1>25, <1>26 DEF Next, Begin, Action, MonitorStep, Environment

\* A recovery takes every entry, undoes it or notes the error.
LEMMA RecoveringStep ==
  ASSUME IndInv, Entries, Opened, Down, Recovering, [Next]_vars
  PROVE  Recovering'
<1> USE Kinds, Tokens DEF Recovering, Down, Entries, TypeOK, IndInv, RecoverPCs,
         Owned, Opened, AtWork, world, admit, threads, counts
<1>1. ASSUME NEW t \in Planners, NEW s \in Stores, Plan(t, s) PROVE Recovering'
  <2>1. pc[Monitor] \notin RecoverPCs /\ t # Monitor
    BY <1>1 DEF IndInv, Owned, ProtectPCs, LockFree, Plan
  <2>2. pc'[Monitor] = pc[Monitor]
    <3>1. CASE OpenIncident(t, s, TRUE)
      <4>1. s \in Stores BY <1>1 DEF Report, Located, IndInv
      <4>2. PICK i \in Ids : Fresh(t, s, i) BY <3>1, <4>1, Opening
      <4> QED BY <2>1, <4>2 DEF Fresh
    <3>2. CASE ~OpenIncident(t, s, TRUE)
      BY <1>1, <2>1, <3>2 DEF Plan, Return
    <3> QED BY <3>1, <3>2
  <2> QED BY <2>1, <2>2
<1>2. ASSUME NEW t \in Planners \cup OutageThreads, Report(t) PROVE Recovering'
  <2>1. pc[Monitor] \notin RecoverPCs /\ t # Monitor
    BY <1>2 DEF IndInv, Owned, ProtectPCs, LockFree, Report
  <2>2. pc'[Monitor] = pc[Monitor]
    <3>1. CASE OpenIncident(t, tgt[t], FALSE)
      <4>1. tgt[t] \in Stores BY <1>2 DEF Report, Located, IndInv
      <4>2. PICK i \in Ids : Fresh(t, tgt[t], i) BY <3>1, <4>1, Opening
      <4> QED BY <2>1, <4>2 DEF Fresh
    <3>2. CASE ~OpenIncident(t, tgt[t], FALSE)
      BY <1>2, <2>1, <3>2 DEF Report, Return
    <3> QED BY <3>1, <3>2
  <2> QED BY <2>1, <2>2
<1>3. ASSUME NEW t \in Planners \cup OutageThreads, Guard(t) PROVE Recovering'
  <2>1. pc[Monitor] \notin RecoverPCs /\ t # Monitor
    BY <1>3 DEF IndInv, Owned, ProtectPCs, BeginPCs, Guard
  <2> QED BY <1>3, <2>1 DEF Guard, Return
<1>4. ASSUME NEW t \in Planners \cup OutageThreads, Record(t) PROVE Recovering'
  <2>1. pc[Monitor] \notin RecoverPCs /\ t # Monitor
    BY <1>4 DEF IndInv, Owned, ProtectPCs, BeginPCs, Record
  <2> QED BY <1>4, <2>1 DEF Record, Return
<1>5. ASSUME NEW t \in Planners \cup OutageThreads, StopServer(t) PROVE Recovering'
  <2>1. pc[Monitor] \notin RecoverPCs /\ t # Monitor
    BY <1>5 DEF IndInv, Owned, ProtectPCs, BeginPCs, StopServer
  <2> QED BY <1>5, <2>1 DEF StopServer, Return
<1>6. ASSUME NEW t \in Planners, Operate(t) PROVE Recovering'
  BY <1>6 DEF Operate
<1>7. ASSUME NEW t \in Planners, StartAgain(t) PROVE Recovering'
  BY <1>7 DEF StartAgain
<1>8. ASSUME NEW t \in Planners, Complete(t) PROVE Recovering'
  BY <1>8 DEF Complete, Return
<1>9. ASSUME NEW i \in Ids, Look(i) PROVE Recovering'
  BY <1>9 DEF Look, Watched
<1>10. CASE IdleStop
  BY <1>10 DEF IdleStop
<1>11. CASE IdleMark
  BY <1>11 DEF IdleMark
<1>12. CASE Stable
  BY <1>12 DEF Stable
<1>13. CASE NotYet
  BY <1>13 DEF NotYet, Return
<1>14. CASE Recover
  <2>1. CASE RecoveryRefused
    BY <1>14, <2>1 DEF Recover, Return
  <2>2. CASE ~RecoveryRefused
    <3>1. /\ pc'[Monitor] = "revive" /\ inc' = inc /\ guarded' = guarded /\ held' = held
          /\ todo'[Monitor] = incidents[inc[Monitor]].servers /\ inc[Monitor] \in Ids
      BY <1>14, <2>2 DEF Recover
    <3>2. /\ incidents'[inc[Monitor]].changed = incidents[inc[Monitor]].changed
          /\ incidents'[inc[Monitor]].stopped = incidents[inc[Monitor]].stopped
      BY <1>14, <2>2, <3>1 DEF Recover, Incident
    <3>3. /\ incidents[inc[Monitor]].changed \subseteq incidents[inc[Monitor]].servers
          /\ incidents[inc[Monitor]].stopped \subseteq incidents[inc[Monitor]].servers
      BY <3>1
    <3> QED BY <3>1, <3>2, <3>3
  <2> QED BY <2>1, <2>2
<1>15. CASE Revive
  BY <1>15 DEF Revive, NeedsStart
<1>16. CASE RestoreGuard
  BY <1>16 DEF RestoreGuard
<1>17. CASE Settle
  BY <1>17 DEF Settle, Return
<1>18. ASSUME NEW s \in Stores, Outage(s) PROVE Recovering'
  BY <1>18 DEF Outage
<1>19. ASSUME NEW s \in Stores, Repair(s) PROVE Recovering'
  BY <1>19 DEF Repair
<1>20. ASSUME NEW m \in Media, MediaStart(m) PROVE Recovering'
  BY <1>20 DEF MediaStart
<1>21. ASSUME NEW m \in Media, MediaStop(m) PROVE Recovering'
  BY <1>21 DEF MediaStop
<1>22. CASE StartMigration
  BY <1>22 DEF StartMigration
<1>23. CASE RepeatPreflight
  BY <1>23 DEF RepeatPreflight
<1>24. CASE EndMigration
  BY <1>24 DEF EndMigration
<1>25. CASE Crash
  BY <1>25 DEF Crash, Loaded
<1>26. CASE UNCHANGED vars
  BY <1>26 DEF vars
<1> QED BY <1>1, <1>2, <1>3, <1>4, <1>5, <1>6, <1>7, <1>8, <1>9, <1>10, <1>11,
         <1>12, <1>13,
           <1>14, <1>15, <1>16, <1>17, <1>18, <1>19, <1>20, <1>21, <1>22, <1>23, <1>24,
           <1>25, <1>26 DEF Next, Begin, Action, MonitorStep, Environment

\* What an open incident lists stays listed and the incident open, unless a step
\* settles it.
Kept ==
  \A i \in Ids : Unrecovered(i) =>
    /\ Unrecovered(i)'
    /\ incidents[i].changed \subseteq incidents'[i].changed
    /\ incidents[i].stopped \subseteq incidents'[i].stopped
\* Only _recover_admitted's last save closes an incident.
LEMMA KeptStep ==
  ASSUME IndInv, Entries, Opened, [Next]_vars
  PROVE  Kept \/ Settle
<1> USE Kinds, Tokens DEF Kept, Unrecovered, TypeOK, IndInv, Incident, world, admit,
         threads, counts
<1>1. ASSUME NEW t \in Planners, NEW s \in Stores, Plan(t, s) PROVE Kept \/ Settle
  <2>1. CASE OpenIncident(t, s, TRUE)
    <3>1. s \in Stores BY <1>1 DEF Report, Located, IndInv
    <3>2. PICK i \in Ids : Fresh(t, s, i) BY <2>1, <3>1, Opening
    <3> QED BY <3>2 DEF Fresh
  <2>2. CASE ~OpenIncident(t, s, TRUE)
    BY <1>1, <2>2 DEF Plan, Return
  <2> QED BY <2>1, <2>2
<1>2. ASSUME NEW t \in Planners \cup OutageThreads, Report(t) PROVE Kept \/ Settle
  <2>1. CASE OpenIncident(t, tgt[t], FALSE)
    <3>1. tgt[t] \in Stores BY <1>2 DEF Report, Located, IndInv
    <3>2. PICK i \in Ids : Fresh(t, tgt[t], i) BY <2>1, <3>1, Opening
    <3> QED BY <3>2 DEF Fresh
  <2>2. CASE ~OpenIncident(t, tgt[t], FALSE)
    BY <1>2, <2>2 DEF Report, Return
  <2> QED BY <2>1, <2>2
<1>3. ASSUME NEW t \in Planners \cup OutageThreads, Guard(t) PROVE Kept \/ Settle
  BY <1>3 DEF Guard
<1>4. ASSUME NEW t \in Planners \cup OutageThreads, Record(t) PROVE Kept \/ Settle
  BY <1>4 DEF Record, WithEntry
<1>5. ASSUME NEW t \in Planners \cup OutageThreads, StopServer(t) PROVE Kept \/ Settle
  BY <1>5 DEF StopServer, Return
<1>6. ASSUME NEW t \in Planners, Operate(t) PROVE Kept \/ Settle
  BY <1>6 DEF Operate
<1>7. ASSUME NEW t \in Planners, StartAgain(t) PROVE Kept \/ Settle
  BY <1>7 DEF StartAgain
<1>8. ASSUME NEW t \in Planners, Complete(t) PROVE Kept \/ Settle
  BY <1>8 DEF Complete, Return, OnHold
<1>9. ASSUME NEW i \in Ids, Look(i) PROVE Kept \/ Settle
  BY <1>9 DEF Look, Watched
<1>10. CASE IdleStop
  BY <1>10 DEF IdleStop
<1>11. CASE IdleMark
  BY <1>11 DEF IdleMark
<1>12. CASE Stable
  BY <1>12 DEF Stable
<1>13. CASE NotYet
  BY <1>13 DEF NotYet, Return
<1>14. CASE Recover
  BY <1>14 DEF Recover, Return, RecoveryRefused
<1>15. CASE Revive
  BY <1>15 DEF Revive, NeedsStart
<1>16. CASE RestoreGuard
  BY <1>16 DEF RestoreGuard
<1>17. CASE Settle
  BY <1>17 DEF Settle
<1>18. ASSUME NEW s \in Stores, Outage(s) PROVE Kept \/ Settle
  BY <1>18 DEF Outage
<1>19. ASSUME NEW s \in Stores, Repair(s) PROVE Kept \/ Settle
  BY <1>19 DEF Repair
<1>20. ASSUME NEW m \in Media, MediaStart(m) PROVE Kept \/ Settle
  BY <1>20 DEF MediaStart
<1>21. ASSUME NEW m \in Media, MediaStop(m) PROVE Kept \/ Settle
  BY <1>21 DEF MediaStop
<1>22. CASE StartMigration
  BY <1>22 DEF StartMigration
<1>23. CASE RepeatPreflight
  BY <1>23 DEF RepeatPreflight
<1>24. CASE EndMigration
  BY <1>24 DEF EndMigration
<1>25. CASE Crash
  BY <1>25, Loading DEF Crash
<1>26. CASE UNCHANGED vars
  BY <1>26 DEF vars
<1> QED BY <1>1, <1>2, <1>3, <1>4, <1>5, <1>6, <1>7, <1>8, <1>9, <1>10, <1>11,
         <1>12, <1>13,
           <1>14, <1>15, <1>16, <1>17, <1>18, <1>19, <1>20, <1>21, <1>22, <1>23, <1>24,
           <1>25, <1>26 DEF Next, Begin, Action, MonitorStep, Environment

\* A thread that begins leaves the media servers and the other threads alone.
Begun(t) ==
  /\ guarded' = guarded /\ held' = held
  /\ pc[t] # "record" /\ pc[Monitor] \notin {"idle_mark", "settle"}
  /\ \A u \in Threads \ {t} : pc'[u] = pc[u] /\ med'[u] = med[u] /\ snap'[u] = snap[u]
LEMMA Beginning ==
  ASSUME IndInv, NEW t \in Planners \cup OutageThreads,
         (\E s \in Stores : Plan(t, s)) \/ Report(t)
  PROVE  Begun(t)
<1> USE Kinds DEF world, admit, threads, counts
<1>1. ASSUME NEW s \in Stores, Plan(t, s) PROVE Begun(t)
  <2>1. /\ guarded' = guarded /\ held' = held
        /\ pc[t] # "record" /\ pc[Monitor] \notin {"idle_mark", "settle"}
    BY <1>1 DEF Plan, LockFree, IndInv, Owned, ProtectPCs, RecoverPCs
  <2>2. CASE OpenIncident(t, s, TRUE)
    <3>1. s \in Stores BY <1>1 DEF IndInv, Report, Located
    <3>2. PICK i \in Ids : Fresh(t, s, i) BY <2>2, <3>1, Opening
    <3> QED BY <2>1, <3>2 DEF Fresh, Begun, IndInv, TypeOK
  <2>3. CASE ~OpenIncident(t, s, TRUE)
    BY <1>1, <2>1, <2>3 DEF Plan, Return, Begun, IndInv, TypeOK
  <2> QED BY <2>2, <2>3
<1>2. ASSUME Report(t) PROVE Begun(t)
  <2>1. /\ guarded' = guarded /\ held' = held
        /\ pc[t] # "record" /\ pc[Monitor] \notin {"idle_mark", "settle"}
    BY <1>2 DEF Report, LockFree, IndInv, Owned, ProtectPCs, RecoverPCs
  <2>2. CASE OpenIncident(t, tgt[t], FALSE)
    <3>1. tgt[t] \in Stores BY <1>2 DEF IndInv, Report, Located
    <3>2. PICK i \in Ids : Fresh(t, tgt[t], i) BY <2>2, <3>1, Opening
    <3> QED BY <2>1, <3>2 DEF Fresh, Begun, IndInv, TypeOK
  <2>3. CASE ~OpenIncident(t, tgt[t], FALSE)
    BY <1>2, <2>1, <2>3 DEF Report, Return, Begun, IndInv, TypeOK
  <2> QED BY <2>2, <2>3
<1> QED BY <1>1, <1>2

\* What is held down is listed by an open incident.
LEMMA StoppedStep ==
  ASSUME IndInv, Entries, Opened, Recovering, Down, StoppedRemembered, [Next]_vars
  PROVE  StoppedRemembered'
<1>0. Kept \/ Settle BY KeptStep
<1> USE Kinds, Tokens DEF StoppedRemembered, Kept, Unrecovered, TypeOK, IndInv,
         Owned, ProtectPCs, Located, world, admit, threads, counts
<1>1. ASSUME NEW t \in Planners, NEW s \in Stores, Plan(t, s) PROVE StoppedRemembered'
  <2>1. Begun(t) /\ t # Monitor
    BY <1>1, Beginning, MediaAssumption DEF Planners
  <2>2. Kept BY <1>0, <2>1 DEF Settle, Begun
  <2> QED BY <2>1, <2>2 DEF Begun
<1>2. ASSUME NEW t \in Planners \cup OutageThreads, Report(t) PROVE StoppedRemembered'
  <2>1. Begun(t) /\ t # Monitor
    BY <1>2, Beginning, MediaAssumption DEF Planners
  <2>2. Kept BY <1>0, <2>1 DEF Settle, Begun
  <2> QED BY <2>1, <2>2 DEF Begun
<1>3. ASSUME NEW t \in Planners \cup OutageThreads, Guard(t) PROVE StoppedRemembered'
  BY <1>0, <1>3 DEF Guard
<1>4. ASSUME NEW t \in Planners \cup OutageThreads, Record(t) PROVE StoppedRemembered'
  BY <1>0, <1>4 DEF Record, WithEntry
<1>5. ASSUME NEW t \in Planners \cup OutageThreads, StopServer(t) PROVE StoppedRemembered'
  BY <1>0, <1>5 DEF StopServer, Return, Opened, AtWork, BeginPCs
<1>6. ASSUME NEW t \in Planners, Operate(t) PROVE StoppedRemembered'
  BY <1>0, <1>6 DEF Operate
<1>7. ASSUME NEW t \in Planners, StartAgain(t) PROVE StoppedRemembered'
  BY <1>0, <1>7 DEF StartAgain
<1>8. ASSUME NEW t \in Planners, Complete(t) PROVE StoppedRemembered'
  BY <1>0, <1>8 DEF Complete, Return
<1>9. ASSUME NEW i \in Ids, Look(i) PROVE StoppedRemembered'
  BY <1>0, <1>9 DEF Look, Watched
<1>10. CASE IdleStop
  BY <1>0, <1>10 DEF IdleStop
<1>11. CASE IdleMark
  BY <1>0, <1>11 DEF IdleMark, Opened, AtWork, Incident
<1>12. CASE Stable
  BY <1>0, <1>12 DEF Stable
<1>13. CASE NotYet
  BY <1>0, <1>13 DEF NotYet, Return
<1>14. CASE Recover
  BY <1>0, <1>14 DEF Recover, Return, RecoveryRefused, Opened, AtWork, Incident
<1>15. CASE Revive
  BY <1>0, <1>15 DEF Revive, NeedsStart
<1>16. CASE RestoreGuard
  BY <1>0, <1>16 DEF RestoreGuard
<1>17. CASE Settle
  BY <1>0, <1>17, Points DEF Settle, Return, Recovering, RecoverPCs
<1>18. ASSUME NEW s \in Stores, Outage(s) PROVE StoppedRemembered'
  BY <1>0, <1>18 DEF Outage
<1>19. ASSUME NEW s \in Stores, Repair(s) PROVE StoppedRemembered'
  BY <1>0, <1>19 DEF Repair
<1>20. ASSUME NEW m \in Media, MediaStart(m) PROVE StoppedRemembered'
  BY <1>0, <1>20 DEF MediaStart
<1>21. ASSUME NEW m \in Media, MediaStop(m) PROVE StoppedRemembered'
  BY <1>0, <1>21 DEF MediaStop
<1>22. CASE StartMigration
  BY <1>0, <1>22 DEF StartMigration
<1>23. CASE RepeatPreflight
  BY <1>0, <1>23 DEF RepeatPreflight
<1>24. CASE EndMigration
  BY <1>0, <1>24 DEF EndMigration
<1>25. CASE Crash
  BY <1>0, <1>25 DEF Crash, Loaded
<1>26. CASE UNCHANGED vars
  BY <1>0, <1>26 DEF vars
<1> QED BY <1>1, <1>2, <1>3, <1>4, <1>5, <1>6, <1>7, <1>8, <1>9, <1>10, <1>11,
         <1>12, <1>13,
           <1>14, <1>15, <1>16, <1>17, <1>18, <1>19, <1>20, <1>21, <1>22, <1>23, <1>24,
           <1>25, <1>26 DEF Next, Begin, Action, MonitorStep, Environment

\* So is a library that is guarded, if enter_scan_guard fails cleanly and DUMB is not
\* killed before its snapshot is saved.
LEMMA GuardStep ==
  ASSUME ~PartialGuards, CrashAt \subseteq SafeCrash, IndInv, Entries, Opened,
         Recovering, Down, GuardRemembered, [Next]_vars
  PROVE  GuardRemembered'
<1>0. Kept \/ Settle BY KeptStep
<1> USE Kinds, Tokens DEF GuardRemembered, Kept, Unrecovered, TypeOK, IndInv, Owned,
         ProtectPCs, Located, world, admit, threads, counts
<1>1. ASSUME NEW t \in Planners, NEW s \in Stores, Plan(t, s) PROVE GuardRemembered'
  <2>1. Begun(t) /\ t # Monitor
    BY <1>1, Beginning, MediaAssumption DEF Planners
  <2>2. Kept BY <1>0, <2>1 DEF Settle, Begun
  <2> QED BY <2>1, <2>2 DEF Begun
<1>2. ASSUME NEW t \in Planners \cup OutageThreads, Report(t) PROVE GuardRemembered'
  <2>1. Begun(t) /\ t # Monitor
    BY <1>2, Beginning, MediaAssumption DEF Planners
  <2>2. Kept BY <1>0, <2>1 DEF Settle, Begun
  <2> QED BY <2>1, <2>2 DEF Begun
<1>3. ASSUME NEW t \in Planners \cup OutageThreads, Guard(t) PROVE GuardRemembered'
  BY <1>0, <1>3 DEF Guard
<1>4. ASSUME NEW t \in Planners \cup OutageThreads, Record(t) PROVE GuardRemembered'
  BY <1>0, <1>4 DEF Record, WithEntry, Opened, AtWork, BeginPCs, Incident
<1>5. ASSUME NEW t \in Planners \cup OutageThreads, StopServer(t) PROVE GuardRemembered'
  BY <1>0, <1>5 DEF StopServer, Return
<1>6. ASSUME NEW t \in Planners, Operate(t) PROVE GuardRemembered'
  BY <1>0, <1>6 DEF Operate
<1>7. ASSUME NEW t \in Planners, StartAgain(t) PROVE GuardRemembered'
  BY <1>0, <1>7 DEF StartAgain
<1>8. ASSUME NEW t \in Planners, Complete(t) PROVE GuardRemembered'
  BY <1>0, <1>8 DEF Complete, Return
<1>9. ASSUME NEW i \in Ids, Look(i) PROVE GuardRemembered'
  BY <1>0, <1>9 DEF Look, Watched
<1>10. CASE IdleStop
  BY <1>0, <1>10 DEF IdleStop
<1>11. CASE IdleMark
  BY <1>0, <1>11 DEF IdleMark
<1>12. CASE Stable
  BY <1>0, <1>12 DEF Stable
<1>13. CASE NotYet
  BY <1>0, <1>13 DEF NotYet, Return
<1>14. CASE Recover
  BY <1>0, <1>14 DEF Recover, Return, RecoveryRefused, Opened, AtWork, Incident
<1>15. CASE Revive
  BY <1>0, <1>15 DEF Revive, NeedsStart
<1>16. CASE RestoreGuard
  BY <1>0, <1>16, Points DEF RestoreGuard, Entries
<1>17. CASE Settle
  BY <1>0, <1>17, Points DEF Settle, Return, Recovering, RecoverPCs
<1>18. ASSUME NEW s \in Stores, Outage(s) PROVE GuardRemembered'
  BY <1>0, <1>18 DEF Outage
<1>19. ASSUME NEW s \in Stores, Repair(s) PROVE GuardRemembered'
  BY <1>0, <1>19 DEF Repair
<1>20. ASSUME NEW m \in Media, MediaStart(m) PROVE GuardRemembered'
  BY <1>0, <1>20 DEF MediaStart
<1>21. ASSUME NEW m \in Media, MediaStop(m) PROVE GuardRemembered'
  BY <1>0, <1>21 DEF MediaStop
<1>22. CASE StartMigration
  BY <1>0, <1>22 DEF StartMigration
<1>23. CASE RepeatPreflight
  BY <1>0, <1>23 DEF RepeatPreflight
<1>24. CASE EndMigration
  BY <1>0, <1>24 DEF EndMigration
<1>25. CASE Crash
  BY <1>0, <1>25, Loading, ZenonT(60) DEF Crash, Loaded, SafeCrash
<1>26. CASE UNCHANGED vars
  BY <1>0, <1>26 DEF vars
<1> QED BY <1>1, <1>2, <1>3, <1>4, <1>5, <1>6, <1>7, <1>8, <1>9, <1>10, <1>11,
         <1>12, <1>13,
           <1>14, <1>15, <1>16, <1>17, <1>18, <1>19, <1>20, <1>21, <1>22, <1>23, <1>24,
           <1>25, <1>26 DEF Next, Begin, Action, MonitorStep, Environment

\* The parts above hold together.
Remembering == Entries /\ Opened /\ Recovering /\ Down /\ StoppedRemembered
LEMMA RememberingHolds == Spec => [](IndInv /\ Remembering)
<1>1. Init => Remembering
  BY Kinds, Tokens DEF Init, Remembering, Entries, Opened, Recovering, Down,
     StoppedRemembered, AtWork, Blank, BeginPCs, RecoverPCs
<1>2. IndInv /\ Remembering /\ [Next]_vars => Remembering'
  BY EntriesStep, OpenedStep, RecoveringStep, DownStep, StoppedStep DEF Remembering
<1> QED BY <1>1, <1>2, Invariance, PTL DEF Spec

\* A media server that protection has stopped is never forgotten: an incident that
\* is still open has it in stopped_by_dumb, whichever incidents overlap, whatever
\* calls fail and whenever DUMB is killed.
THEOREM MediaStoppedRemembered == Spec => []StoppedRemembered
<1>1. Remembering => StoppedRemembered BY DEF Remembering
<1> QED BY <1>1, RememberingHolds, PTL

\* Nothing protection did to a media server is forgotten, where enter_scan_guard
\* changes nothing when it raises and DUMB is not killed between its return and the
\* save of its snapshot.
THEOREM MediaProtectionRemembered ==
  ASSUME ~PartialGuards, CrashAt \subseteq SafeCrash
  PROVE  Spec => []ProtectionRemembered
<1>1. Init => GuardRemembered BY DEF Init, GuardRemembered
<1>2. IndInv /\ Remembering /\ GuardRemembered /\ [Next]_vars => GuardRemembered'
  BY GuardStep DEF Remembering
<1>3. Remembering /\ GuardRemembered => ProtectionRemembered
  BY DEF Remembering, ProtectionRemembered
<1> QED BY <1>1, <1>2, <1>3, RememberingHolds, PTL DEF Spec

-----------------------------------------------------------------------------
(* Protection uses the migration admission as it is meant to be used.       *)

\* What the admission sees of a thread at a control point, and of them all.
Busy(t, p) == p \in ProtectPCs \/ (t \in ApiThreads /\ p # "idle")
Working == {t \in Threads : pc[t] \in ProtectPCs \/ (t \in ApiThreads /\ pc[t] # "idle")}
Allowed ==
  Admission!Next \/ (UNCHANGED <<lock, Blocking>> /\ Working' = Working)

\* A thread goes on, with what it was doing or with what is not the admission's.
LEMMA GoingOnAllowed ==
  ASSUME TypeOK, NEW t \in Threads, NEW p, pc' = [pc EXCEPT ![t] = p],
         Busy(t, p) <=> Busy(t, pc[t]), UNCHANGED <<lock, migration>>
  PROVE  Allowed
<1>1. Working' = Working BY DEF TypeOK, Working, Busy
<1> QED BY <1>1 DEF Allowed, Blocking

\* It begins, with the lock, while no job blocks.
LEMMA BeginningAllowed ==
  ASSUME TypeOK, NEW t \in Threads, NEW p, pc' = [pc EXCEPT ![t] = p], Busy(t, p),
         LockFree, lock' = t, ~Blocking, UNCHANGED migration
  PROVE  Allowed
<1>1. Working' = Working \cup {t} BY DEF TypeOK, Working, Busy
<1>2. Admission!Begin(t)
  BY <1>1 DEF Admission!Begin, Admission!Open, LockFree, Blocking, Working
<1> QED BY <1>2 DEF Allowed, Admission!Next

\* It is done, and gives the lock back.
LEMMA EndingAllowed ==
  ASSUME TypeOK, NEW t \in Threads, NEW p, pc' = [pc EXCEPT ![t] = p], ~Busy(t, p),
         lock = t, lock' = NoThread, UNCHANGED migration
  PROVE  Allowed
<1>1. Working' = Working \ {t} BY DEF TypeOK, Working, Busy
<1>2. Admission!End(t) BY <1>1 DEF Admission!End, Blocking, Working
<1> QED BY <1>2 DEF Allowed, Admission!Next

LEMMA AdmissionStep == IndInv /\ [Next]_vars => Allowed
<1> SUFFICES ASSUME IndInv, [Next]_vars PROVE Allowed
  OBVIOUS
<1> USE Points, Kinds, GoingOnAllowed, BeginningAllowed, EndingAllowed
    DEF Busy, world, admit, threads, counts
<1>0. TypeOK /\ Owned /\ \A t \in Threads : pc[t] = "report" => t \in OutageThreads
  BY DEF IndInv, OnHold
<1>1. ASSUME NEW t \in Planners, NEW s \in Stores, Plan(t, s) PROVE Allowed
  <2>1. t \in Threads /\ pc[t] = "idle" /\ LockFree /\ ~Blocking /\ UNCHANGED migration
    BY <1>1 DEF Plan
  <2>2. CASE OpenIncident(t, s, TRUE)
    <3>1. pc' = [pc EXCEPT ![t] = "guard"] /\ lock' = t
      BY <2>2 DEF OpenIncident, Opens
    <3> QED BY <1>0, <2>1, <3>1
  <2>3. CASE ~OpenIncident(t, s, TRUE)
    <3>1. pc' = [pc EXCEPT ![t] = "operate"] /\ lock' = IF t \in ApiThreads THEN t ELSE lock
      BY <1>1, <2>3 DEF Plan
    <3>2. CASE t \in ApiThreads BY <1>0, <2>1, <3>1, <3>2
    <3>3. CASE t \notin ApiThreads BY <1>0, <2>1, <3>1, <3>3
    <3> QED BY <3>2, <3>3
  <2> QED BY <2>2, <2>3
<1>2. ASSUME NEW t \in Planners \cup OutageThreads, Report(t) PROVE Allowed
  <2>1. t \in Threads /\ t \notin ApiThreads /\ pc[t] = "report" /\ LockFree
        /\ UNCHANGED migration
    BY <1>0, <1>2, MediaAssumption DEF Report, Planners
  <2>2. CASE ~Blocking /\ OpenIncident(t, tgt[t], FALSE)
    <3>1. pc' = [pc EXCEPT ![t] = "guard"] /\ lock' = t
      BY <2>2 DEF OpenIncident, Opens
    <3> QED BY <1>0, <2>1, <2>2, <3>1
  <2>3. CASE ~(~Blocking /\ OpenIncident(t, tgt[t], FALSE))
    <3>1. pc' = [pc EXCEPT ![t] = "idle"] /\ UNCHANGED lock
      BY <1>2, <2>3 DEF Report, Return
    <3> QED BY <1>0, <2>1, <3>1
  <2> QED BY <2>2, <2>3
<1>3. ASSUME NEW t \in Planners \cup OutageThreads, Guard(t) \/ Record(t) PROVE Allowed
  <2>1. \E p \in ProtectPCs : pc' = [pc EXCEPT ![t] = p]
    BY <1>3 DEF Guard, Record
  <2>2. pc[t] \in ProtectPCs /\ UNCHANGED <<lock, migration>>
    BY <1>3 DEF Guard, Record
  <2> QED BY <1>0, <2>1, <2>2
<1>4. ASSUME NEW t \in Planners \cup OutageThreads, StopServer(t) PROVE Allowed
  <2>1. pc[t] = "stop" /\ lock = t /\ t \in Threads /\ UNCHANGED migration
    BY <1>0, <1>4 DEF StopServer, Owned
  <2>2. CASE todo[t] # {}
    <3>1. pc' = [pc EXCEPT ![t] = "guard"] /\ UNCHANGED lock
      BY <1>4, <2>2 DEF StopServer
    <3> QED BY <1>0, <2>1, <3>1
  <2>3. CASE todo[t] = {} /\ t \in ApiThreads
    <3>1. pc' = [pc EXCEPT ![t] = "operate"] /\ UNCHANGED lock
      BY <1>4, <2>3, MediaAssumption DEF StopServer, Planners
    <3> QED BY <1>0, <2>1, <2>3, <3>1
  <2>4. CASE todo[t] = {} /\ t \notin ApiThreads
    <3>1. lock' = NoThread /\ \E p \in {"operate", "idle"} : pc' = [pc EXCEPT ![t] = p]
      BY <1>4, <2>4 DEF StopServer, Return
    <3> QED BY <1>0, <2>1, <2>4, <3>1
  <2> QED BY <2>2, <2>3, <2>4
<1>5. ASSUME NEW t \in Planners, Operate(t) \/ StartAgain(t) PROVE Allowed
  <2>1. pc[t] \in {"operate", "start_again"} /\ UNCHANGED <<lock, migration>>
    BY <1>5 DEF Operate, StartAgain
  <2>2. \E p \in {"start_again", "complete"} : pc' = [pc EXCEPT ![t] = p]
    BY <1>5 DEF Operate, StartAgain
  <2> QED BY <1>0, <2>1, <2>2
<1>6. ASSUME NEW t \in Planners, Complete(t) PROVE Allowed
  <2>1. pc[t] = "complete" /\ pc' = [pc EXCEPT ![t] = "idle"] /\ UNCHANGED migration
    BY <1>6 DEF Complete, Return
  <2>2. CASE t \in ApiThreads
    <3>1. lock = t /\ lock' = NoThread
      BY <1>0, <1>6, <2>2 DEF Complete, Owned, OperationPCs
    <3>2. t \in Threads /\ ~Busy(t, "idle") OBVIOUS
    <3> HIDE DEF Busy
    <3> QED BY ONLY <1>0, <2>1, <3>1, <3>2, EndingAllowed
  <2>3. CASE t \notin ApiThreads
    <3>1. UNCHANGED lock BY <1>6, <2>3 DEF Complete
    <3> QED BY <1>0, <2>1, <2>3, <3>1
  <2> QED BY <2>2, <2>3
<1>7. ASSUME NEW i \in Ids, Look(i) PROVE Allowed
  <2>1. pc' = [pc EXCEPT ![Monitor] = "idle_stop"] /\ pc[Monitor] = "idle"
        /\ UNCHANGED <<lock, migration>>
    BY <1>7 DEF Look
  <2> QED BY <1>0, <2>1
<1>8. CASE IdleStop
  <2>1. pc[Monitor] = "idle_stop" /\ UNCHANGED migration BY <1>8 DEF IdleStop
  <2>2. CASE todo[Monitor] = {} /\ pc' = [pc EXCEPT ![Monitor] = "ready"] /\ UNCHANGED lock
    BY <1>0, <2>1, <2>2
  <2>3. CASE UNCHANGED <<lock, pc>> BY <2>1, <2>3 DEF Allowed, Working, Blocking
  <2>4. CASE /\ LockFree /\ ~Blocking /\ lock' = Monitor
             /\ pc' = [pc EXCEPT ![Monitor] = "idle_mark"]
    BY <1>0, <2>1, <2>4
  <2> QED BY <1>8, <2>2, <2>3, <2>4 DEF IdleStop
<1>9. CASE IdleMark
  <2>1. pc[Monitor] = "idle_mark" /\ pc' = [pc EXCEPT ![Monitor] = "idle_stop"]
        /\ lock' = NoThread /\ UNCHANGED migration
    BY <1>9 DEF IdleMark
  <2>2. lock = Monitor BY <1>0, <2>1 DEF Owned
  <2>3. Monitor \in Threads /\ ~Busy(Monitor, "idle_stop") OBVIOUS
  <2> HIDE DEF Busy
  <2> QED BY ONLY <1>0, <2>1, <2>2, <2>3, EndingAllowed
<1>10. CASE Stable \/ NotYet
  <2>1. pc[Monitor] = "ready" /\ UNCHANGED <<lock, migration>>
    BY <1>10 DEF Stable, NotYet
  <2>2. \E p \in {"recover", "idle"} : pc' = [pc EXCEPT ![Monitor] = p]
    BY <1>10 DEF Stable, NotYet, Return
  <2> QED BY <1>0, <2>1, <2>2
<1>11. CASE Recover
  <2>1. pc[Monitor] = "recover" /\ LockFree /\ UNCHANGED migration BY <1>11 DEF Recover
  <2>2. CASE RecoveryRefused
    <3>1. pc' = [pc EXCEPT ![Monitor] = "idle"] /\ UNCHANGED lock
      BY <1>11, <2>2 DEF Recover, Return
    <3> QED BY <1>0, <2>1, <3>1
  <2>3. CASE ~RecoveryRefused
    <3>1. pc' = [pc EXCEPT ![Monitor] = "revive"] /\ lock' = Monitor
      BY <1>11, <2>3 DEF Recover
    <3>2. ~Blocking BY <2>3 DEF RecoveryRefused
    <3> QED BY <1>0, <2>1, <3>1, <3>2
  <2> QED BY <2>2, <2>3
<1>12. CASE Revive \/ RestoreGuard
  <2>1. pc[Monitor] \in ProtectPCs /\ UNCHANGED <<lock, migration>>
    BY <1>12 DEF Revive, RestoreGuard
  <2>2. \/ UNCHANGED pc
        \/ \E p \in {"settle", "restore", "revive"} : pc' = [pc EXCEPT ![Monitor] = p]
    BY <1>12 DEF Revive, RestoreGuard
  <2>3. CASE UNCHANGED pc BY <2>1, <2>3 DEF Allowed, Working, Blocking
  <2> QED BY <1>0, <2>1, <2>2, <2>3
<1>13. CASE Settle
  <2>1. pc[Monitor] = "settle" /\ pc' = [pc EXCEPT ![Monitor] = "idle"]
        /\ lock' = NoThread /\ UNCHANGED migration
    BY <1>13 DEF Settle, Return
  <2>2. lock = Monitor BY <1>0, <2>1 DEF Owned
  <2>3. Monitor \in Threads /\ ~Busy(Monitor, "idle") OBVIOUS
  <2> HIDE DEF Busy
  <2> QED BY ONLY <1>0, <2>1, <2>2, <2>3, EndingAllowed
<1>14. ASSUME NEW s \in Stores, Outage(s) PROVE Allowed
  <2>1. UNCHANGED <<lock, migration>> BY <1>14 DEF Outage
  <2>2. CASE UNCHANGED pc BY <2>1, <2>2 DEF Allowed, Working, Blocking
  <2>3. CASE \E t \in OutageThreads :
               pc[t] = "idle" /\ pc' = [pc EXCEPT ![t] = "report"]
    <3>1. \A t \in OutageThreads : t \in Threads /\ t \notin ApiThreads BY DEF Planners
    <3> QED BY <1>0, <2>1, <2>3, <3>1
  <2> QED BY <1>14, <2>2, <2>3 DEF Outage
<1>15. CASE StartMigration
  <2>1. Working' = Working BY <1>15 DEF StartMigration, Working
  <2>2. Admission!Admit_job
    BY <1>15, <2>1 DEF StartMigration, LockFree, Blocking, Working, Admission!Admit_job
  <2> QED BY <2>2 DEF Allowed, Admission!Next
<1>16. CASE RepeatPreflight \/ EndMigration
  <2>1. Working' = Working /\ UNCHANGED lock
    BY <1>16 DEF RepeatPreflight, EndMigration, Working
  <2>2. CASE migration' = "none"
    <3>1. Admission!End_job BY <2>1, <2>2 DEF Blocking, Working, Admission!End_job
    <3> QED BY <3>1 DEF Allowed, Admission!Next
  <2>3. CASE migration' # "none"
    <3>1. UNCHANGED Blocking BY <1>16, <2>3 DEF RepeatPreflight, EndMigration, Blocking
    <3> QED BY <2>1, <3>1 DEF Allowed
  <2> QED BY <2>2, <2>3
<1>17. CASE Crash
  <2>1. Working' = {} /\ lock' = NoThread BY <1>17 DEF Crash, Working
  <2>2. UNCHANGED Blocking BY <1>17 DEF Crash, Blocking
  <2>3. Admission!Die BY <2>1, <2>2 DEF Admission!Die, Working
  <2> QED BY <2>3 DEF Allowed, Admission!Next
<1>18. CASE UNCHANGED <<pc, lock, migration>>
  BY <1>18 DEF Allowed, Working, Blocking
<1> QED
  BY <1>1, <1>2, <1>3, <1>4, <1>5, <1>6, <1>7, <1>8, <1>9, <1>10, <1>11, <1>12, <1>13,
     <1>14, <1>15, <1>16, <1>17, <1>18
     DEF Next, Begin, Action, MonitorStep, Environment, Repair, MediaStart, MediaStop, vars

\* Protection honours the migration admission: requests with the lock held to their
\* end, updates and outages while they begin, the monitor for every single stop and
\* recovery, and across restarts of DUMB in the middle of any of them.
THEOREM ProtectionHonoursAdmission == Spec => AdmissionHonoured
<1>1. Init => Admission!Init
  <2> SUFFICES ASSUME Init PROVE Admission!Init OBVIOUS
  <2>1. {t \in Threads : pc[t] \in ProtectPCs \/ (t \in ApiThreads /\ pc[t] # "idle")} = {}
    BY Points DEF Init
  <2> QED BY <2>1 DEF Init, Admission!Init, Blocking
<1>2. IndInv /\ [Next]_vars => [Admission!Next]_(Admission!vars)
  BY AdmissionStep DEF Allowed, Working, Admission!vars
<1> QED BY <1>1, <1>2, Invariance, PTL DEF Spec, AdmissionHonoured, Admission!Spec
=============================================================================
