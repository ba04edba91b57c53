---------------------- MODULE ProcessSupervisor_proofs ----------------------
(* Theorems of ProcessSupervisor for every number of services, processes    *)
(* and threads: type correctness, migration exclusion, planned exits that   *)
(* are not reported, stops that stick, the restart budget and the tables.   *)
EXTENDS ProcessSupervisor, SequenceTheorems, TLAPS

-----------------------------------------------------------------------------
(* The inductive invariant.                                                *)

\* Which threads can be where, and what they carry there.
NamedPCs == LifecyclePCs \cup SchedulePCs \cup {"backoff", "decide"}
Wellformed ==
  /\ \A t \in Threads : pc[t] \in NamedPCs => nm[t] \in Names
  /\ \A t \in Threads :
       pc[t] \in StopTargetPCs \cup {"settle", "track", "publish"}
         => pd[t] \in Pids /\ os[pd[t]] # "none"
  /\ \A n \in Names : process_names[n] # NoPid => os[process_names[n]] # "none"
  /\ \A p \in Pids : os[p] # "none" => owner[p] \in Names
  /\ \A t \in Threads : pc[t] \in {"backoff", "decide"} => t \in RestartThreads
  /\ \A t \in Threads : pc[t] \in SchedulePCs => t \in {Main, Monitor}
  /\ \A t \in Threads : pc[t] \in HandlerPCs => t = Main
  /\ pc[Main] \in {"reaped", "planned", "unplanned"}
       => nm[Main] \in Names /\ pd[Main] \in Pids /\ os[pd[Main]] = "reaped"

\* Who is entitled to a lifecycle, and that a migration leaves nobody entitled.
Entitled ==
  /\ \A t \in ApiThreads \cup RestartThreads :
       pc[t] \in LifecyclePCs \cup {"decide", "release"} => lock = t
  /\ \A t \in BootThreads :
       pc[t] \in LifecyclePCs \cup {"release"} => t \in reserved
  /\ MigrationBlocks =>
       /\ reserved = {}
       /\ \A t \in ApiThreads \cup RestartThreads : pc[t] \notin LifecyclePCs

\* A process some stop_process call is stopping is marked, or already reaped;
\* when the mark is dropped it is reaped for certain.
StopsMarked ==
  \A t \in Threads :
    /\ pc[t] \in StopTargetPCs => pd[t] \in intentional \/ os[pd[t]] = "reaped"
    /\ pc[t] \in {"untrack", "clear"} => os[pd[t]] = "reaped"

IndInv == TypeOK /\ Wellformed /\ Entitled /\ StopsMarked

-----------------------------------------------------------------------------
(* Lemmas about control points and suspended calls, then one per group of   *)
(* actions.                                                                *)

\* Every label a step can go to is a control point.
LEMMA PointsTyped ==
  /\ "idle" \in PCs /\ "backoff" \in PCs /\ "decide" \in PCs
  /\ "visit" \in PCs /\ "release" \in PCs /\ "admit" \in PCs
  /\ "reaped" \in PCs /\ "planned" \in PCs /\ "unplanned" \in PCs
  /\ "reset" \in PCs /\ "check" \in PCs /\ "wait" \in PCs
  /\ "launch" \in PCs /\ "settle" \in PCs /\ "track" \in PCs
  /\ "publish" \in PCs /\ "lookup" \in PCs /\ "disable" \in PCs
  /\ "signal" \in PCs /\ "reap" \in PCs /\ "untrack" \in PCs
  /\ "clear" \in PCs /\ "attempt" \in PCs /\ "settled" \in PCs
  /\ "consider" \in PCs /\ "blocked" \in PCs /\ "unpend" \in PCs
  /\ "record" \in PCs /\ "recording" \in PCs /\ "spawn" \in PCs
  /\ \A t \in Threads :
       AfterStart(t) \in PCs /\ AfterStop(t) \in PCs /\ AfterSchedule(t) \in PCs
  BY DEF PCs, HandlerPCs, LifecyclePCs, StartPCs, StopPCs, StopTargetPCs, SchedulePCs,
         AfterStart, AfterStop, AfterSchedule

\* What Wellformed says of a thread, by control point.
LEMMA Carried ==
  ASSUME IndInv, NEW t \in Threads
  PROVE  /\ pc[t] \in {"admit", "reset", "check", "wait", "launch", "settle", "track",
                       "publish", "lookup", "disable", "signal", "reap", "untrack",
                       "clear", "attempt", "settled", "consider", "blocked", "unpend",
                       "record", "recording", "spawn", "backoff", "decide"}
              => nm[t] \in Names
         /\ pc[t] \in {"settle", "track", "publish", "disable", "signal", "reap",
                       "untrack", "clear"}
              => pd[t] \in Pids /\ os[pd[t]] # "none"
         /\ pc[t] \in {"consider", "blocked", "unpend", "record", "recording", "spawn"}
              => t \in {Main, Monitor}
         /\ pc[t] \in {"visit", "reaped", "planned", "unplanned"} => t = Main
  BY DEF IndInv, Wellformed, HandlerPCs, NamedPCs, LifecyclePCs, StartPCs, StopPCs,
         StopTargetPCs, SchedulePCs

\* The innermost suspended handler call, and what is left under it.
LEMMA SuspendedCall ==
  ASSUME IndInv, frames # << >>
  PROVE  /\ frames[Len(frames)].at \in {"blocked", "recording"}
         /\ frames[Len(frames)].name \in Names
         /\ SubSeq(frames, 1, Len(frames) - 1)
              \in Seq([at : {"blocked", "recording"}, name : Names])
<1> DEFINE Frame == [at : {"blocked", "recording"}, name : Names]
<1>1. frames \in Seq(Frame) BY DEF IndInv, TypeOK
<1>2. Len(frames) \in Nat \ {0}
  <2>1. Len(frames) \in Nat BY <1>1, LenProperties
  <2>2. Len(frames) # 0 BY <1>1, EmptySeq
  <2> QED BY <2>1, <2>2
<1>3. frames[Len(frames)] \in Frame
  <2>1. Len(frames) \in 1 .. Len(frames) BY <1>2
  <2> QED BY <1>1, <2>1, ElementOfSeq
<1>4. SubSeq(frames, 1, Len(frames) - 1) \in Seq(Frame)
  <2>1. ASSUME NEW i \in 1 .. Len(frames) - 1 PROVE frames[i] \in Frame
    <3>1. i \in 1 .. Len(frames) BY <1>2
    <3> QED BY <1>1, <3>1, ElementOfSeq
  <2>2. 1 \in Int /\ Len(frames) - 1 \in Int BY <1>2
  <2> QED BY <2>1, <2>2, SubSeqProperties
<1> QED BY <1>3, <1>4

\* A start keeps its thread's entitlement; only Launch creates a process.
LEMMA StartPreserves ==
  ASSUME IndInv, NEW t \in Threads, StartStep(t)
  PROVE  IndInv'
<1> USE DistinctActors
      DEF IndInv, Goto, LockOpen, RestartStateOpen, MigrationBlocks, AlreadyRunning,
          Threads, Ops, threadVars, kernelVars, tableVars, policyVars, admitVars,
          mainVars, lifeVars, NamedPCs, LifecyclePCs, StartPCs, StopPCs,
          StopTargetPCs, SchedulePCs, HandlerPCs, AfterStart, AfterStop, AfterSchedule
<1>1. CASE Admit(t)
  <2>1. TypeOK' BY <1>1, PointsTyped, Carried DEF Admit, TypeOK
  <2>2. Wellformed' BY <1>1 DEF Admit, TypeOK, Wellformed
  <2>3. Entitled' BY <1>1 DEF Admit, TypeOK, Wellformed, Entitled
  <2>4. StopsMarked' BY <1>1 DEF Admit, TypeOK, Wellformed, StopsMarked
  <2> QED BY <2>1, <2>2, <2>3, <2>4
<1>2. CASE ResetPolicy(t)
  <2>1. TypeOK' BY <1>2, PointsTyped, Carried DEF ResetPolicy, TypeOK
  <2>2. Wellformed' BY <1>2 DEF ResetPolicy, TypeOK, Wellformed
  <2>3. Entitled' BY <1>2 DEF ResetPolicy, TypeOK, Wellformed, Entitled
  <2>4. StopsMarked' BY <1>2 DEF ResetPolicy, TypeOK, Wellformed, StopsMarked
  <2> QED BY <2>1, <2>2, <2>3, <2>4
<1>3. CASE CheckRunning(t)
  <2>1. TypeOK' BY <1>3, PointsTyped, Carried DEF CheckRunning, TypeOK
  <2>2. Wellformed' BY <1>3 DEF CheckRunning, TypeOK, Wellformed
  <2>3. Entitled' BY <1>3 DEF CheckRunning, TypeOK, Wellformed, Entitled
  <2>4. StopsMarked' BY <1>3 DEF CheckRunning, TypeOK, Wellformed, StopsMarked
  <2> QED BY <2>1, <2>2, <2>3, <2>4
<1>4. CASE WaitMounts(t)
  <2>1. TypeOK'
    <3>1. \E l \in {"launch", AfterStart(t)} : pc' = [pc EXCEPT ![t] = l]
      BY <1>4 DEF WaitMounts
    <3>2. pc' \in [Threads -> PCs] BY <3>1, PointsTyped DEF TypeOK
    <3> QED BY <1>4, <3>2 DEF WaitMounts, TypeOK
  <2>2. Wellformed' BY <1>4 DEF WaitMounts, TypeOK, Wellformed
  <2>3. Entitled' BY <1>4 DEF WaitMounts, TypeOK, Wellformed, Entitled
  <2>4. StopsMarked' BY <1>4 DEF WaitMounts, TypeOK, Wellformed, StopsMarked
  <2> QED BY <2>1, <2>2, <2>3, <2>4
<1>5. CASE Launch(t)
  <2>1. TypeOK'
    <3>1. CASE \E p \in Pids : os[p] = "none" /\ os' = [os EXCEPT ![p] = "running"]
      <4>1. PICK p \in Pids :
              /\ os[p] = "none" /\ os' = [os EXCEPT ![p] = "running"]
              /\ owner' = [owner EXCEPT ![p] = nm[t]]
              /\ pd' = [pd EXCEPT ![t] = p] /\ pc' = [pc EXCEPT ![t] = "settle"]
        BY <1>5, <3>1 DEF Launch, TypeOK
      <4> QED BY <1>5, <4>1, PointsTyped DEF Launch, TypeOK
    <3>2. CASE UNCHANGED <<os, owner, pd>> /\ Goto(t, AfterStart(t))
      BY <1>5, <3>2, PointsTyped DEF Launch, TypeOK
    <3> QED BY <1>5, <3>1, <3>2 DEF Launch
  <2>2. Wellformed'
    <3>1. CASE \E p \in Pids : os[p] = "none" /\ os' = [os EXCEPT ![p] = "running"]
      <4>1. PICK p \in Pids :
              /\ os[p] = "none" /\ os' = [os EXCEPT ![p] = "running"]
              /\ owner' = [owner EXCEPT ![p] = nm[t]]
              /\ pd' = [pd EXCEPT ![t] = p] /\ pc' = [pc EXCEPT ![t] = "settle"]
        BY <1>5, <3>1 DEF Launch, TypeOK
      <4> QED BY <1>5, <4>1 DEF Launch, TypeOK, Wellformed
    <3>2. CASE UNCHANGED <<os, owner, pd>> /\ Goto(t, AfterStart(t))
      BY <1>5, <3>2 DEF Launch, TypeOK, Wellformed
    <3> QED BY <1>5, <3>1, <3>2 DEF Launch
  <2>3. Entitled' BY <1>5 DEF Launch, TypeOK, Wellformed, Entitled
  <2>4. StopsMarked' BY <1>5 DEF Launch, TypeOK, Wellformed, StopsMarked
  <2> QED BY <2>1, <2>2, <2>3, <2>4
<1>6. CASE Settle(t)
  <2>1. TypeOK'
    <3>1. CASE os[pd[t]] = "running"
      <4>1. pc' \in [Threads -> PCs]
        <5>1. pc' = [pc EXCEPT ![t] = "track"] BY <1>6, <3>1 DEF Settle
        <5> QED BY <5>1, PointsTyped DEF TypeOK
      <4> QED BY <1>6, <3>1, <4>1 DEF Settle, TypeOK
    <3>2. CASE os[pd[t]] # "running"
      <4>1. pc' \in [Threads -> PCs]
        <5>1. pc' = [pc EXCEPT ![t] = AfterStart(t)] BY <1>6, <3>2 DEF Settle
        <5> QED BY <5>1, PointsTyped DEF TypeOK
      <4>2. os' \in [Pids -> {"none", "running", "zombie", "reaped"}]
        BY <1>6, <3>2 DEF Settle, TypeOK
      <4> QED BY <1>6, <3>2, <4>1, <4>2 DEF Settle, TypeOK
    <3> QED BY <3>1, <3>2
  <2>2. Wellformed' BY <1>6 DEF Settle, TypeOK, Wellformed
  <2>3. Entitled' BY <1>6 DEF Settle, TypeOK, Wellformed, Entitled
  <2>4. StopsMarked' BY <1>6 DEF Settle, TypeOK, Wellformed, StopsMarked
  <2> QED BY <2>1, <2>2, <2>3, <2>4
<1>7. CASE Track(t)
  <2>1. TypeOK' BY <1>7, PointsTyped, Carried DEF Track, TypeOK
  <2>2. Wellformed' BY <1>7 DEF Track, TypeOK, Wellformed
  <2>3. Entitled' BY <1>7 DEF Track, TypeOK, Wellformed, Entitled
  <2>4. StopsMarked' BY <1>7 DEF Track, TypeOK, Wellformed, StopsMarked
  <2> QED BY <2>1, <2>2, <2>3, <2>4
<1>8. CASE Publish(t)
  <2>1. TypeOK' BY <1>8, PointsTyped, Carried DEF Publish, TypeOK
  <2>2. Wellformed' BY <1>8 DEF Publish, TypeOK, Wellformed
  <2>3. Entitled' BY <1>8 DEF Publish, TypeOK, Wellformed, Entitled
  <2>4. StopsMarked' BY <1>8 DEF Publish, TypeOK, Wellformed, StopsMarked
  <2> QED BY <2>1, <2>2, <2>3, <2>4
<1> QED BY <1>1, <1>2, <1>3, <1>4, <1>5, <1>6, <1>7, <1>8 DEF StartStep

\* A stop keeps the mark of its target until the target is reaped.
LEMMA StopPreserves ==
  ASSUME IndInv, NEW t \in Threads, StopStep(t)
  PROVE  IndInv'
<1> USE DistinctActors
      DEF IndInv, Goto, LockOpen, RestartStateOpen, MigrationBlocks, AlreadyRunning,
          Threads, Ops, threadVars, kernelVars, tableVars, policyVars, admitVars,
          mainVars, lifeVars, NamedPCs, LifecyclePCs, StartPCs, StopPCs,
          StopTargetPCs, SchedulePCs, HandlerPCs, AfterStart, AfterStop, AfterSchedule
<1>1. CASE Lookup(t)
  <2>1. TypeOK' BY <1>1, PointsTyped, Carried DEF Lookup, TypeOK
  <2>2. Wellformed'
    <3>1. CASE AlreadyRunning(nm[t])
      <4>1. process_names[nm[t]] \in Pids BY <1>1, <3>1, Carried DEF Lookup, TypeOK
      <4>2. /\ pd' = [pd EXCEPT ![t] = process_names[nm[t]]] /\ pc[t] = "lookup"
            /\ \E l \in {"signal", "disable"} : pc' = [pc EXCEPT ![t] = l]
            /\ UNCHANGED <<nm, os, owner, process_names>>
        BY <1>1, <3>1 DEF Lookup
      <4>3. os[process_names[nm[t]]] # "none" BY <3>1, <4>2 DEF Wellformed
      <4> QED BY <4>1, <4>2, <4>3 DEF TypeOK, Wellformed
    <3>2. CASE ~AlreadyRunning(nm[t]) BY <1>1, <3>2 DEF Lookup, TypeOK, Wellformed
    <3> QED BY <3>1, <3>2
  <2>3. Entitled' BY <1>1 DEF Lookup, TypeOK, Wellformed, Entitled
  <2>4. StopsMarked'
    <3>1. CASE AlreadyRunning(nm[t])
      <4>1. process_names[nm[t]] \in Pids BY <1>1, <3>1, Carried DEF Lookup, TypeOK
      <4>2. /\ pd' = [pd EXCEPT ![t] = process_names[nm[t]]]
            /\ intentional' = intentional \cup {process_names[nm[t]]}
            /\ \E l \in {"signal", "disable"} : pc' = [pc EXCEPT ![t] = l]
            /\ UNCHANGED os
        BY <1>1, <3>1 DEF Lookup
      <4> QED BY <4>1, <4>2 DEF TypeOK, StopsMarked
    <3>2. CASE ~AlreadyRunning(nm[t]) BY <1>1, <3>2 DEF Lookup, TypeOK, StopsMarked
    <3> QED BY <3>1, <3>2
  <2> QED BY <2>1, <2>2, <2>3, <2>4
<1>2. CASE DisableRestart(t)
  <2>1. TypeOK' BY <1>2, PointsTyped, Carried DEF DisableRestart, TypeOK
  <2>2. Wellformed' BY <1>2 DEF DisableRestart, TypeOK, Wellformed
  <2>3. Entitled' BY <1>2 DEF DisableRestart, TypeOK, Wellformed, Entitled
  <2>4. StopsMarked' BY <1>2 DEF DisableRestart, TypeOK, Wellformed, StopsMarked
  <2> QED BY <2>1, <2>2, <2>3, <2>4
<1>3. CASE SignalGroup(t)
  <2>1. TypeOK' BY <1>3, PointsTyped, Carried DEF SignalGroup, TypeOK
  <2>2. Wellformed' BY <1>3 DEF SignalGroup, TypeOK, Wellformed
  <2>3. Entitled' BY <1>3 DEF SignalGroup, TypeOK, Wellformed, Entitled
  <2>4. StopsMarked' BY <1>3 DEF SignalGroup, TypeOK, Wellformed, StopsMarked
  <2> QED BY <2>1, <2>2, <2>3, <2>4
<1>4. CASE AwaitDeath(t)
  <2>1. TypeOK' BY <1>4, PointsTyped, Carried DEF AwaitDeath, TypeOK
  <2>2. Wellformed' BY <1>4 DEF AwaitDeath, TypeOK, Wellformed
  <2>3. Entitled' BY <1>4 DEF AwaitDeath, TypeOK, Wellformed, Entitled
  <2>4. StopsMarked' BY <1>4 DEF AwaitDeath, TypeOK, Wellformed, StopsMarked
  <2> QED BY <2>1, <2>2, <2>3, <2>4
<1>5. CASE Untrack(t)
  <2>1. TypeOK' BY <1>5, PointsTyped, Carried DEF Untrack, TypeOK
  <2>2. Wellformed' BY <1>5 DEF Untrack, TypeOK, Wellformed
  <2>3. Entitled' BY <1>5 DEF Untrack, TypeOK, Wellformed, Entitled
  <2>4. StopsMarked' BY <1>5 DEF Untrack, TypeOK, Wellformed, StopsMarked
  <2> QED BY <2>1, <2>2, <2>3, <2>4
<1>6. CASE ClearMark(t)
  <2>1. TypeOK' BY <1>6, PointsTyped, Carried DEF ClearMark, TypeOK
  <2>2. Wellformed' BY <1>6 DEF ClearMark, TypeOK, Wellformed
  <2>3. Entitled' BY <1>6 DEF ClearMark, TypeOK, Wellformed, Entitled
  <2>4. StopsMarked' BY <1>6 DEF ClearMark, TypeOK, Wellformed, StopsMarked
  <2> QED BY <2>1, <2>2, <2>3, <2>4
<1> QED BY <1>1, <1>2, <1>3, <1>4, <1>5, <1>6 DEF StopStep

\* A restart thread gets past its decision only when no migration blocks.
LEMMA RestartPreserves ==
  ASSUME IndInv, NEW t \in Threads, RestartStep(t)
  PROVE  IndInv'
<1> USE DistinctActors
      DEF IndInv, Goto, LockOpen, RestartStateOpen, MigrationBlocks, AlreadyRunning,
          Threads, Ops, threadVars, kernelVars, tableVars, policyVars, admitVars,
          mainVars, lifeVars, NamedPCs, LifecyclePCs, StartPCs, StopPCs,
          StopTargetPCs, SchedulePCs, HandlerPCs, AfterStart, AfterStop, AfterSchedule
<1>1. CASE WakeRestart(t)
  <2>1. TypeOK' BY <1>1, PointsTyped, Carried DEF WakeRestart, TypeOK
  <2>2. Wellformed' BY <1>1 DEF WakeRestart, TypeOK, Wellformed
  <2>3. Entitled' BY <1>1 DEF WakeRestart, TypeOK, Wellformed, Entitled
  <2>4. StopsMarked' BY <1>1 DEF WakeRestart, TypeOK, Wellformed, StopsMarked
  <2> QED BY <2>1, <2>2, <2>3, <2>4
<1>2. CASE Decide(t)
  <2>1. TypeOK'
    <3>1. CASE RelaunchRefused(nm[t])
      <4>1. pc' \in [Threads -> PCs]
        <5>1. pc' = [pc EXCEPT ![t] = "release"] BY <1>2, <3>1 DEF Decide
        <5> QED BY <5>1, PointsTyped DEF TypeOK
      <4>2. pending' \in [Names -> BOOLEAN] BY <1>2, <3>1 DEF Decide, TypeOK
      <4> QED BY <1>2, <4>1, <4>2 DEF Decide, TypeOK
    <3>2. CASE ~RelaunchRefused(nm[t])
      <4>1. pc' \in [Threads -> PCs]
        <5>1. pc' = [pc EXCEPT ![t] = IF AlreadyRunning(nm[t]) THEN "lookup"
                                                               ELSE "attempt"]
          BY <1>2, <3>2 DEF Decide
        <5> QED BY <5>1, PointsTyped DEF TypeOK
      <4> QED BY <1>2, <3>2, <4>1 DEF Decide, TypeOK
    <3> QED BY <3>1, <3>2
  <2>2. Wellformed' BY <1>2 DEF Decide, RelaunchRefused, TypeOK, Wellformed
  <2>3. Entitled' BY <1>2 DEF Decide, RelaunchRefused, TypeOK, Wellformed, Entitled
  <2>4. StopsMarked'
    BY <1>2 DEF Decide, RelaunchRefused, TypeOK, Wellformed, StopsMarked
  <2> QED BY <2>1, <2>2, <2>3, <2>4
<1>3. CASE RecordAttempt(t)
  <2>1. TypeOK' BY <1>3, PointsTyped, Carried DEF RecordAttempt, TypeOK
  <2>2. Wellformed' BY <1>3 DEF RecordAttempt, TypeOK, Wellformed
  <2>3. Entitled' BY <1>3 DEF RecordAttempt, TypeOK, Wellformed, Entitled
  <2>4. StopsMarked' BY <1>3 DEF RecordAttempt, TypeOK, Wellformed, StopsMarked
  <2> QED BY <2>1, <2>2, <2>3, <2>4
<1>4. CASE FinishRestart(t)
  <2>1. TypeOK' BY <1>4, PointsTyped, Carried DEF FinishRestart, TypeOK
  <2>2. Wellformed' BY <1>4 DEF FinishRestart, TypeOK, Wellformed
  <2>3. Entitled' BY <1>4 DEF FinishRestart, TypeOK, Wellformed, Entitled
  <2>4. StopsMarked' BY <1>4 DEF FinishRestart, TypeOK, Wellformed, StopsMarked
  <2> QED BY <2>1, <2>2, <2>3, <2>4
<1> QED BY <1>1, <1>2, <1>3, <1>4 DEF RestartStep

\* Scheduling touches the policy tables and hands a service to a new thread.
LEMMA SchedulePreserves ==
  ASSUME IndInv, NEW t \in Threads, ScheduleStep(t)
  PROVE  IndInv'
<1> USE DistinctActors
      DEF IndInv, Goto, LockOpen, RestartStateOpen, MigrationBlocks, AlreadyRunning,
          Threads, Ops, threadVars, kernelVars, tableVars, policyVars, admitVars,
          mainVars, lifeVars, NamedPCs, LifecyclePCs, StartPCs, StopPCs,
          StopTargetPCs, SchedulePCs, HandlerPCs, AfterStart, AfterStop, AfterSchedule
<1>1. CASE Consider(t)
  <2>1. TypeOK' BY <1>1, PointsTyped, Carried DEF Consider, TypeOK
  <2>2. Wellformed' BY <1>1 DEF Consider, TypeOK, Wellformed
  <2>3. Entitled' BY <1>1 DEF Consider, TypeOK, Wellformed, Entitled
  <2>4. StopsMarked' BY <1>1 DEF Consider, TypeOK, Wellformed, StopsMarked
  <2> QED BY <2>1, <2>2, <2>3, <2>4
<1>2. CASE AskMigration(t)
  <2>1. TypeOK' BY <1>2, PointsTyped, Carried DEF AskMigration, TypeOK
  <2>2. Wellformed' BY <1>2 DEF AskMigration, TypeOK, Wellformed
  <2>3. Entitled' BY <1>2 DEF AskMigration, TypeOK, Wellformed, Entitled
  <2>4. StopsMarked' BY <1>2 DEF AskMigration, TypeOK, Wellformed, StopsMarked
  <2> QED BY <2>1, <2>2, <2>3, <2>4
<1>3. CASE Unpend(t)
  <2>1. TypeOK' BY <1>3, PointsTyped, Carried DEF Unpend, TypeOK
  <2>2. Wellformed' BY <1>3 DEF Unpend, TypeOK, Wellformed
  <2>3. Entitled' BY <1>3 DEF Unpend, TypeOK, Wellformed, Entitled
  <2>4. StopsMarked' BY <1>3 DEF Unpend, TypeOK, Wellformed, StopsMarked
  <2> QED BY <2>1, <2>2, <2>3, <2>4
<1>4. CASE EnterRecord(t)
  <2>1. TypeOK' BY <1>4, PointsTyped, Carried DEF EnterRecord, TypeOK
  <2>2. Wellformed' BY <1>4 DEF EnterRecord, TypeOK, Wellformed
  <2>3. Entitled' BY <1>4 DEF EnterRecord, TypeOK, Wellformed, Entitled
  <2>4. StopsMarked' BY <1>4 DEF EnterRecord, TypeOK, Wellformed, StopsMarked
  <2> QED BY <2>1, <2>2, <2>3, <2>4
<1>5. CASE Record(t)
  <2>1. TypeOK'
    <3>1. PICK kept \in PrunedCounts(nm[t]) :
            /\ recent' = [recent EXCEPT ![nm[t]] = kept]
            /\ IF BudgetLeft(kept) /\ ~pending[nm[t]]
                 THEN /\ pending' = [pending EXCEPT ![nm[t]] = TRUE]
                      /\ Goto(t, "spawn")
                 ELSE /\ UNCHANGED pending
                      /\ Goto(t, AfterSchedule(t))
      BY <1>5 DEF Record
    <3>2. kept \in Nat BY <1>5, Carried DEF Record, PrunedCounts, TypeOK
    <3>3. recent' \in [Names -> Nat] BY <3>1, <3>2 DEF TypeOK
    <3>4. CASE BudgetLeft(kept) /\ ~pending[nm[t]]
      <4>1. pc' \in [Threads -> PCs]
        <5>1. pc' = [pc EXCEPT ![t] = "spawn"] BY <3>1, <3>4
        <5> QED BY <5>1, PointsTyped DEF TypeOK
      <4>2. pending' \in [Names -> BOOLEAN] BY <3>1, <3>4 DEF TypeOK
      <4> QED BY <1>5, <3>3, <4>1, <4>2 DEF Record, TypeOK
    <3>5. CASE ~(BudgetLeft(kept) /\ ~pending[nm[t]])
      <4>1. pc' \in [Threads -> PCs]
        <5>1. pc' = [pc EXCEPT ![t] = AfterSchedule(t)] BY <3>1, <3>5
        <5> QED BY <5>1, PointsTyped DEF TypeOK
      <4>2. pending' \in [Names -> BOOLEAN] BY <3>1, <3>5 DEF TypeOK
      <4> QED BY <1>5, <3>3, <4>1, <4>2 DEF Record, TypeOK
    <3> QED BY <3>4, <3>5
  <2>2. Wellformed' BY <1>5 DEF Record, PrunedCounts, BudgetLeft, TypeOK, Wellformed
  <2>3. Entitled'
    BY <1>5 DEF Record, PrunedCounts, BudgetLeft, TypeOK, Wellformed, Entitled
  <2>4. StopsMarked'
    BY <1>5 DEF Record, PrunedCounts, BudgetLeft, TypeOK, Wellformed, StopsMarked
  <2> QED BY <2>1, <2>2, <2>3, <2>4
<1>6. CASE Spawn(t)
  <2>1. TypeOK' BY <1>6, PointsTyped, Carried DEF Spawn, TypeOK
  <2>2. Wellformed'
    <3>1. PICK r \in RestartThreads :
            /\ pc[r] = "idle"
            /\ pc' = [pc EXCEPT ![t] = AfterSchedule(t), ![r] = "backoff"]
            /\ nm' = [nm EXCEPT ![r] = nm[t]]
      BY <1>6 DEF Spawn
    <3>2. nm[t] \in Names /\ t \in {Main, Monitor} /\ t # r
      BY <1>6, Carried DEF Spawn
    <3> QED BY <1>6, <3>1, <3>2 DEF Spawn, TypeOK, Wellformed
  <2>3. Entitled' BY <1>6 DEF Spawn, TypeOK, Wellformed, Entitled
  <2>4. StopsMarked' BY <1>6 DEF Spawn, TypeOK, Wellformed, StopsMarked
  <2> QED BY <2>1, <2>2, <2>3, <2>4
<1> QED BY <1>1, <1>2, <1>3, <1>4, <1>5, <1>6 DEF ScheduleStep

\* The handler marks what it reaps as reaped before it drops the mark.
LEMMA HandlerPreserves ==
  ASSUME IndInv, Handler
  PROVE  IndInv'
<1> USE DistinctActors
      DEF IndInv, Goto, LockOpen, RestartStateOpen, MigrationBlocks, AlreadyRunning,
          Threads, Ops, threadVars, kernelVars, tableVars, policyVars, admitVars,
          mainVars, lifeVars, NamedPCs, LifecyclePCs, StartPCs, StopPCs,
          StopTargetPCs, SchedulePCs, HandlerPCs, AfterStart, AfterStop, AfterSchedule
<1>1. CASE HandlerEnter
  <2>1. TypeOK' BY <1>1, PointsTyped, Carried DEF HandlerEnter, TypeOK
  <2>2. Wellformed' BY <1>1 DEF HandlerEnter, TypeOK, Wellformed
  <2>3. Entitled' BY <1>1 DEF HandlerEnter, TypeOK, Wellformed, Entitled
  <2>4. StopsMarked' BY <1>1 DEF HandlerEnter, TypeOK, Wellformed, StopsMarked
  <2> QED BY <2>1, <2>2, <2>3, <2>4
<1>2. CASE HandlerNested
  <2>1. TypeOK'
    <3>1. [at |-> pc[Main], name |-> nm[Main]]
             \in [at : {"blocked", "recording"}, name : Names]
      BY <1>2, Carried DEF HandlerNested
    <3>2. frames' \in Seq([at : {"blocked", "recording"}, name : Names])
      BY <1>2, <3>1 DEF HandlerNested, TypeOK
    <3> QED BY <1>2, <3>2, PointsTyped DEF HandlerNested, TypeOK
  <2>2. Wellformed' BY <1>2 DEF HandlerNested, TypeOK, Wellformed
  <2>3. Entitled' BY <1>2 DEF HandlerNested, TypeOK, Wellformed, Entitled
  <2>4. StopsMarked' BY <1>2 DEF HandlerNested, TypeOK, Wellformed, StopsMarked
  <2> QED BY <2>1, <2>2, <2>3, <2>4
<1>3. CASE HandlerReturn
  <2>1. TypeOK'
    <3>1. CASE frames = << >> BY <1>3, <3>1, PointsTyped DEF HandlerReturn, TypeOK
    <3>2. CASE frames # << >>
      <4>1. /\ nm' = [nm EXCEPT ![Main] = frames[Len(frames)].name]
            /\ pc' = [pc EXCEPT ![Main] = frames[Len(frames)].at]
            /\ frames' = SubSeq(frames, 1, Len(frames) - 1)
        BY <1>3, <3>2 DEF HandlerReturn
      <4>2. frames' \in Seq([at : {"blocked", "recording"}, name : Names])
        BY <3>2, <4>1, SuspendedCall
      <4>3. nm' \in [Threads -> Names \cup {NoName}] /\ pc' \in [Threads -> PCs]
        BY <3>2, <4>1, SuspendedCall, PointsTyped DEF TypeOK
      <4> QED BY <1>3, <4>2, <4>3 DEF HandlerReturn, TypeOK
    <3> QED BY <3>1, <3>2
  <2>2. Wellformed'
    <3>1. CASE frames = << >> BY <1>3, <3>1 DEF HandlerReturn, TypeOK, Wellformed
    <3>2. CASE frames # << >>
      BY <1>3, <3>2, SuspendedCall DEF HandlerReturn, TypeOK, Wellformed
    <3> QED BY <3>1, <3>2
  <2>3. Entitled'
    <3>1. CASE frames = << >>
      BY <1>3, <3>1 DEF HandlerReturn, TypeOK, Wellformed, Entitled
    <3>2. CASE frames # << >>
      BY <1>3, <3>2, SuspendedCall DEF HandlerReturn, TypeOK, Wellformed, Entitled
    <3> QED BY <3>1, <3>2
  <2>4. StopsMarked'
    <3>1. CASE frames = << >>
      BY <1>3, <3>1 DEF HandlerReturn, TypeOK, Wellformed, StopsMarked
    <3>2. CASE frames # << >>
      BY <1>3, <3>2, SuspendedCall DEF HandlerReturn, TypeOK, Wellformed,
             StopsMarked
    <3> QED BY <3>1, <3>2
  <2> QED BY <2>1, <2>2, <2>3, <2>4
<1>4. CASE \E p \in Pids : Visit(p)
  <2>1. PICK p \in Pids : Visit(p) BY <1>4
  <2>2. CASE os[p] = "zombie"
    <3>1. /\ nm' = [nm EXCEPT ![Main] = owner[p]] /\ pd' = [pd EXCEPT ![Main] = p]
          /\ pc' = [pc EXCEPT ![Main] = "reaped"]
          /\ os' = [os EXCEPT ![p] = "reaped"] /\ processes' = processes \ {p}
          /\ toVisit' = toVisit \ {p} /\ pc[Main] = "visit"
          /\ UNCHANGED <<op, owner, doomed, sigchld, crashes, process_names, intentional,
                         policyVars, admitVars, frames, overtaken, lifeVars>>
      BY <2>1, <2>2 DEF Visit
    <3>2. owner[p] \in Names BY <2>2 DEF Wellformed
    <3>3. TypeOK' BY <3>1, <3>2, PointsTyped DEF TypeOK
    <3>4. \A q \in Pids : os[q] # "none" <=> os'[q] # "none" BY <2>2, <3>1 DEF TypeOK
    <3>5. Wellformed' BY <3>1, <3>2, <3>4 DEF TypeOK, Wellformed
    <3>6. Entitled' BY <3>1 DEF TypeOK, Wellformed, Entitled
    <3>7. StopsMarked' BY <2>2, <3>1 DEF TypeOK, Wellformed, StopsMarked
    <3> QED BY <3>3, <3>5, <3>6, <3>7
  <2>3. CASE os[p] # "zombie"
    BY <2>1, <2>3 DEF Visit, TypeOK, Wellformed, Entitled, StopsMarked
  <2> QED BY <2>2, <2>3
<1>5. CASE JudgeExit
  <2>1. TypeOK' BY <1>5, PointsTyped DEF JudgeExit, TypeOK
  <2>2. Wellformed' BY <1>5 DEF JudgeExit, TypeOK, Wellformed
  <2>3. Entitled' BY <1>5 DEF JudgeExit, TypeOK, Wellformed, Entitled
  <2>4. StopsMarked' BY <1>5 DEF JudgeExit, TypeOK, Wellformed, StopsMarked
  <2> QED BY <2>1, <2>2, <2>3, <2>4
<1>6. CASE ForgetEntry
  <2>1. /\ pc[Main] \in {"planned", "unplanned"} /\ nm[Main] \in Names
        /\ process_names' = [process_names EXCEPT ![nm[Main]] = NoPid]
        /\ overtaken' \in BOOLEAN /\ pd' = [pd EXCEPT ![Main] = NoPid]
        /\ \/ pc' = [pc EXCEPT ![Main] = "consider"] /\ nm' = nm
           \/ pc' = [pc EXCEPT ![Main] = "visit"] /\ nm' = [nm EXCEPT ![Main] = NoName]
        /\ UNCHANGED <<op, kernelVars, processes, intentional, policyVars, admitVars,
                       toVisit, frames, lifeVars>>
    BY <1>6, Zenon DEF ForgetEntry, TypeOK, Wellformed
  <2>2. TypeOK' BY <2>1, PointsTyped DEF TypeOK
  <2>3. Wellformed' BY <2>1 DEF TypeOK, Wellformed
  <2>4. Entitled' BY <2>1 DEF TypeOK, Wellformed, Entitled
  <2>5. StopsMarked' BY <2>1 DEF TypeOK, Wellformed, StopsMarked
  <2> QED BY <2>2, <2>3, <2>4, <2>5
<1> QED BY <1>1, <1>2, <1>3, <1>4, <1>5, <1>6 DEF Handler

\* Requests are admitted, and a migration starts, only under a free lock.
LEMMA EnvironmentPreserves ==
  ASSUME IndInv, Environment
  PROVE  IndInv'
<1> USE DistinctActors
      DEF IndInv, Goto, LockOpen, RestartStateOpen, MigrationBlocks, AlreadyRunning,
          Threads, Ops, threadVars, kernelVars, tableVars, policyVars, admitVars,
          mainVars, lifeVars, NamedPCs, LifecyclePCs, StartPCs, StopPCs,
          StopTargetPCs, SchedulePCs, HandlerPCs, AfterStart, AfterStop, AfterSchedule
<1>1. CASE \E a \in ApiThreads, n \in Names, o \in {"start", "stop",
       "restart"} : Request(a, n, o)
  <2>1. TypeOK' BY <1>1, PointsTyped, Carried DEF Request, TypeOK
  <2>2. Wellformed' BY <1>1 DEF Request, TypeOK, Wellformed
  <2>3. Entitled' BY <1>1 DEF Request, TypeOK, Wellformed, Entitled
  <2>4. StopsMarked' BY <1>1 DEF Request, TypeOK, Wellformed, StopsMarked
  <2> QED BY <2>1, <2>2, <2>3, <2>4
<1>2. CASE \E b \in BootThreads, n \in Names : BootStart(b, n)
  <2>1. TypeOK' BY <1>2, PointsTyped, Carried DEF BootStart, TypeOK
  <2>2. Wellformed' BY <1>2 DEF BootStart, TypeOK, Wellformed
  <2>3. Entitled' BY <1>2 DEF BootStart, TypeOK, Wellformed, Entitled
  <2>4. StopsMarked' BY <1>2 DEF BootStart, TypeOK, Wellformed, StopsMarked
  <2> QED BY <2>1, <2>2, <2>3, <2>4
<1>3. CASE \E s \in ShutdownThreads, n \in Names : ShutdownStop(s, n)
  <2>1. TypeOK' BY <1>3, PointsTyped, Carried DEF ShutdownStop, TypeOK
  <2>2. Wellformed' BY <1>3 DEF ShutdownStop, TypeOK, Wellformed
  <2>3. Entitled' BY <1>3 DEF ShutdownStop, TypeOK, Wellformed, Entitled
  <2>4. StopsMarked' BY <1>3 DEF ShutdownStop, TypeOK, Wellformed, StopsMarked
  <2> QED BY <2>1, <2>2, <2>3, <2>4
<1>4. CASE CompleteStartup
  <2>1. TypeOK' BY <1>4, PointsTyped, Carried DEF CompleteStartup, TypeOK
  <2>2. Wellformed' BY <1>4 DEF CompleteStartup, TypeOK, Wellformed
  <2>3. Entitled' BY <1>4 DEF CompleteStartup, TypeOK, Wellformed, Entitled
  <2>4. StopsMarked' BY <1>4 DEF CompleteStartup, TypeOK, Wellformed, StopsMarked
  <2> QED BY <2>1, <2>2, <2>3, <2>4
<1>5. CASE Shutdown
  <2>1. TypeOK' BY <1>5, PointsTyped, Carried DEF Shutdown, TypeOK
  <2>2. Wellformed' BY <1>5 DEF Shutdown, TypeOK, Wellformed
  <2>3. Entitled' BY <1>5 DEF Shutdown, TypeOK, Wellformed, Entitled
  <2>4. StopsMarked' BY <1>5 DEF Shutdown, TypeOK, Wellformed, StopsMarked
  <2> QED BY <2>1, <2>2, <2>3, <2>4
<1>6. CASE \E n \in Names : MonitorUnhealthy(n)
  <2>1. TypeOK' BY <1>6, PointsTyped, Carried DEF MonitorUnhealthy, TypeOK
  <2>2. Wellformed' BY <1>6 DEF MonitorUnhealthy, TypeOK, Wellformed
  <2>3. Entitled' BY <1>6 DEF MonitorUnhealthy, TypeOK, Wellformed, Entitled
  <2>4. StopsMarked' BY <1>6 DEF MonitorUnhealthy, TypeOK, Wellformed, StopsMarked
  <2> QED BY <2>1, <2>2, <2>3, <2>4
<1>7. CASE \E p \in Pids : PollTracked(p)
  <2>1. TypeOK' BY <1>7, PointsTyped, Carried DEF PollTracked, TypeOK
  <2>2. Wellformed' BY <1>7 DEF PollTracked, TypeOK, Wellformed
  <2>3. Entitled' BY <1>7 DEF PollTracked, TypeOK, Wellformed, Entitled
  <2>4. StopsMarked' BY <1>7 DEF PollTracked, TypeOK, Wellformed, StopsMarked
  <2> QED BY <2>1, <2>2, <2>3, <2>4
<1>8. CASE \E p \in Pids : DieOnSignal(p)
  <2>1. TypeOK' BY <1>8, PointsTyped, Carried DEF DieOnSignal, Die, TypeOK
  <2>2. Wellformed' BY <1>8 DEF DieOnSignal, Die, TypeOK, Wellformed
  <2>3. Entitled' BY <1>8 DEF DieOnSignal, Die, TypeOK, Wellformed, Entitled
  <2>4. StopsMarked' BY <1>8 DEF DieOnSignal, Die, TypeOK, Wellformed, StopsMarked
  <2> QED BY <2>1, <2>2, <2>3, <2>4
<1>9. CASE \E p \in Pids : Crash(p)
  <2>1. TypeOK' BY <1>9, PointsTyped, Carried DEF Crash, Die, TypeOK
  <2>2. Wellformed' BY <1>9 DEF Crash, Die, TypeOK, Wellformed
  <2>3. Entitled' BY <1>9 DEF Crash, Die, TypeOK, Wellformed, Entitled
  <2>4. StopsMarked' BY <1>9 DEF Crash, Die, TypeOK, Wellformed, StopsMarked
  <2> QED BY <2>1, <2>2, <2>3, <2>4
<1>10. CASE StartMigration
  <2>1. TypeOK'
    BY <1>10, PointsTyped, Carried DEF StartMigration, MigrationMayStart, TypeOK
  <2>2. Wellformed'
    BY <1>10 DEF StartMigration, MigrationMayStart, TypeOK, Wellformed
  <2>3. Entitled'
    BY <1>10 DEF StartMigration, MigrationMayStart, TypeOK, Wellformed, Entitled
  <2>4. StopsMarked'
    BY <1>10 DEF StartMigration, MigrationMayStart, TypeOK, Wellformed, StopsMarked
  <2> QED BY <2>1, <2>2, <2>3, <2>4
<1>11. CASE EndMigration
  <2>1. TypeOK' BY <1>11, PointsTyped, Carried DEF EndMigration, TypeOK
  <2>2. Wellformed' BY <1>11 DEF EndMigration, TypeOK, Wellformed
  <2>3. Entitled' BY <1>11 DEF EndMigration, TypeOK, Wellformed, Entitled
  <2>4. StopsMarked' BY <1>11 DEF EndMigration, TypeOK, Wellformed, StopsMarked
  <2> QED BY <2>1, <2>2, <2>3, <2>4
<1> QED BY <1>1, <1>2, <1>3, <1>4, <1>5, <1>6, <1>7, <1>8, <1>9, <1>10,
       <1>11 DEF Environment

\* Giving the lock or the reservation back ends the entitlement.
LEMMA ReleasePreserves ==
  ASSUME IndInv, NEW t \in Threads, Release(t)
  PROVE  IndInv'
<1> USE DistinctActors
      DEF IndInv, Goto, LockOpen, RestartStateOpen, MigrationBlocks, AlreadyRunning,
          Threads, Ops, threadVars, kernelVars, tableVars, policyVars, admitVars,
          mainVars, lifeVars, NamedPCs, LifecyclePCs, StartPCs, StopPCs,
          StopTargetPCs, SchedulePCs, HandlerPCs, AfterStart, AfterStop, AfterSchedule
<1>1. CASE Release(t)
  <2>1. TypeOK' BY <1>1, PointsTyped, Carried DEF Release, TypeOK
  <2>2. Wellformed' BY <1>1 DEF Release, TypeOK, Wellformed
  <2>3. Entitled' BY <1>1 DEF Release, TypeOK, Wellformed, Entitled
  <2>4. StopsMarked' BY <1>1 DEF Release, TypeOK, Wellformed, StopsMarked
  <2> QED BY <2>1, <2>2, <2>3, <2>4
<1> QED BY <1>1 DEF Release

-----------------------------------------------------------------------------
(* The theorems.                                                           *)

LEMMA InitImpliesIndInv == ASSUME Init PROVE IndInv
<1> USE DistinctActors DEF Init, Threads
<1>1. TypeOK
  <2>1. frames \in Seq([at : {"blocked", "recording"}, name : Names]) BY EmptySeq
  <2> QED BY <2>1, PointsTyped DEF TypeOK, Ops
<1>2. \A t \in Threads : pc[t] \notin NamedPCs \cup HandlerPCs \cup {"release"}
  BY DEF NamedPCs, HandlerPCs, LifecyclePCs, StartPCs, StopPCs, StopTargetPCs, SchedulePCs
<1>3. Wellformed
  BY <1>2, DistinctActors DEF Wellformed, NamedPCs, HandlerPCs, LifecyclePCs, StartPCs,
     StopPCs, StopTargetPCs, SchedulePCs
<1>4. Entitled BY <1>2 DEF Entitled, NamedPCs, MigrationBlocks
<1>5. StopsMarked BY <1>2 DEF StopsMarked, NamedPCs, LifecyclePCs, StopPCs
<1> QED BY <1>1, <1>3, <1>4, <1>5 DEF IndInv

\* Every step, and every stutter, keeps the inductive invariant.
LEMMA NextPreservesIndInv == ASSUME IndInv, [Next]_vars PROVE IndInv'
<1>1. CASE Environment BY <1>1, EnvironmentPreserves
<1>2. CASE Handler BY <1>2, HandlerPreserves
<1>3. ASSUME NEW t \in Threads, ThreadStep(t) PROVE IndInv'
  <2>1. CASE StartStep(t) BY <2>1, StartPreserves
  <2>2. CASE StopStep(t) BY <2>2, StopPreserves
  <2>3. CASE RestartStep(t) BY <2>3, RestartPreserves
  <2>4. CASE ScheduleStep(t) BY <2>4, SchedulePreserves
  <2>5. CASE Release(t) BY <2>5, ReleasePreserves
  <2> QED BY <1>3, <2>1, <2>2, <2>3, <2>4, <2>5 DEF ThreadStep
<1>4. CASE UNCHANGED vars
  <2> USE <1>4 DEF vars, threadVars, kernelVars, tableVars, policyVars, admitVars,
                   mainVars, lifeVars
  <2>1. TypeOK' BY DEF IndInv, TypeOK
  <2>2. Wellformed' BY DEF IndInv, Wellformed
  <2>3. Entitled' BY DEF IndInv, Entitled, MigrationBlocks
  <2>4. StopsMarked' BY DEF IndInv, StopsMarked
  <2> QED BY <2>1, <2>2, <2>3, <2>4 DEF IndInv
<1> QED BY <1>1, <1>2, <1>3, <1>4 DEF Next

LEMMA Invariance == Spec => []IndInv
<1>1. Init => IndInv BY InitImpliesIndInv
<1>2. IndInv /\ [Next]_vars => IndInv' BY NextPreservesIndInv
<1> QED BY <1>1, <1>2, PTL DEF Spec

\* Every variable keeps its type: in particular a process is only ever entered
\* under a managed name, and only start-up workers hold reservations.
THEOREM TypeCorrect == Spec => []TypeOK
<1>1. IndInv => TypeOK BY DEF IndInv
<1> QED BY <1>1, Invariance, PTL

\* Whatever the number of services and threads, no request, start-up worker or
\* automatic restart is inside a service lifecycle while a namespace migration
\* is active or awaits review: the admission lock, kept across the relaunch by
\* do_restart (processes.py:1839) and across a whole API request, and the
\* reservation of Update.auto_update together exclude it.
THEOREM MigrationExclusion == Spec => []MigrationExcludesLifecycle
<1>1. IndInv => MigrationExcludesLifecycle
  BY DEF IndInv, Entitled, MigrationExcludesLifecycle
<1> QED BY <1>1, Invariance, PTL

-----------------------------------------------------------------------------
(* Restarts and tables.  Roles says whose a control point can be, Scheduled  *)
(* how restarts under way relate to pending and to recent_attempts, Tables   *)
(* how processes and process_names relate to what is running.               *)

\* Whose a control point can be, and with which request.
Roles ==
  /\ \A r \in RestartThreads : pc[r] # "idle" => op[r] = "relaunch"
  /\ \A r \in RestartThreads : pc[r] # "disable"
  /\ \A b \in BootThreads :
       /\ pc[b] # "idle" => op[b] = "start"
       /\ pc[b] \notin StopPCs \cup {"attempt", "settled", "backoff", "decide"}
  /\ \A s \in ShutdownThreads : pc[s] # "idle" => shutting_down
  /\ \A t \in Threads :
       op[t] = "relaunch" \/ pc[t] \in {"attempt", "settled"} => t \in RestartThreads
  /\ pc[Main] \notin LifecyclePCs /\ pc[Monitor] \notin LifecyclePCs

\* The control points of do_restart before its attempt is recorded.
BeforeAttempt == {"backoff", "decide", "attempt"} \cup StopPCs

\* A restart that is under way, or about to be, is the pending one of its service,
\* and until it has recorded its attempt the window has room for it.
Scheduled ==
  /\ \A t \in {Main, Monitor} :
       /\ pc[t] # "unpend"
       /\ pc[t] = "spawn" => pending[nm[t]] /\ recent[nm[t]] < MaxRestarts
  /\ \A r \in RestartThreads :
       /\ pc[r] \notin {"idle", "release"} => pending[nm[r]]
       /\ pc[r] \in BeforeAttempt => recent[nm[r]] < MaxRestarts
  /\ pc[Main] = "spawn" /\ pc[Monitor] = "spawn" => nm[Main] # nm[Monitor]
  /\ \A t \in {Main, Monitor}, r \in RestartThreads :
       pc[t] = "spawn" /\ pc[r] \notin {"idle", "release"} => nm[t] # nm[r]
  /\ \A r, s \in RestartThreads :
       pc[r] \notin {"idle", "release"} /\ pc[s] \notin {"idle", "release"} /\ r # s
         => nm[r] # nm[s]
  /\ \A n \in Names : recent[n] <= MaxRestarts
  /\ migration = "none"
BudgetKept == migrations = 0 => Scheduled

\* The tables and the processes, as long as one thread at a time is at work.
Tables ==
  /\ \A t \in Threads :
       pc[t] \in {"wait", "launch", "settle", "track", "publish"}
         => process_names[nm[t]] = NoPid
  /\ \A t \in Threads :
       pc[t] \in {"settle", "track", "publish"} => owner[pd[t]] = nm[t]
  /\ \A t \in Threads :
       pc[t] \in StopTargetPCs => process_names[nm[t]] \in {pd[t], NoPid}
  /\ \A n \in Names : process_names[n] # NoPid => owner[process_names[n]] = n
  /\ \A p \in processes :
       /\ os[p] # "none"
       /\ \/ process_names[owner[p]] = p
          \/ \E t \in Threads : pc[t] = "publish" /\ pd[t] = p
  /\ \A p \in toVisit : p \in processes \/ os[p] = "reaped"
  /\ pc[Main] \in {"reaped", "planned", "unplanned"} =>
       /\ pd[Main] \notin processes
       /\ \A t \in Threads : pc[t] \in {"settle", "track"} => pd[t] # pd[Main]
Tracked ==
  BootThreads = {} /\ ~shutting_down /\ ~overtaken => Tables /\ NoOrphan /\ SingleInstance

\* Every step leaves each thread to its own control points.
LEMMA RolesStep ==
  ASSUME IndInv, Roles, [Next]_vars
  PROVE  Roles'
<1> USE DistinctActors DEF Roles, TypeOK, IndInv, Wellformed, Goto, LockOpen,
         RestartStateOpen, MigrationBlocks, AlreadyRunning, Threads, threadVars,
         kernelVars, tableVars, policyVars, admitVars, mainVars, lifeVars,
         LifecyclePCs, StartPCs, StopPCs, StopTargetPCs, SchedulePCs, HandlerPCs, AfterStart,
         AfterStop, AfterSchedule
<1>1. CASE \E a \in ApiThreads, n \in Names, o \in {"start", "stop", "restart"} :
             Request(a, n, o)
  BY <1>1 DEF Request
<1>2. CASE \E b \in BootThreads, n \in Names : BootStart(b, n)
  BY <1>2 DEF BootStart
<1>3. CASE \E s \in ShutdownThreads, n \in Names : ShutdownStop(s, n)
  BY <1>3 DEF ShutdownStop
<1>4. CASE CompleteStartup
  BY <1>4 DEF CompleteStartup
<1>5. CASE Shutdown
  BY <1>5 DEF Shutdown
<1>6. CASE \E n \in Names : MonitorUnhealthy(n)
  BY <1>6 DEF MonitorUnhealthy
<1>7. CASE \E p \in Pids : PollTracked(p)
  BY <1>7 DEF PollTracked
<1>8. CASE \E p \in Pids : DieOnSignal(p)
  BY <1>8 DEF DieOnSignal, Die
<1>9. CASE \E p \in Pids : Crash(p)
  BY <1>9 DEF Crash, Die
<1>10. CASE StartMigration
  BY <1>10 DEF StartMigration, MigrationMayStart
<1>11. CASE EndMigration
  BY <1>11 DEF EndMigration
<1>12. CASE HandlerEnter
  BY <1>12 DEF HandlerEnter
<1>13. CASE HandlerNested
  BY <1>13 DEF HandlerNested
<1>14. CASE HandlerReturn
  BY <1>14, SuspendedCall DEF HandlerReturn
<1>15. CASE \E p \in Pids : Visit(p)
  BY <1>15 DEF Visit
<1>16. ASSUME NEW t \in Threads, ThreadStep(t) PROVE Roles'
  <2>1. CASE Admit(t)
    BY <2>1 DEF Admit
  <2>2. CASE ResetPolicy(t)
    BY <2>2 DEF ResetPolicy
  <2>3. CASE CheckRunning(t)
    BY <2>3 DEF CheckRunning
  <2>4. CASE WaitMounts(t)
    BY <2>4 DEF WaitMounts
  <2>5. CASE Launch(t)
    BY <2>5 DEF Launch
  <2>6. CASE Settle(t)
    BY <2>6 DEF Settle
  <2>7. CASE Track(t)
    BY <2>7 DEF Track
  <2>8. CASE Publish(t)
    BY <2>8 DEF Publish
  <2>9. CASE Lookup(t)
    BY <2>9 DEF Lookup
  <2>10. CASE DisableRestart(t)
    BY <2>10 DEF DisableRestart
  <2>11. CASE SignalGroup(t)
    BY <2>11 DEF SignalGroup
  <2>12. CASE AwaitDeath(t)
    BY <2>12 DEF AwaitDeath
  <2>13. CASE Untrack(t)
    BY <2>13 DEF Untrack
  <2>14. CASE ClearMark(t)
    BY <2>14 DEF ClearMark
  <2>15. CASE WakeRestart(t)
    BY <2>15 DEF WakeRestart
  <2>16. CASE Decide(t)
    BY <2>16 DEF Decide, RelaunchRefused
  <2>17. CASE RecordAttempt(t)
    BY <2>17 DEF RecordAttempt
  <2>18. CASE FinishRestart(t)
    BY <2>18 DEF FinishRestart
  <2>19. CASE Consider(t)
    BY <2>19 DEF Consider
  <2>20. CASE AskMigration(t)
    BY <2>20 DEF AskMigration
  <2>21. CASE Unpend(t)
    BY <2>21 DEF Unpend
  <2>22. CASE EnterRecord(t)
    BY <2>22 DEF EnterRecord
  <2>23. CASE Record(t)
    BY <2>23 DEF Record, BudgetLeft, PrunedCounts
  <2>24. CASE Spawn(t)
    BY <2>24 DEF Spawn
  <2>25. CASE Release(t)
    BY <2>25 DEF Release
  <2> QED BY <1>16, <2>1, <2>2, <2>3, <2>4, <2>5, <2>6, <2>7, <2>8, <2>9, <2>10, <2>11,
             <2>12, <2>13, <2>14, <2>15, <2>16, <2>17, <2>18, <2>19, <2>20, <2>21, <2>22,
             <2>23, <2>24, <2>25
             DEF ThreadStep, StartStep, StopStep, RestartStep, ScheduleStep
<1>17. CASE UNCHANGED vars
  BY <1>17 DEF vars
<1>18. CASE JudgeExit
  BY <1>18 DEF JudgeExit
<1>19. CASE ForgetEntry
  BY <1>19 DEF ForgetEntry
<1> QED BY <1>1, <1>2, <1>3, <1>4, <1>5, <1>6, <1>7, <1>8, <1>9, <1>10, <1>11,
         <1>12, <1>13,
           <1>14, <1>15, <1>16, <1>17, <1>18, <1>19 DEF Next, Environment, Handler

\* Only a stop request, or shutdown, disables restarts.
LEMMA StoppedStep ==
  ASSUME IndInv, Roles, StoppedStaysStopped, [Next]_vars
  PROVE  StoppedStaysStopped'
<1> USE DistinctActors DEF StoppedStaysStopped, Roles, TypeOK, IndInv, Wellformed,
         Entitled, Goto, LockOpen, RestartStateOpen, MigrationBlocks,
         AlreadyRunning, Threads, threadVars, kernelVars, tableVars, policyVars,
         admitVars, mainVars, lifeVars, LifecyclePCs, StartPCs, StopPCs,
         StopTargetPCs, SchedulePCs, HandlerPCs, AfterStart, AfterStop, AfterSchedule
<1>1. CASE \E a \in ApiThreads, n \in Names, o \in {"start", "stop", "restart"} :
             Request(a, n, o)
  BY <1>1 DEF Request
<1>2. CASE \E b \in BootThreads, n \in Names : BootStart(b, n)
  BY <1>2 DEF BootStart
<1>3. CASE \E s \in ShutdownThreads, n \in Names : ShutdownStop(s, n)
  BY <1>3 DEF ShutdownStop
<1>4. CASE CompleteStartup
  BY <1>4 DEF CompleteStartup
<1>5. CASE Shutdown
  BY <1>5 DEF Shutdown
<1>6. CASE \E n \in Names : MonitorUnhealthy(n)
  BY <1>6 DEF MonitorUnhealthy
<1>7. CASE \E p \in Pids : PollTracked(p)
  BY <1>7 DEF PollTracked
<1>8. CASE \E p \in Pids : DieOnSignal(p)
  BY <1>8 DEF DieOnSignal, Die
<1>9. CASE \E p \in Pids : Crash(p)
  BY <1>9 DEF Crash, Die
<1>10. CASE StartMigration
  BY <1>10 DEF StartMigration, MigrationMayStart
<1>11. CASE EndMigration
  BY <1>11 DEF EndMigration
<1>12. CASE HandlerEnter
  BY <1>12 DEF HandlerEnter
<1>13. CASE HandlerNested
  BY <1>13 DEF HandlerNested
<1>14. CASE HandlerReturn
  BY <1>14, SuspendedCall DEF HandlerReturn
<1>15. CASE \E p \in Pids : Visit(p)
  BY <1>15 DEF Visit
<1>16. ASSUME NEW t \in Threads, ThreadStep(t) PROVE StoppedStaysStopped'
  <2>1. CASE Admit(t)
    BY <2>1 DEF Admit
  <2>2. CASE ResetPolicy(t)
    BY <2>2 DEF ResetPolicy
  <2>3. CASE CheckRunning(t)
    BY <2>3 DEF CheckRunning
  <2>4. CASE WaitMounts(t)
    BY <2>4 DEF WaitMounts
  <2>5. CASE Launch(t)
    BY <2>5 DEF Launch
  <2>6. CASE Settle(t)
    BY <2>6 DEF Settle
  <2>7. CASE Track(t)
    BY <2>7 DEF Track
  <2>8. CASE Publish(t)
    BY <2>8 DEF Publish
  <2>9. CASE Lookup(t)
    BY <2>9 DEF Lookup
  <2>10. CASE DisableRestart(t)
    BY <2>10 DEF DisableRestart
  <2>11. CASE SignalGroup(t)
    BY <2>11 DEF SignalGroup
  <2>12. CASE AwaitDeath(t)
    BY <2>12 DEF AwaitDeath
  <2>13. CASE Untrack(t)
    BY <2>13 DEF Untrack
  <2>14. CASE ClearMark(t)
    BY <2>14 DEF ClearMark
  <2>15. CASE WakeRestart(t)
    BY <2>15 DEF WakeRestart
  <2>16. CASE Decide(t)
    BY <2>16 DEF Decide, RelaunchRefused
  <2>17. CASE RecordAttempt(t)
    BY <2>17 DEF RecordAttempt
  <2>18. CASE FinishRestart(t)
    BY <2>18 DEF FinishRestart
  <2>19. CASE Consider(t)
    BY <2>19 DEF Consider
  <2>20. CASE AskMigration(t)
    BY <2>20 DEF AskMigration
  <2>21. CASE Unpend(t)
    BY <2>21 DEF Unpend
  <2>22. CASE EnterRecord(t)
    BY <2>22 DEF EnterRecord
  <2>23. CASE Record(t)
    BY <2>23 DEF Record, BudgetLeft, PrunedCounts
  <2>24. CASE Spawn(t)
    BY <2>24 DEF Spawn
  <2>25. CASE Release(t)
    BY <2>25 DEF Release
  <2> QED BY <1>16, <2>1, <2>2, <2>3, <2>4, <2>5, <2>6, <2>7, <2>8, <2>9, <2>10, <2>11,
             <2>12, <2>13, <2>14, <2>15, <2>16, <2>17, <2>18, <2>19, <2>20, <2>21, <2>22,
             <2>23, <2>24, <2>25
             DEF ThreadStep, StartStep, StopStep, RestartStep, ScheduleStep
<1>17. CASE UNCHANGED vars
  BY <1>17 DEF vars
<1>18. CASE JudgeExit
  BY <1>18 DEF JudgeExit
<1>19. CASE ForgetEntry
  BY <1>19 DEF ForgetEntry
<1> QED BY <1>1, <1>2, <1>3, <1>4, <1>5, <1>6, <1>7, <1>8, <1>9, <1>10, <1>11,
         <1>12, <1>13,
           <1>14, <1>15, <1>16, <1>17, <1>18, <1>19 DEF Next, Environment, Handler

\* A thread that only goes on to another control point.
LEMMA GoingOn ==
  ASSUME TypeOK, Scheduled, NEW t \in Threads, NEW l \in PCs, pc' = [pc EXCEPT ![t] = l],
         UNCHANGED <<nm, pending, recent, migration>>,
         t \in {Main, Monitor} => l \notin {"unpend", "spawn"},
         t \in RestartThreads /\ l \notin {"idle", "release"} 
           => pc[t] \notin {"idle", "release"},
         t \in RestartThreads /\ l \in BeforeAttempt => pc[t] \in BeforeAttempt
  PROVE  Scheduled'
<1> USE DistinctActors DEF Threads, TypeOK
<1>1. \A u \in Threads : u # t => pc'[u] = pc[u] OBVIOUS
<1>2. pc'[t] = l OBVIOUS
<1>3. \A u \in {Main, Monitor} : pc'[u] # "unpend" /\ (pc'[u] = "spawn" => pc[u] = "spawn")
  BY <1>1, <1>2 DEF Scheduled
<1>4. \A r \in RestartThreads :
        /\ pc'[r] \notin {"idle", "release"} => pc[r] \notin {"idle", "release"}
        /\ pc'[r] \in BeforeAttempt => pc[r] \in BeforeAttempt
  BY <1>1, <1>2
<1> HIDE DEF TypeOK
<1> QED BY <1>3, <1>4 DEF Scheduled

\* A restart that is over, carried out or not, is no longer pending.
LEMMA Ending ==
  ASSUME TypeOK, Scheduled, NEW r \in RestartThreads, pc[r] \notin {"idle", "release"},
         nm[r] \in Names, pc' = [pc EXCEPT ![r] = "release"],
         pending' = [pending EXCEPT ![nm[r]] = FALSE],
         UNCHANGED <<nm, recent, migration>>
  PROVE  Scheduled'
<1> USE DistinctActors DEF Threads, TypeOK
<1>1. \A u \in Threads : u # r => pc'[u] = pc[u] OBVIOUS
<1>2. pc'[r] = "release" OBVIOUS
<1>3. \A n \in Names : n # nm[r] => pending'[n] = pending[n] OBVIOUS
<1> HIDE DEF TypeOK
<1> QED BY <1>1, <1>2, <1>3 DEF Scheduled, BeforeAttempt, StopPCs, StopTargetPCs

\* An attempt takes the room that was left for it.
LEMMA Attempting ==
  ASSUME IndInv, Scheduled, NEW r \in RestartThreads, pc[r] = "attempt",
         nm[r] \in Names, pc' = [pc EXCEPT ![r] = "admit"],
         recent' = [recent EXCEPT ![nm[r]] = @ + 1],
         UNCHANGED <<nm, pending, migration>>
  PROVE  Scheduled'
<1> USE DistinctActors DEF Threads
<1>1. \A u \in Threads : u # r => pc'[u] = pc[u] BY DEF IndInv, TypeOK
<1>2. pc'[r] = "admit" /\ pc[r] \in BeforeAttempt BY DEF IndInv, TypeOK, BeforeAttempt
<1>3. \A n \in Names : n # nm[r] => recent'[n] = recent[n] BY DEF IndInv, TypeOK
<1>4. recent'[nm[r]] <= MaxRestarts
  <2>1. recent[nm[r]] \in Nat /\ recent[nm[r]] < MaxRestarts
    BY <1>2 DEF IndInv, TypeOK, Scheduled
  <2>2. recent'[nm[r]] = recent[nm[r]] + 1 BY DEF IndInv, TypeOK
  <2> QED BY <2>1, <2>2, ConstantsAssumption
<1>5. "admit" \notin BeforeAttempt BY DEF BeforeAttempt, StopPCs, StopTargetPCs
<1>6. /\ \A u \in {Main, Monitor} : pc[u] = "spawn" => nm[u] \in Names
      /\ \A u \in RestartThreads : pc[u] \notin {"idle", "release"} => nm[u] \in Names
  BY DEF IndInv, Wellformed, NamedPCs, LifecyclePCs, StartPCs, StopPCs, StopTargetPCs,
         SchedulePCs, TypeOK, PCs
<1>7. BeforeAttempt \cap {"idle", "release"} = {}
  BY DEF BeforeAttempt, StopPCs, StopTargetPCs
<1>8. /\ \A u \in {Main, Monitor} : pc'[u] = pc[u] /\ u # r
      /\ \A n \in Names : recent'[n] <= MaxRestarts
  BY <1>1, <1>3, <1>4 DEF Scheduled
<1>9. /\ \A u \in {Main, Monitor} : pc[u] = "spawn" => nm[u] # nm[r]
      /\ \A u \in RestartThreads \ {r} : pc[u] \notin {"idle", "release"} => nm[u] # nm[r]
  BY <1>2, <1>7 DEF Scheduled
<1> QED BY <1>1, <1>2, <1>3, <1>5, <1>6, <1>7, <1>8, <1>9 DEF Scheduled

\* Pruning the window leaves the room there is, and a restart is queued for a
\* service that has none pending.
LEMMA Recording ==
  ASSUME IndInv, Roles, Scheduled, NEW t \in {Main, Monitor}, pc[t] = "recording",
         NEW kept \in PrunedCounts(nm[t]), nm[t] \in Names, NEW l \in PCs,
         recent' = [recent EXCEPT ![nm[t]] = kept], pc' = [pc EXCEPT ![t] = l],
         \/ BudgetLeft(kept) /\ ~pending[nm[t]] /\ l = "spawn"
              /\ pending' = [pending EXCEPT ![nm[t]] = TRUE]
         \/ l \in {"visit", "idle"} /\ pending' = pending,
         UNCHANGED <<nm, migration>>
  PROVE  Scheduled'
<1> USE DistinctActors DEF Threads
<1>1. /\ \A u \in Threads : u # t => pc'[u] = pc[u]
      /\ pc'[t] = l /\ t \in Threads /\ t \notin RestartThreads
      /\ \A r \in RestartThreads : pc'[r] = pc[r]
  BY DEF IndInv, TypeOK
<1>2. /\ \A n \in Names : recent'[n] \in Nat /\ recent[n] \in Nat /\ recent'[n] <= recent[n]
      /\ recent'[nm[t]] = kept
  BY DEF IndInv, TypeOK, PrunedCounts
<1>3. \A u \in {Main, Monitor} : u # t /\ pc[u] = "spawn" => nm[u] \in Names
  BY Carried
<1>4. \A r \in RestartThreads : pc[r] \notin {"idle", "release"} => nm[r] \in Names
  BY DEF IndInv, Wellformed, NamedPCs, LifecyclePCs, StartPCs, StopPCs, StopTargetPCs,
         SchedulePCs, TypeOK, PCs
<1>5. BeforeAttempt \cap {"idle", "release"} = {}
  BY DEF BeforeAttempt, StopPCs, StopTargetPCs
<1>6. MaxRestarts \in Nat BY ConstantsAssumption
<1>7. \A n \in Names : recent'[n] <= MaxRestarts
  BY <1>2, <1>6 DEF Scheduled
<1>8. \A n \in Names : recent[n] < MaxRestarts => recent'[n] < MaxRestarts
  BY <1>2, <1>6
<1>9. CASE l \in {"visit", "idle"} /\ pending' = pending
  BY <1>1, <1>3, <1>4, <1>5, <1>7, <1>8, <1>9 DEF Scheduled
<1>10. CASE BudgetLeft(kept) /\ ~pending[nm[t]] /\ l = "spawn"
              /\ pending' = [pending EXCEPT ![nm[t]] = TRUE]
  <2>1. /\ \A n \in Names : pending[n] => pending'[n]
        /\ pending'[nm[t]] /\ recent'[nm[t]] < MaxRestarts
    BY <1>2, <1>10 DEF IndInv, TypeOK, BudgetLeft
  <2>2. \A u \in {Main, Monitor} : u # t /\ pc[u] = "spawn" => nm[u] # nm[t]
    BY <1>10 DEF Scheduled
  <2>3. \A r \in RestartThreads : pc[r] \notin {"idle", "release"} => nm[r] # nm[t]
    BY <1>10 DEF Scheduled
  <2> QED BY <1>1, <1>3, <1>4, <1>5, <1>7, <1>8, <1>10, <2>1, <2>2, <2>3 DEF Scheduled
<1> QED BY <1>9, <1>10

\* The pending restart keeps its room in the window.
LEMMA BudgetStep ==
  ASSUME IndInv, Roles, BudgetKept, [Next]_vars
  PROVE  BudgetKept'
<1> USE DistinctActors, ConstantsAssumption DEF BudgetKept, Scheduled,
         BeforeAttempt, Roles, TypeOK, IndInv, Wellformed, Goto, LockOpen,
         RestartStateOpen, MigrationBlocks, AlreadyRunning, Threads, threadVars,
         kernelVars, tableVars, policyVars, admitVars, mainVars, lifeVars,
         LifecyclePCs, StartPCs, StopPCs, StopTargetPCs, SchedulePCs, HandlerPCs, AfterStart,
         AfterStop, AfterSchedule
<1>1. CASE \E a \in ApiThreads, n \in Names, o \in {"start", "stop", "restart"} :
             Request(a, n, o)
  BY <1>1 DEF Request
<1>2. CASE \E b \in BootThreads, n \in Names : BootStart(b, n)
  BY <1>2 DEF BootStart
<1>3. CASE \E s \in ShutdownThreads, n \in Names : ShutdownStop(s, n)
  BY <1>3 DEF ShutdownStop
<1>4. CASE CompleteStartup
  BY <1>4 DEF CompleteStartup
<1>5. CASE Shutdown
  BY <1>5 DEF Shutdown
<1>6. CASE \E n \in Names : MonitorUnhealthy(n)
  BY <1>6 DEF MonitorUnhealthy
<1>7. CASE \E p \in Pids : PollTracked(p)
  BY <1>7 DEF PollTracked
<1>8. CASE \E p \in Pids : DieOnSignal(p)
  BY <1>8 DEF DieOnSignal, Die
<1>9. CASE \E p \in Pids : Crash(p)
  BY <1>9 DEF Crash, Die
<1>10. CASE StartMigration
  BY <1>10 DEF StartMigration, MigrationMayStart
<1>11. CASE EndMigration
  BY <1>11 DEF EndMigration
<1>12. CASE HandlerEnter
  BY <1>12 DEF HandlerEnter
<1>13. CASE HandlerNested
  BY <1>13 DEF HandlerNested
<1>14. CASE HandlerReturn
  BY <1>14, SuspendedCall DEF HandlerReturn
<1>15. CASE \E p \in Pids : Visit(p)
  BY <1>15 DEF Visit
<1>16. ASSUME NEW t \in Threads, ThreadStep(t) PROVE BudgetKept'
  <2>1. CASE Admit(t)
    <3> SUFFICES ASSUME migrations' = 0 PROVE Scheduled' BY DEF BudgetKept
    <3>1. Scheduled BY <2>1 DEF Admit, BudgetKept
    <3>2. \E l \in PCs : pc' = [pc EXCEPT ![t] = l]
                          /\ l \in {"settled", "release", "reset"}
      BY <2>1, PointsTyped DEF Admit
    <3>3. /\ TypeOK /\ pc[t] \notin {"idle", "release"}
          /\ UNCHANGED <<nm, pending, recent, migration>>
      BY <2>1 DEF Admit
    <3>4. {"settled", "release", "reset"}
            \cap (BeforeAttempt \cup {"idle", "unpend", "spawn"}) = {}
      BY DEF BeforeAttempt
    <3> HIDE DEF TypeOK, IndInv, Roles, Scheduled, Wellformed, BeforeAttempt
    <3> QED BY <3>1, <3>2, <3>3, <3>4, GoingOn
  <2>2. CASE ResetPolicy(t)
    BY <2>2 DEF ResetPolicy
  <2>3. CASE CheckRunning(t)
    <3>1. /\ \E l \in {"wait", AfterStart(t)} : pc' = [pc EXCEPT ![t] = l]
          /\ pc[t] = "check" /\ UNCHANGED <<nm, op, policyVars, migration, migrations>>
      BY <2>3 DEF CheckRunning
    <3> QED BY <3>1
  <2>4. CASE WaitMounts(t)
    <3> SUFFICES ASSUME migrations' = 0 PROVE Scheduled' BY DEF BudgetKept
    <3>1. Scheduled BY <2>4 DEF WaitMounts, BudgetKept
    <3>2. \E l \in PCs : pc' = [pc EXCEPT ![t] = l]
                          /\ l \in {"settled", "release", "launch"}
      BY <2>4, PointsTyped DEF WaitMounts
    <3>3. /\ TypeOK /\ pc[t] \notin {"idle", "release"}
          /\ UNCHANGED <<nm, pending, recent, migration>>
      BY <2>4 DEF WaitMounts
    <3>4. {"settled", "release", "launch"}
            \cap (BeforeAttempt \cup {"idle", "unpend", "spawn"}) = {}
      BY DEF BeforeAttempt
    <3> HIDE DEF TypeOK, IndInv, Roles, Scheduled, Wellformed, BeforeAttempt
    <3> QED BY <3>1, <3>2, <3>3, <3>4, GoingOn
  <2>5. CASE Launch(t)
    <3> SUFFICES ASSUME migrations' = 0 PROVE Scheduled' BY DEF BudgetKept
    <3>1. Scheduled BY <2>5 DEF Launch, BudgetKept
    <3>2. \E l \in PCs : pc' = [pc EXCEPT ![t] = l]
                          /\ l \in {"settled", "release", "settle"}
      BY <2>5, PointsTyped DEF Launch
    <3>3. /\ TypeOK /\ pc[t] \notin {"idle", "release"}
          /\ UNCHANGED <<nm, pending, recent, migration>>
      BY <2>5 DEF Launch
    <3>4. {"settled", "release", "settle"}
            \cap (BeforeAttempt \cup {"idle", "unpend", "spawn"}) = {}
      BY DEF BeforeAttempt
    <3> HIDE DEF TypeOK, IndInv, Roles, Scheduled, Wellformed, BeforeAttempt
    <3> QED BY <3>1, <3>2, <3>3, <3>4, GoingOn
  <2>6. CASE Settle(t)
    <3> SUFFICES ASSUME migrations' = 0 PROVE Scheduled' BY DEF BudgetKept
    <3>1. Scheduled BY <2>6 DEF Settle, BudgetKept
    <3>2. \E l \in PCs : pc' = [pc EXCEPT ![t] = l]
                          /\ l \in {"settled", "release", "track"}
      BY <2>6, PointsTyped DEF Settle
    <3>3. /\ TypeOK /\ pc[t] \notin {"idle", "release"}
          /\ UNCHANGED <<nm, pending, recent, migration>>
      BY <2>6 DEF Settle
    <3>4. {"settled", "release", "track"}
            \cap (BeforeAttempt \cup {"idle", "unpend", "spawn"}) = {}
      BY DEF BeforeAttempt
    <3> HIDE DEF TypeOK, IndInv, Roles, Scheduled, Wellformed, BeforeAttempt
    <3> QED BY <3>1, <3>2, <3>3, <3>4, GoingOn
  <2>7. CASE Track(t)
    BY <2>7 DEF Track
  <2>8. CASE Publish(t)
    BY <2>8 DEF Publish
  <2>9. CASE Lookup(t)
    <3> SUFFICES ASSUME migrations' = 0 PROVE Scheduled' BY DEF BudgetKept
    <3>1. Scheduled BY <2>9 DEF Lookup, BudgetKept
    <3>2. \E l \in PCs : /\ pc' = [pc EXCEPT ![t] = l]
                        /\ l \in {"signal", "disable", "attempt", "admit", "release"}
      BY <2>9, PointsTyped DEF Lookup
    <3>3. t \notin {Main, Monitor} BY <2>9 DEF Lookup
    <3>4. pc[t] \in BeforeAttempt BY <2>9 DEF Lookup, BeforeAttempt
    <3> QED BY <2>9, <3>1, <3>2, <3>3, <3>4, GoingOn DEF Lookup
  <2>10. CASE DisableRestart(t)
    BY <2>10 DEF DisableRestart
  <2>11. CASE SignalGroup(t)
    BY <2>11 DEF SignalGroup
  <2>12. CASE AwaitDeath(t)
    BY <2>12 DEF AwaitDeath
  <2>13. CASE Untrack(t)
    BY <2>13 DEF Untrack
  <2>14. CASE ClearMark(t)
    BY <2>14 DEF ClearMark
  <2>15. CASE WakeRestart(t)
    BY <2>15 DEF WakeRestart
  <2>16. CASE Decide(t)
    <3> SUFFICES ASSUME migrations' = 0 PROVE Scheduled' BY DEF BudgetKept
    <3>1. Scheduled /\ nm[t] \in Names BY <2>16, Carried DEF Decide, BudgetKept
    <3>2. t \in RestartThreads BY <2>16 DEF Decide
    <3>3. CASE RelaunchRefused(nm[t])
      BY <2>16, <3>1, <3>2, <3>3, Ending DEF Decide
    <3>4. CASE ~RelaunchRefused(nm[t])
      <4>1. \E l \in PCs : pc' = [pc EXCEPT ![t] = l] /\ l \in {"lookup", "attempt"}
        BY <2>16, <3>4, PointsTyped DEF Decide
      <4> QED BY <2>16, <3>1, <3>2, <3>4, <4>1, GoingOn DEF Decide, BeforeAttempt
    <3> QED BY <3>3, <3>4
  <2>17. CASE RecordAttempt(t)
    <3> SUFFICES ASSUME migrations' = 0 PROVE Scheduled' BY DEF BudgetKept
    <3>1. Scheduled /\ nm[t] \in Names BY <2>17, Carried DEF RecordAttempt, BudgetKept
    <3>2. t \in RestartThreads BY <2>17 DEF RecordAttempt
    <3> QED BY <2>17, <3>1, <3>2, Attempting DEF RecordAttempt
  <2>18. CASE FinishRestart(t)
    <3> SUFFICES ASSUME migrations' = 0 PROVE Scheduled' BY DEF BudgetKept
    <3>1. Scheduled /\ nm[t] \in Names BY <2>18, Carried DEF FinishRestart, BudgetKept
    <3>2. t \in RestartThreads BY <2>18 DEF FinishRestart
    <3> QED BY <2>18, <3>1, <3>2, Ending DEF FinishRestart
  <2>19. CASE Consider(t)
    BY <2>19 DEF Consider
  <2>20. CASE AskMigration(t)
    BY <2>20 DEF AskMigration
  <2>21. CASE Unpend(t)
    BY <2>21 DEF Unpend
  <2>22. CASE EnterRecord(t)
    BY <2>22 DEF EnterRecord
  <2>23. CASE Record(t)
    <3> SUFFICES ASSUME migrations' = 0 PROVE Scheduled' BY DEF BudgetKept
    <3>1. Scheduled /\ nm[t] \in Names BY <2>23, Carried DEF Record, BudgetKept
    <3>2. t \in {Main, Monitor} BY <2>23 DEF Record
    <3>3. PICK kept \in PrunedCounts(nm[t]) :
            /\ recent' = [recent EXCEPT ![nm[t]] = kept]
            /\ IF BudgetLeft(kept) /\ ~pending[nm[t]]
                 THEN /\ pending' = [pending EXCEPT ![nm[t]] = TRUE]
                      /\ pc' = [pc EXCEPT ![t] = "spawn"]
                 ELSE /\ UNCHANGED pending
                      /\ pc' = [pc EXCEPT ![t] = AfterSchedule(t)]
      BY <2>23 DEF Record
    <3>4. AfterSchedule(t) \in PCs /\ AfterSchedule(t) \in {"visit", "idle"} BY PointsTyped
    <3> HIDE DEF IndInv, Roles, Scheduled
    <3>5. pc[t] = "recording" /\ UNCHANGED <<nm, migration>> BY <2>23 DEF Record
    <3> QED BY <3>1, <3>2, <3>3, <3>4, <3>5, Recording, PointsTyped
  <2>24. CASE Spawn(t)
    BY <2>24 DEF Spawn
  <2>25. CASE Release(t)
    BY <2>25 DEF Release
  <2> QED BY <1>16, <2>1, <2>2, <2>3, <2>4, <2>5, <2>6, <2>7, <2>8, <2>9, <2>10, <2>11,
             <2>12, <2>13, <2>14, <2>15, <2>16, <2>17, <2>18, <2>19, <2>20, <2>21, <2>22,
             <2>23, <2>24, <2>25
             DEF ThreadStep, StartStep, StopStep, RestartStep, ScheduleStep
<1>17. CASE UNCHANGED vars
  BY <1>17 DEF vars
<1>18. CASE JudgeExit
  BY <1>18 DEF JudgeExit
<1>19. CASE ForgetEntry
  BY <1>19 DEF ForgetEntry
<1> QED BY <1>1, <1>2, <1>3, <1>4, <1>5, <1>6, <1>7, <1>8, <1>9, <1>10, <1>11,
         <1>12, <1>13,
           <1>14, <1>15, <1>16, <1>17, <1>18, <1>19 DEF Next, Environment, Handler

\* Without start-up workers and before shutdown the admission lock leaves one thread
\* at a time inside a lifecycle.
Alone == \A t, u \in Threads : pc[t] \in LifecyclePCs /\ pc[u] \in LifecyclePCs => t = u
LEMMA OneAtATime ==
  ASSUME IndInv, Roles, BootThreads = {}, ~shutting_down
  PROVE  Alone
<1> USE DistinctActors
<1>1. \A t \in Threads : pc[t] \in LifecyclePCs => t \in ApiThreads \cup RestartThreads
  BY DEF Roles, Threads, LifecyclePCs, StartPCs, StopPCs, StopTargetPCs
<1> QED BY <1>1 DEF IndInv, Entitled, Alone

\* Steps elsewhere leave the tables and the starts and stops under way as they are.
AtTables ==
  {"wait", "launch", "settle", "track", "publish", "reaped", "planned", "unplanned"}
    \cup StopTargetPCs
Elsewhere ==
  /\ UNCHANGED <<process_names, owner, os, processes, pd>>
  /\ toVisit' \subseteq toVisit \cup processes
  /\ \A t \in Threads : pc'[t] \in AtTables => pc'[t] = pc[t] /\ nm'[t] = nm[t]
  /\ \A t \in Threads : pc[t] \in AtTables => pc'[t] = pc[t]
LEMMA TablesKept == ASSUME Elsewhere, Tables PROVE Tables'
<1> USE DEF Elsewhere, AtTables
<1>1. \A t \in Threads :
        /\ pc'[t] \in {"wait", "launch", "settle", "track", "publish"} =>
             pc'[t] = pc[t] /\ nm'[t] = nm[t]
        /\ pc'[t] \in StopTargetPCs => pc'[t] = pc[t] /\ nm'[t] = nm[t]
        /\ pc'[t] \in {"reaped", "planned", "unplanned"} => pc'[t] = pc[t]
        /\ pc[t] = "publish" => pc'[t] = "publish"
  OBVIOUS
<1>2. Main \in Threads BY DEF Threads
<1>3. (pc[Main] \in {"reaped", "planned", "unplanned"} =>
          /\ pd[Main] \notin processes
          /\ \A t \in Threads : pc[t] \in {"settle", "track"} => pd[t] # pd[Main])'
  BY <1>1, <1>2 DEF Tables
<1> HIDE DEF AtTables
<1> QED BY <1>1, <1>3 DEF Tables
\* So do the orphans, of which there are none.
LEMMA NoOrphanKept == ASSUME Elsewhere, NoOrphan PROVE NoOrphan'
  BY DEF Elsewhere, AtTables, NoOrphan
\* The steps that are elsewhere.
LEMMA GoneElsewhere ==
  ASSUME IndInv, Roles, ~shutting_down,
         \/ \E a \in ApiThreads, n \in Names, o \in {"start", "stop", "restart"} :
              Request(a, n, o)
         \/ \E b \in BootThreads, n \in Names : BootStart(b, n)
         \/ \E n \in Names : MonitorUnhealthy(n)
         \/ HandlerReturn
         \/ \E t \in Threads : Spawn(t) \/ Record(t)
  PROVE  Elsewhere
<1> USE DistinctActors
      DEF Elsewhere, AtTables, IndInv, TypeOK, Threads, Goto, threadVars, kernelVars,
          tableVars, mainVars, StopTargetPCs
<1>1. CASE \E a \in ApiThreads, n \in Names, o \in {"start", "stop", "restart"} :
             Request(a, n, o)
  BY <1>1 DEF Request
<1>2. CASE \E b \in BootThreads, n \in Names : BootStart(b, n)
  BY <1>2 DEF BootStart
<1>3. CASE \E n \in Names : MonitorUnhealthy(n)
  BY <1>3 DEF MonitorUnhealthy
<1>4. CASE HandlerReturn
  <2>1. CASE frames = << >> BY <1>4, <2>1 DEF HandlerReturn
  <2>2. CASE frames # << >>
    <3>1. frames[Len(frames)].at \in {"blocked", "recording"} BY <2>2, SuspendedCall
    <3> QED BY <1>4, <2>2, <3>1 DEF HandlerReturn
  <2> QED BY <2>1, <2>2
<1>5. CASE \E t \in Threads : Spawn(t)
  BY <1>5 DEF Spawn, AfterSchedule
<1>6. CASE \E t \in Threads : Record(t)
  BY <1>6 DEF Record, AfterSchedule
<1> QED BY <1>1, <1>2, <1>3, <1>4, <1>5, <1>6

\* A launch creates a process that nothing knew of, or fails.
Launched(t, p) ==
  /\ os[p] = "none" /\ os' = [os EXCEPT ![p] = "running"]
  /\ owner' = [owner EXCEPT ![p] = nm[t]]
  /\ pd' = [pd EXCEPT ![t] = p] /\ pc' = [pc EXCEPT ![t] = "settle"]
NotLaunched(t) == UNCHANGED <<os, owner, pd>> /\ pc' = [pc EXCEPT ![t] = AfterStart(t)]
LEMMA Launching ==
  ASSUME NEW t \in Threads, Launch(t)
  PROVE  /\ UNCHANGED <<nm, processes, process_names, toVisit>> /\ pc[t] = "launch"
         /\ (\E p \in Pids : Launched(t, p)) \/ NotLaunched(t)
  BY DEF Launch, Goto, tableVars, mainVars, Launched, NotLaunched

\* The handler goes on from an entry it was not too late for.
LEMMA Forgetting ==
  ASSUME IndInv, ForgetEntry, ~overtaken'
  PROVE  /\ pc[Main] \in {"planned", "unplanned"} /\ nm[Main] \in Names
         /\ pd[Main] \in Pids /\ os[pd[Main]] = "reaped"
         /\ process_names[nm[Main]] \in {pd[Main], NoPid}
         /\ process_names' = [process_names EXCEPT ![nm[Main]] = NoPid]
         /\ pd'[Main] = NoPid /\ pc'[Main] \in {"visit", "consider"}
         /\ UNCHANGED <<os, owner, processes, toVisit>>
         /\ \A t \in Threads \ {Main} :
              pc'[t] = pc[t] /\ nm'[t] = nm[t] /\ pd'[t] = pd[t]
<1>1. pc[Main] \in {"planned", "unplanned"} BY DEF ForgetEntry
<1>2. nm[Main] \in Names /\ pd[Main] \in Pids /\ os[pd[Main]] = "reaped"
  BY <1>1 DEF IndInv, Wellformed
<1>3. process_names[nm[Main]] \in {pd[Main], NoPid} BY DEF ForgetEntry
<1>4. /\ process_names' = [process_names EXCEPT ![nm[Main]] = NoPid]
      /\ pd' = [pd EXCEPT ![Main] = NoPid]
      /\ UNCHANGED <<os, owner, processes, toVisit>>
      /\ \/ pc' = [pc EXCEPT ![Main] = "consider"] /\ nm' = nm
         \/ pc' = [pc EXCEPT ![Main] = "visit"] /\ nm' = [nm EXCEPT ![Main] = NoName]
  BY Zenon DEF ForgetEntry, Goto, kernelVars
<1> QED BY <1>1, <1>2, <1>3, <1>4 DEF IndInv, TypeOK, Threads

\* The tables follow the one start or stop that is under way.
LEMMA TablesStep ==
  ASSUME IndInv, Roles, Alone, Tables, NoOrphan, ~shutting_down, ~overtaken',
         [Next]_vars
  PROVE  Tables'
<1> USE DistinctActors DEF Tables, StopsMarked, TypeOK, IndInv, Wellformed, Alone,
         Goto, LockOpen, RestartStateOpen, MigrationBlocks, AlreadyRunning, Threads,
         threadVars, kernelVars, tableVars, policyVars, admitVars, mainVars,
         lifeVars, LifecyclePCs, StartPCs, StopPCs, StopTargetPCs, SchedulePCs, HandlerPCs,
         AfterStart, AfterStop, AfterSchedule
<1>1. CASE \E a \in ApiThreads, n \in Names, o \in {"start", "stop", "restart"} :
             Request(a, n, o)
  BY <1>1, GoneElsewhere, TablesKept
<1>2. CASE \E b \in BootThreads, n \in Names : BootStart(b, n)
  BY <1>2, GoneElsewhere, TablesKept
<1>3. CASE \E s \in ShutdownThreads, n \in Names : ShutdownStop(s, n)
  BY <1>3 DEF ShutdownStop
<1>4. CASE CompleteStartup
  BY <1>4 DEF CompleteStartup
<1>5. CASE Shutdown
  BY <1>5 DEF Shutdown
<1>6. CASE \E n \in Names : MonitorUnhealthy(n)
  BY <1>6, GoneElsewhere, TablesKept
<1>7. CASE \E p \in Pids : PollTracked(p)
  BY <1>7 DEF PollTracked
<1>8. CASE \E p \in Pids : DieOnSignal(p)
  BY <1>8 DEF DieOnSignal, Die
<1>9. CASE \E p \in Pids : Crash(p)
  BY <1>9 DEF Crash, Die
<1>10. CASE StartMigration
  BY <1>10 DEF StartMigration, MigrationMayStart
<1>11. CASE EndMigration
  BY <1>11 DEF EndMigration
<1>12. CASE HandlerEnter
  BY <1>12 DEF HandlerEnter
<1>13. CASE HandlerNested
  BY <1>13 DEF HandlerNested
<1>14. CASE HandlerReturn
  BY <1>14, GoneElsewhere, TablesKept
<1>15. CASE \E p \in Pids : Visit(p)
  <2>1. PICK p \in Pids : Visit(p) BY <1>15
  <2>2. CASE os[p] # "zombie" BY <2>1, <2>2 DEF Visit
  <2>3. CASE os[p] = "zombie"
    <3>1. /\ os' = [os EXCEPT ![p] = "reaped"] /\ processes' = processes \ {p}
          /\ toVisit' = toVisit \ {p} /\ pc[Main] = "visit" /\ pc'[Main] = "reaped"
          /\ pd'[Main] = p /\ UNCHANGED <<process_names, owner>>
          /\ \A t \in Threads \ {Main} :
               pc'[t] = pc[t] /\ nm'[t] = nm[t] /\ pd'[t] = pd[t]
      BY <2>1, <2>3 DEF Visit
    <3>2. p \in processes BY <2>1, <2>3 DEF Visit
    <3>3. \A t \in Threads : pc[t] \in {"settle", "track"} => pd[t] # p
      BY <3>2
    <3>4. \A t \in Threads :
            pc'[t] \in {"wait", "launch", "settle", "track", "publish"} \cup StopTargetPCs
              => t # Main
      BY <3>1
    <3>5. \A t \in Threads : pc[t] = "publish" => t # Main BY <3>1
    <3>6. Tables /\ \A q \in processes : os[q] # "none" OBVIOUS
    <3> HIDE DEF IndInv, TypeOK, Wellformed, Alone, StopsMarked
    <3>7. os'[p] = "reaped" /\ \A q \in Pids \ {p} : os'[q] = os[q]
      BY <3>1 DEF IndInv, TypeOK
    <3>8. processes \subseteq Pids /\ toVisit \subseteq Pids BY DEF IndInv, TypeOK
    <3> QED BY <3>1, <3>3, <3>4, <3>5, <3>6, <3>7, <3>8
  <2> QED BY <2>1, <2>2, <2>3
<1>16. ASSUME NEW t \in Threads, ThreadStep(t) PROVE Tables'
  <2>1. CASE Admit(t)
    BY <2>1 DEF Admit
  <2>2. CASE ResetPolicy(t)
    BY <2>2 DEF ResetPolicy
  <2>3. CASE CheckRunning(t)
    BY <2>3 DEF CheckRunning
  <2>4. CASE WaitMounts(t)
    BY <2>4 DEF WaitMounts
  <2>5. CASE Launch(t)
    <3>1. /\ UNCHANGED <<nm, processes, process_names, toVisit>> /\ pc[t] = "launch"
          /\ (\E p \in Pids : Launched(t, p)) \/ NotLaunched(t)
      BY <2>5, Launching
    <3>2. CASE NotLaunched(t) BY <3>1, <3>2 DEF NotLaunched
    <3>3. ASSUME NEW p \in Pids, Launched(t, p) PROVE Tables'
      <4>1. /\ \A n \in Names : process_names[n] # p
            /\ p \notin processes /\ p \notin toVisit
            /\ \A u \in Threads \ {t} :
                 pc[u] \in StopTargetPCs \cup {"settle", "track", "publish"} => pd[u] # p
        BY <3>3 DEF Launched
      <4>2. /\ \A u \in Threads \ {t} : pc'[u] = pc[u] /\ pd'[u] = pd[u]
            /\ \A q \in Pids \ {p} : owner'[q] = owner[q] /\ os'[q] = os[q]
            /\ pc'[t] = "settle" /\ pd'[t] = p /\ owner'[p] = nm[t] /\ os'[p] = "running"
        BY <3>3 DEF Launched
      <4>3. process_names \in [Names -> Pids \cup {NoPid}] /\ processes \subseteq Pids
              /\ toVisit \subseteq Pids
        OBVIOUS
      <4>4. \A u \in Threads : pc[u] \in StopTargetPCs \cup {"settle", "track", "publish"}
              => pd[u] \in Pids
        OBVIOUS
      <4>5. Tables OBVIOUS
      <4>6. \A q \in processes \cup toVisit : q # p /\ q \in Pids BY <4>1, <4>3
      <4>7. pc[Main] \in {"reaped", "planned", "unplanned"} => pd[Main] # p
        BY <3>3 DEF Launched
      <4>8. Main \in Threads \ {t} BY <3>1 DEF Roles
      <4> HIDE DEF IndInv, TypeOK, Wellformed, Alone, StopsMarked
      <4>9. (pc[Main] \in {"reaped", "planned", "unplanned"} =>
                /\ pd[Main] \notin processes
                /\ \A u \in Threads : pc[u] \in {"settle", "track"} => pd[u] # pd[Main])'
        BY <3>1, <4>2, <4>5, <4>7, <4>8
      <4> QED BY <3>1, <4>1, <4>2, <4>3, <4>4, <4>5, <4>6, <4>9
    <3> QED BY <3>1, <3>2, <3>3
  <2>6. CASE Settle(t)
    BY <2>6 DEF Settle
  <2>7. CASE Track(t)
    BY <2>7 DEF Track
  <2>8. CASE Publish(t)
    BY <2>8 DEF Publish
  <2>9. CASE Lookup(t)
    <3>1. CASE AlreadyRunning(nm[t])
      <4>1. /\ pd' = [pd EXCEPT ![t] = process_names[nm[t]]]
            /\ UNCHANGED <<nm, os, owner, processes, process_names, toVisit>>
            /\ pc[t] = "lookup"
            /\ \E l \in {"signal", "disable"} : pc' = [pc EXCEPT ![t] = l]
        BY <2>9, <3>1 DEF Lookup
      <4>2. /\ \A u \in Threads \ {t} : pc'[u] = pc[u] /\ pd'[u] = pd[u]
            /\ pc'[t] \in {"signal", "disable"} /\ pd'[t] = process_names[nm[t]]
        BY <4>1
      <4>3. Tables OBVIOUS
      <4> HIDE DEF IndInv, TypeOK, Wellformed, Alone, StopsMarked
      <4> QED BY <4>1, <4>2, <4>3
    <3>2. CASE ~AlreadyRunning(nm[t]) BY <2>9, <3>2 DEF Lookup
    <3> QED BY <3>1, <3>2
  <2>10. CASE DisableRestart(t)
    BY <2>10 DEF DisableRestart
  <2>11. CASE SignalGroup(t)
    BY <2>11 DEF SignalGroup
  <2>12. CASE AwaitDeath(t)
    BY <2>12 DEF AwaitDeath
  <2>13. CASE Untrack(t)
    BY <2>13 DEF Untrack
  <2>14. CASE ClearMark(t)
    BY <2>14 DEF ClearMark
  <2>15. CASE WakeRestart(t)
    BY <2>15 DEF WakeRestart
  <2>16. CASE Decide(t)
    BY <2>16 DEF Decide, RelaunchRefused
  <2>17. CASE RecordAttempt(t)
    BY <2>17 DEF RecordAttempt
  <2>18. CASE FinishRestart(t)
    BY <2>18 DEF FinishRestart
  <2>19. CASE Consider(t)
    BY <2>19 DEF Consider
  <2>20. CASE AskMigration(t)
    BY <2>20 DEF AskMigration
  <2>21. CASE Unpend(t)
    BY <2>21 DEF Unpend
  <2>22. CASE EnterRecord(t)
    BY <2>22 DEF EnterRecord
  <2>23. CASE Record(t)
    BY <2>23, GoneElsewhere, TablesKept
  <2>24. CASE Spawn(t)
    BY <2>24, GoneElsewhere, TablesKept
  <2>25. CASE Release(t)
    BY <2>25 DEF Release
  <2> QED BY <1>16, <2>1, <2>2, <2>3, <2>4, <2>5, <2>6, <2>7, <2>8, <2>9, <2>10, <2>11,
             <2>12, <2>13, <2>14, <2>15, <2>16, <2>17, <2>18, <2>19, <2>20, <2>21, <2>22,
             <2>23, <2>24, <2>25
             DEF ThreadStep, StartStep, StopStep, RestartStep, ScheduleStep
<1>17. CASE UNCHANGED vars
  BY <1>17 DEF vars
<1>18. CASE JudgeExit
  BY <1>18 DEF JudgeExit
<1>19. CASE ForgetEntry
  <2>1. /\ pc[Main] \in {"planned", "unplanned"} /\ nm[Main] \in Names
        /\ process_names[nm[Main]] \in {pd[Main], NoPid}
        /\ process_names' = [process_names EXCEPT ![nm[Main]] = NoPid]
        /\ pd'[Main] = NoPid /\ pc'[Main] \in {"visit", "consider"}
        /\ UNCHANGED <<os, owner, processes, toVisit>>
        /\ \A t \in Threads \ {Main} :
             pc'[t] = pc[t] /\ nm'[t] = nm[t] /\ pd'[t] = pd[t]
    BY <1>19, Forgetting
  <2>2. pd[Main] \notin processes BY <2>1
  <2>3. /\ \A n \in Names : process_names'[n] \in {process_names[n], NoPid}
        /\ \A n \in Names : process_names'[n] = NoPid =>
             process_names[n] \in {pd[Main], NoPid}
    BY <2>1
  <2>4. Tables OBVIOUS
  <2>5. \A t \in Threads :
          pc'[t] \in {"wait", "launch", "settle", "track", "publish"} \cup StopTargetPCs
            => nm[t] \in Names /\ t # Main
    BY <2>1, Carried
  <2>6. \A q \in processes : owner[q] \in Names OBVIOUS
  <2> HIDE DEF IndInv, TypeOK, Wellformed, Alone, StopsMarked
  <2> QED BY <2>1, <2>2, <2>3, <2>4, <2>5, <2>6
<1> QED BY <1>1, <1>2, <1>3, <1>4, <1>5, <1>6, <1>7, <1>8, <1>9, <1>10, <1>11,
         <1>12, <1>13,
           <1>14, <1>15, <1>16, <1>17, <1>18, <1>19 DEF Next, Environment, Handler

\* No step loses the entry of a live process.
LEMMA OrphanStep ==
  ASSUME IndInv, Roles, Alone, Tables, NoOrphan, ~shutting_down, ~overtaken',
         [Next]_vars
  PROVE  NoOrphan'
<1> USE DistinctActors DEF NoOrphan, Tables, StopsMarked, TypeOK, IndInv,
         Wellformed, Alone, Goto, LockOpen, RestartStateOpen, MigrationBlocks,
         AlreadyRunning, Threads, threadVars, kernelVars, tableVars, policyVars,
         admitVars, mainVars, lifeVars, LifecyclePCs, StartPCs, StopPCs,
         StopTargetPCs, SchedulePCs, HandlerPCs, AfterStart, AfterStop, AfterSchedule
<1>1. CASE \E a \in ApiThreads, n \in Names, o \in {"start", "stop", "restart"} :
             Request(a, n, o)
  BY <1>1 DEF Request
<1>2. CASE \E b \in BootThreads, n \in Names : BootStart(b, n)
  BY <1>2 DEF BootStart
<1>3. CASE \E s \in ShutdownThreads, n \in Names : ShutdownStop(s, n)
  BY <1>3 DEF ShutdownStop
<1>4. CASE CompleteStartup
  BY <1>4 DEF CompleteStartup
<1>5. CASE Shutdown
  BY <1>5 DEF Shutdown
<1>6. CASE \E n \in Names : MonitorUnhealthy(n)
  BY <1>6, SMTT(30) DEF MonitorUnhealthy
<1>7. CASE \E p \in Pids : PollTracked(p)
  BY <1>7 DEF PollTracked
<1>8. CASE \E p \in Pids : DieOnSignal(p)
  BY <1>8 DEF DieOnSignal, Die
<1>9. CASE \E p \in Pids : Crash(p)
  BY <1>9 DEF Crash, Die
<1>10. CASE StartMigration
  BY <1>10 DEF StartMigration, MigrationMayStart
<1>11. CASE EndMigration
  BY <1>11 DEF EndMigration
<1>12. CASE HandlerEnter
  BY <1>12 DEF HandlerEnter
<1>13. CASE HandlerNested
  BY <1>13 DEF HandlerNested
<1>14. CASE HandlerReturn
  BY <1>14, SuspendedCall DEF HandlerReturn
<1>15. CASE \E p \in Pids : Visit(p)
  <2>1. /\ \A q \in Pids : os'[q] = "running" => os[q] = "running"
        /\ UNCHANGED <<owner, process_names>> /\ pc[Main] = "visit"
        /\ \A t \in Threads \ {Main} : pc'[t] = pc[t] /\ pd'[t] = pd[t]
    BY <1>15 DEF Visit
  <2>2. NoOrphan OBVIOUS
  <2> HIDE DEF IndInv, TypeOK, Wellformed, Alone, StopsMarked, Tables
  <2> QED BY <2>1, <2>2
<1>16. ASSUME NEW t \in Threads, ThreadStep(t) PROVE NoOrphan'
  <2>1. CASE Admit(t)
    BY <2>1 DEF Admit
  <2>2. CASE ResetPolicy(t)
    BY <2>2 DEF ResetPolicy
  <2>3. CASE CheckRunning(t)
    BY <2>3 DEF CheckRunning
  <2>4. CASE WaitMounts(t)
    BY <2>4 DEF WaitMounts
  <2>5. CASE Launch(t)
    <3>1. /\ UNCHANGED <<nm, processes, process_names, toVisit>> /\ pc[t] = "launch"
          /\ (\E p \in Pids : Launched(t, p)) \/ NotLaunched(t)
      BY <2>5, Launching
    <3>2. CASE NotLaunched(t) BY <3>1, <3>2 DEF NotLaunched
    <3>3. ASSUME NEW p \in Pids, Launched(t, p) PROVE NoOrphan'
      <4>1. \A q \in Pids \ {p} : owner'[q] = owner[q] /\ os'[q] = os[q]
        BY <3>3 DEF Launched
      <4>2. /\ \A u \in Threads \ {t} : pc'[u] = pc[u] /\ pd'[u] = pd[u]
            /\ pc'[t] = "settle" /\ pd'[t] = p
        BY <3>3 DEF Launched
      <4>3. NoOrphan OBVIOUS
      <4> HIDE DEF IndInv, TypeOK, Wellformed, Alone, StopsMarked, Tables
      <4> QED BY <3>1, <4>1, <4>2, <4>3
    <3> QED BY <3>1, <3>2, <3>3
  <2>6. CASE Settle(t)
    <3>1. /\ \A q \in Pids : os'[q] = "running" =>
               os[q] = "running" /\ (pd[t] = q => pc'[t] = "track")
          /\ UNCHANGED <<process_names, owner, pd>> /\ pc[t] = "settle"
          /\ \A u \in Threads \ {t} : pc'[u] = pc[u]
      BY <2>6 DEF Settle
    <3>2. NoOrphan OBVIOUS
    <3> HIDE DEF IndInv, TypeOK, Wellformed, Alone, StopsMarked, Tables
    <3> QED BY <3>1, <3>2
  <2>7. CASE Track(t)
    BY <2>7 DEF Track
  <2>8. CASE Publish(t)
    BY <2>8 DEF Publish
  <2>9. CASE Lookup(t)
    BY <2>9 DEF Lookup
  <2>10. CASE DisableRestart(t)
    BY <2>10 DEF DisableRestart
  <2>11. CASE SignalGroup(t)
    BY <2>11 DEF SignalGroup
  <2>12. CASE AwaitDeath(t)
    BY <2>12 DEF AwaitDeath
  <2>13. CASE Untrack(t)
    BY <2>13 DEF Untrack
  <2>14. CASE ClearMark(t)
    BY <2>14 DEF ClearMark
  <2>15. CASE WakeRestart(t)
    BY <2>15 DEF WakeRestart
  <2>16. CASE Decide(t)
    BY <2>16 DEF Decide, RelaunchRefused
  <2>17. CASE RecordAttempt(t)
    BY <2>17 DEF RecordAttempt
  <2>18. CASE FinishRestart(t)
    BY <2>18 DEF FinishRestart
  <2>19. CASE Consider(t)
    BY <2>19 DEF Consider
  <2>20. CASE AskMigration(t)
    BY <2>20 DEF AskMigration
  <2>21. CASE Unpend(t)
    BY <2>21 DEF Unpend
  <2>22. CASE EnterRecord(t)
    BY <2>22 DEF EnterRecord
  <2>23. CASE Record(t)
    BY <2>23, GoneElsewhere, NoOrphanKept
  <2>24. CASE Spawn(t)
    BY <2>24, GoneElsewhere, NoOrphanKept
  <2>25. CASE Release(t)
    BY <2>25 DEF Release
  <2> QED BY <1>16, <2>1, <2>2, <2>3, <2>4, <2>5, <2>6, <2>7, <2>8, <2>9, <2>10, <2>11,
             <2>12, <2>13, <2>14, <2>15, <2>16, <2>17, <2>18, <2>19, <2>20, <2>21, <2>22,
             <2>23, <2>24, <2>25
             DEF ThreadStep, StartStep, StopStep, RestartStep, ScheduleStep
<1>17. CASE UNCHANGED vars
  BY <1>17 DEF vars
<1>18. CASE JudgeExit
  BY <1>18 DEF JudgeExit
<1>19. CASE ForgetEntry
  <2>1. /\ pc[Main] \in {"planned", "unplanned"} /\ nm[Main] \in Names
        /\ process_names[nm[Main]] \in {pd[Main], NoPid}
        /\ process_names' = [process_names EXCEPT ![nm[Main]] = NoPid]
        /\ UNCHANGED <<os, owner>> /\ os[pd[Main]] = "reaped"
        /\ \A t \in Threads \ {Main} : pc'[t] = pc[t] /\ pd'[t] = pd[t]
    BY <1>19, Forgetting
  <2>2. \A p \in Pids : os[p] = "running" => p # pd[Main] /\ p # NoPid /\ owner[p] \in Names
    BY <2>1
  <2>3. NoOrphan /\ process_names \in [Names -> Pids \cup {NoPid}] OBVIOUS
  <2> HIDE DEF IndInv, TypeOK, Wellformed, Alone, StopsMarked, Tables
  <2> QED BY <2>1, <2>2, <2>3
<1> QED BY <1>1, <1>2, <1>3, <1>4, <1>5, <1>6, <1>7, <1>8, <1>9, <1>10, <1>11,
         <1>12, <1>13,
           <1>14, <1>15, <1>16, <1>17, <1>18, <1>19 DEF Next, Environment, Handler

\* A launch finds no live process of its service.
LEMMA SingleStep ==
  ASSUME IndInv, Roles, Alone, Tables, NoOrphan, ~shutting_down, SingleInstance,
         [Next]_vars
  PROVE  SingleInstance'
<1> USE DistinctActors DEF SingleInstance, NoOrphan, Tables, TypeOK, IndInv,
         Wellformed, Alone, Goto, LockOpen, RestartStateOpen, MigrationBlocks,
         AlreadyRunning, Threads, threadVars, kernelVars, tableVars, policyVars,
         admitVars, mainVars, lifeVars, LifecyclePCs, StartPCs, StopPCs,
         StopTargetPCs, SchedulePCs, HandlerPCs, AfterStart, AfterStop, AfterSchedule
<1>1. CASE \E a \in ApiThreads, n \in Names, o \in {"start", "stop", "restart"} :
             Request(a, n, o)
  BY <1>1 DEF Request
<1>2. CASE \E b \in BootThreads, n \in Names : BootStart(b, n)
  BY <1>2 DEF BootStart
<1>3. CASE \E s \in ShutdownThreads, n \in Names : ShutdownStop(s, n)
  BY <1>3 DEF ShutdownStop
<1>4. CASE CompleteStartup
  BY <1>4 DEF CompleteStartup
<1>5. CASE Shutdown
  BY <1>5 DEF Shutdown
<1>6. CASE \E n \in Names : MonitorUnhealthy(n)
  BY <1>6 DEF MonitorUnhealthy
<1>7. CASE \E p \in Pids : PollTracked(p)
  BY <1>7 DEF PollTracked
<1>8. CASE \E p \in Pids : DieOnSignal(p)
  BY <1>8 DEF DieOnSignal, Die
<1>9. CASE \E p \in Pids : Crash(p)
  BY <1>9 DEF Crash, Die
<1>10. CASE StartMigration
  BY <1>10 DEF StartMigration, MigrationMayStart
<1>11. CASE EndMigration
  BY <1>11 DEF EndMigration
<1>12. CASE HandlerEnter
  BY <1>12 DEF HandlerEnter
<1>13. CASE HandlerNested
  BY <1>13 DEF HandlerNested
<1>14. CASE HandlerReturn
  BY <1>14, SuspendedCall DEF HandlerReturn
<1>15. CASE \E p \in Pids : Visit(p)
  <2>1. \A q \in Pids : os'[q] = "running" => os[q] = "running"
    BY <1>15 DEF Visit
  <2>2. owner' = owner BY <1>15 DEF Visit
  <2> QED BY <2>1, <2>2
<1>16. ASSUME NEW t \in Threads, ThreadStep(t) PROVE SingleInstance'
  <2>1. CASE Admit(t)
    BY <2>1 DEF Admit
  <2>2. CASE ResetPolicy(t)
    BY <2>2 DEF ResetPolicy
  <2>3. CASE CheckRunning(t)
    BY <2>3 DEF CheckRunning
  <2>4. CASE WaitMounts(t)
    BY <2>4 DEF WaitMounts
  <2>5. CASE Launch(t)
    <3>1. /\ UNCHANGED <<nm, processes, process_names, toVisit>> /\ pc[t] = "launch"
          /\ (\E p \in Pids : Launched(t, p)) \/ NotLaunched(t)
      BY <2>5, Launching
    <3>2. CASE NotLaunched(t) BY <3>1, <3>2 DEF NotLaunched
    <3>3. ASSUME NEW p \in Pids, Launched(t, p) PROVE SingleInstance'
      <4>1. \A q \in Pids : os[q] = "running" => owner[q] # nm[t]
        <5>1. /\ process_names[nm[t]] = NoPid /\ NoOrphan
              /\ \A u \in Threads : pc[u] \notin {"settle", "track", "publish"}
          BY <3>1
        <5> HIDE DEF IndInv, TypeOK, Wellformed, Alone, Tables, SingleInstance
        <5> QED BY <5>1
      <4>2. /\ \A q \in Pids \ {p} : owner'[q] = owner[q] /\ os'[q] = os[q]
            /\ owner'[p] = nm[t]
        BY <3>3 DEF Launched
      <4>3. SingleInstance OBVIOUS
      <4> HIDE DEF IndInv, TypeOK, Wellformed, Alone, Tables, NoOrphan
      <4> QED BY <4>1, <4>2, <4>3
    <3> QED BY <3>1, <3>2, <3>3
  <2>6. CASE Settle(t)
    BY <2>6 DEF Settle
  <2>7. CASE Track(t)
    BY <2>7 DEF Track
  <2>8. CASE Publish(t)
    BY <2>8 DEF Publish
  <2>9. CASE Lookup(t)
    BY <2>9 DEF Lookup
  <2>10. CASE DisableRestart(t)
    BY <2>10 DEF DisableRestart
  <2>11. CASE SignalGroup(t)
    BY <2>11 DEF SignalGroup
  <2>12. CASE AwaitDeath(t)
    BY <2>12 DEF AwaitDeath
  <2>13. CASE Untrack(t)
    BY <2>13 DEF Untrack
  <2>14. CASE ClearMark(t)
    BY <2>14 DEF ClearMark
  <2>15. CASE WakeRestart(t)
    BY <2>15 DEF WakeRestart
  <2>16. CASE Decide(t)
    BY <2>16 DEF Decide, RelaunchRefused
  <2>17. CASE RecordAttempt(t)
    BY <2>17 DEF RecordAttempt
  <2>18. CASE FinishRestart(t)
    BY <2>18 DEF FinishRestart
  <2>19. CASE Consider(t)
    BY <2>19 DEF Consider
  <2>20. CASE AskMigration(t)
    BY <2>20 DEF AskMigration
  <2>21. CASE Unpend(t)
    BY <2>21 DEF Unpend
  <2>22. CASE EnterRecord(t)
    BY <2>22 DEF EnterRecord
  <2>23. CASE Record(t)
    BY <2>23 DEF Record, BudgetLeft, PrunedCounts
  <2>24. CASE Spawn(t)
    BY <2>24 DEF Spawn
  <2>25. CASE Release(t)
    BY <2>25 DEF Release
  <2> QED BY <1>16, <2>1, <2>2, <2>3, <2>4, <2>5, <2>6, <2>7, <2>8, <2>9, <2>10, <2>11,
             <2>12, <2>13, <2>14, <2>15, <2>16, <2>17, <2>18, <2>19, <2>20, <2>21, <2>22,
             <2>23, <2>24, <2>25
             DEF ThreadStep, StartStep, StopStep, RestartStep, ScheduleStep
<1>17. CASE UNCHANGED vars
  BY <1>17 DEF vars
<1>18. CASE JudgeExit
  BY <1>18 DEF JudgeExit
<1>19. CASE ForgetEntry
  BY <1>19 DEF ForgetEntry
<1> QED BY <1>1, <1>2, <1>3, <1>4, <1>5, <1>6, <1>7, <1>8, <1>9, <1>10, <1>11,
         <1>12, <1>13,
           <1>14, <1>15, <1>16, <1>17, <1>18, <1>19 DEF Next, Environment, Handler

\* shutting_down is never taken back.
LEMMA ShutdownIsFinal ==
  ASSUME shutting_down, [Next]_vars
  PROVE  shutting_down'
<1> USE DistinctActors DEF Goto, LockOpen, RestartStateOpen, MigrationBlocks,
         AlreadyRunning, Threads, threadVars, kernelVars, tableVars, policyVars,
         admitVars, mainVars, lifeVars, LifecyclePCs, StartPCs, StopPCs,
         StopTargetPCs, SchedulePCs, HandlerPCs, AfterStart, AfterStop, AfterSchedule
<1>1. CASE \E a \in ApiThreads, n \in Names, o \in {"start", "stop", "restart"} :
             Request(a, n, o)
  BY <1>1 DEF Request
<1>2. CASE \E b \in BootThreads, n \in Names : BootStart(b, n)
  BY <1>2 DEF BootStart
<1>3. CASE \E s \in ShutdownThreads, n \in Names : ShutdownStop(s, n)
  BY <1>3 DEF ShutdownStop
<1>4. CASE CompleteStartup
  BY <1>4 DEF CompleteStartup
<1>5. CASE Shutdown
  BY <1>5 DEF Shutdown
<1>6. CASE \E n \in Names : MonitorUnhealthy(n)
  BY <1>6 DEF MonitorUnhealthy
<1>7. CASE \E p \in Pids : PollTracked(p)
  BY <1>7 DEF PollTracked
<1>8. CASE \E p \in Pids : DieOnSignal(p)
  BY <1>8 DEF DieOnSignal, Die
<1>9. CASE \E p \in Pids : Crash(p)
  BY <1>9 DEF Crash, Die
<1>10. CASE StartMigration
  BY <1>10 DEF StartMigration, MigrationMayStart
<1>11. CASE EndMigration
  BY <1>11 DEF EndMigration
<1>12. CASE HandlerEnter
  BY <1>12 DEF HandlerEnter
<1>13. CASE HandlerNested
  BY <1>13 DEF HandlerNested
<1>14. CASE HandlerReturn
  BY <1>14, SuspendedCall DEF HandlerReturn
<1>15. CASE \E p \in Pids : Visit(p)
  BY <1>15 DEF Visit
<1>16. ASSUME NEW t \in Threads, ThreadStep(t) PROVE shutting_down'
  <2>1. CASE Admit(t)
    BY <2>1 DEF Admit
  <2>2. CASE ResetPolicy(t)
    BY <2>2 DEF ResetPolicy
  <2>3. CASE CheckRunning(t)
    BY <2>3 DEF CheckRunning
  <2>4. CASE WaitMounts(t)
    BY <2>4 DEF WaitMounts
  <2>5. CASE Launch(t)
    BY <2>5 DEF Launch
  <2>6. CASE Settle(t)
    BY <2>6 DEF Settle
  <2>7. CASE Track(t)
    BY <2>7 DEF Track
  <2>8. CASE Publish(t)
    BY <2>8 DEF Publish
  <2>9. CASE Lookup(t)
    BY <2>9 DEF Lookup
  <2>10. CASE DisableRestart(t)
    BY <2>10 DEF DisableRestart
  <2>11. CASE SignalGroup(t)
    BY <2>11 DEF SignalGroup
  <2>12. CASE AwaitDeath(t)
    BY <2>12 DEF AwaitDeath
  <2>13. CASE Untrack(t)
    BY <2>13 DEF Untrack
  <2>14. CASE ClearMark(t)
    BY <2>14 DEF ClearMark
  <2>15. CASE WakeRestart(t)
    BY <2>15 DEF WakeRestart
  <2>16. CASE Decide(t)
    BY <2>16 DEF Decide, RelaunchRefused
  <2>17. CASE RecordAttempt(t)
    BY <2>17 DEF RecordAttempt
  <2>18. CASE FinishRestart(t)
    BY <2>18 DEF FinishRestart
  <2>19. CASE Consider(t)
    BY <2>19 DEF Consider
  <2>20. CASE AskMigration(t)
    BY <2>20 DEF AskMigration
  <2>21. CASE Unpend(t)
    BY <2>21 DEF Unpend
  <2>22. CASE EnterRecord(t)
    BY <2>22 DEF EnterRecord
  <2>23. CASE Record(t)
    BY <2>23 DEF Record, BudgetLeft, PrunedCounts
  <2>24. CASE Spawn(t)
    BY <2>24 DEF Spawn
  <2>25. CASE Release(t)
    BY <2>25 DEF Release
  <2> QED BY <1>16, <2>1, <2>2, <2>3, <2>4, <2>5, <2>6, <2>7, <2>8, <2>9, <2>10, <2>11,
             <2>12, <2>13, <2>14, <2>15, <2>16, <2>17, <2>18, <2>19, <2>20, <2>21, <2>22,
             <2>23, <2>24, <2>25
             DEF ThreadStep, StartStep, StopStep, RestartStep, ScheduleStep
<1>17. CASE UNCHANGED vars
  BY <1>17 DEF vars
<1>18. CASE JudgeExit
  BY <1>18 DEF JudgeExit
<1>19. CASE ForgetEntry
  BY <1>19 DEF ForgetEntry
<1> QED BY <1>1, <1>2, <1>3, <1>4, <1>5, <1>6, <1>7, <1>8, <1>9, <1>10, <1>11,
         <1>12, <1>13,
           <1>14, <1>15, <1>16, <1>17, <1>18, <1>19 DEF Next, Environment, Handler

\* Nor is it forgotten that the handler removed a newer entry.
LEMMA OvertakenIsFinal ==
  ASSUME overtaken, [Next]_vars
  PROVE  overtaken'
<1> USE DEF vars, threadVars, kernelVars, tableVars, policyVars, admitVars, mainVars,
            lifeVars
<1>1. CASE Environment
  BY <1>1 DEF Environment, Request, BootStart, ShutdownStop, CompleteStartup,
     Shutdown, MonitorUnhealthy, PollTracked, DieOnSignal, Crash, Die,
     StartMigration, EndMigration
<1>2. CASE Handler
  <2>1. CASE ForgetEntry
    <3>1. overtaken' = (overtaken \/ process_names[nm[Main]] \notin {pd[Main], NoPid})
      BY <2>1 DEF ForgetEntry
    <3> QED BY <3>1
  <2>2. CASE HandlerEnter \/ HandlerNested \/ HandlerReturn \/ JudgeExit
    BY <2>2 DEF HandlerEnter, HandlerNested, HandlerReturn, JudgeExit
  <2>3. CASE \E p \in Pids : Visit(p) BY <2>3 DEF Visit
  <2> QED BY <1>2, <2>1, <2>2, <2>3 DEF Handler
<1>3. ASSUME NEW t \in Threads, ThreadStep(t) PROVE UNCHANGED overtaken
  <2>1. CASE StartStep(t)
    BY <2>1 DEF StartStep, Admit, ResetPolicy, CheckRunning, WaitMounts, Launch,
       Settle, Track, Publish
  <2>2. CASE StopStep(t)
    BY <2>2 DEF StopStep, Lookup, DisableRestart, SignalGroup, AwaitDeath,
       Untrack, ClearMark
  <2>3. CASE RestartStep(t)
    BY <2>3 DEF RestartStep, WakeRestart, Decide, RecordAttempt, FinishRestart
  <2>4. CASE ScheduleStep(t)
    BY <2>4 DEF ScheduleStep, Consider, AskMigration, Unpend, EnterRecord, Record,
       Spawn
  <2>5. CASE Release(t) BY <2>5 DEF Release
  <2> QED BY <1>3, <2>1, <2>2, <2>3, <2>4, <2>5 DEF ThreadStep
<1>4. CASE UNCHANGED vars BY <1>4
<1> QED BY <1>1, <1>2, <1>3, <1>4 DEF Next

-----------------------------------------------------------------------------
\* Roles holds in every reachable state.
LEMMA RolesHold == Spec => [](IndInv /\ Roles)
<1>1. Init => Roles
  BY DistinctActors DEF Init, Roles, Threads, LifecyclePCs, StartPCs, StopPCs,
     StopTargetPCs
<1>2. IndInv /\ Roles /\ [Next]_vars => Roles' BY RolesStep
<1> QED BY <1>1, <1>2, Invariance, PTL DEF Spec

\* Before shutdown a thread inside stop_process owns the admission lock.
LEMMA OneStopper ==
  ASSUME IndInv, Roles, ~shutting_down, NEW t \in Threads, NEW u \in Threads,
         pc[t] \in StopPCs, pc[u] \in StopPCs
  PROVE  t = u
<1>1. \A v \in Threads : pc[v] \in StopPCs => v \in ApiThreads \cup RestartThreads
  BY DEF Roles, Threads, LifecyclePCs, StopPCs, StopTargetPCs
<1> QED BY <1>1 DEF IndInv, Entitled, LifecyclePCs

\* While the handler has still to look for the mark of the exit it collected, a
\* stop at work on that process keeps its mark.
Spared ==
  ~shutting_down /\ pc[Main] = "reaped" =>
    \A t \in Threads : pc[t] \in StopTargetPCs /\ pd[t] = pd[Main] => pd[t] \in intentional

\* Steps that neither touch a mark nor bring another thread to a stop or an exit.
LEMMA SparedKept ==
  ASSUME Spared, ~shutting_down, intentional \subseteq intentional',
         pc'[Main] = "reaped" => pc[Main] = "reaped" /\ pd'[Main] = pd[Main],
         \A t \in Threads :
           pc'[t] \in StopTargetPCs /\ ~(pc[t] \in StopTargetPCs /\ pd'[t] = pd[t])
             => pd'[t] \in intentional'
  PROVE  Spared'
BY DEF Spared

LEMMA SparedStep == ASSUME IndInv, Roles, Spared, [Next]_vars PROVE Spared'
<1> SUFFICES ASSUME ~shutting_down' PROVE Spared' BY DEF Spared
<1>a. ~shutting_down BY ShutdownIsFinal
<1> USE <1>a, DistinctActors
        DEF vars, threadVars, kernelVars, tableVars, policyVars, admitVars, mainVars,
            lifeVars, Goto, IndInv, TypeOK, Wellformed, Threads, StopTargetPCs
<1> DEFINE Same ==
      /\ intentional \subseteq intentional'
      /\ pc'[Main] = "reaped" => pc[Main] = "reaped" /\ pd'[Main] = pd[Main]
      /\ \A t \in Threads :
           pc'[t] \in StopTargetPCs /\ ~(pc[t] \in StopTargetPCs /\ pd'[t] = pd[t])
             => pd'[t] \in intentional'
<1>b. Same => Spared' BY SparedKept
<1>1. CASE Environment
  <2>1. CASE \E a \in ApiThreads, n \in Names, o \in {"start", "stop", "restart"} :
               Request(a, n, o)
    BY <2>1, <1>b DEF Request
  <2>2. CASE \E b \in BootThreads, n \in Names : BootStart(b, n)
    BY <2>2, <1>b DEF BootStart
  <2>3. CASE \E t \in ShutdownThreads, n \in Names : ShutdownStop(t, n)
    BY <2>3 DEF ShutdownStop
  <2>4. CASE CompleteStartup \/ Shutdown \/ StartMigration \/ EndMigration
    BY <2>4, <1>b DEF CompleteStartup, Shutdown, StartMigration, EndMigration
  <2>5. CASE \E n \in Names : MonitorUnhealthy(n)
    BY <2>5, <1>b DEF MonitorUnhealthy
  <2>6. CASE \E p \in Pids : PollTracked(p) \/ DieOnSignal(p) \/ Crash(p)
    BY <2>6, <1>b DEF PollTracked, DieOnSignal, Crash, Die
  <2> QED BY <1>1, <2>1, <2>2, <2>3, <2>4, <2>5, <2>6 DEF Environment
<1>2. CASE Handler
  <2>1. CASE HandlerEnter \/ HandlerNested
    BY <2>1, <1>b DEF HandlerEnter, HandlerNested
  <2>2. CASE HandlerReturn
    <3>1. CASE frames = << >> BY <2>2, <3>1, <1>b DEF HandlerReturn
    <3>2. CASE frames # << >>
      <4>1. frames[Len(frames)].at \in {"blocked", "recording"} BY <3>2, SuspendedCall
      <4> QED BY <2>2, <3>2, <4>1, <1>b DEF HandlerReturn
    <3> QED BY <3>1, <3>2
  <2>3. CASE \E p \in Pids : Visit(p)
    <3>1. PICK p \in Pids : Visit(p) BY <2>3
    <3>2. CASE os[p] = "zombie"
      <4>1. /\ pd' = [pd EXCEPT ![Main] = p] /\ pc' = [pc EXCEPT ![Main] = "reaped"]
            /\ UNCHANGED intentional
        BY <3>1, <3>2 DEF Visit
      <4>2. \A t \in Threads : pc[t] \in StopTargetPCs /\ pd[t] = p => p \in intentional
        BY <3>2 DEF StopsMarked
      <4> QED BY <4>1, <4>2 DEF Spared
    <3>3. CASE os[p] # "zombie" BY <3>1, <3>3, <1>b DEF Visit
    <3> QED BY <3>2, <3>3
  <2>4. CASE JudgeExit BY <2>4 DEF JudgeExit, Spared
  <2>5. CASE ForgetEntry
    <3>1. pc'[Main] \in {"consider", "visit"} BY <2>5 DEF ForgetEntry
    <3> QED BY <3>1 DEF Spared
  <2> QED BY <1>2, <2>1, <2>2, <2>3, <2>4, <2>5 DEF Handler
<1>3. ASSUME NEW t \in Threads, ThreadStep(t) PROVE Spared'
  <2>1. CASE StartStep(t)
    BY <2>1, <1>b DEF StartStep, Admit, ResetPolicy, CheckRunning, WaitMounts, Launch,
       Settle, Track, Publish, AfterStart
  <2>2. CASE StopStep(t)
    <3>1. CASE Lookup(t)
      <4>1. CASE AlreadyRunning(nm[t])
        <5>1. /\ pd' = [pd EXCEPT ![t] = process_names[nm[t]]]
              /\ intentional' = intentional \cup {process_names[nm[t]]}
              /\ \E l \in {"signal", "disable"} : pc' = [pc EXCEPT ![t] = l]
              /\ pc[t] = "lookup"
          BY <3>1, <4>1 DEF Lookup
        <5>2. t # Main BY <5>1 DEF Roles, LifecyclePCs, StopPCs
        <5> QED BY <5>1, <5>2, <1>b
      <4>2. CASE ~AlreadyRunning(nm[t])
        BY <3>1, <4>2, <1>b DEF Lookup, AfterStop
      <4> QED BY <4>1, <4>2
    <3>2. CASE DisableRestart(t) \/ SignalGroup(t) \/ AwaitDeath(t) \/ Untrack(t)
      BY <3>2, <1>b DEF DisableRestart, SignalGroup, AwaitDeath, Untrack
    <3>3. CASE ClearMark(t)
      <4>1. \A u \in Threads : pc[u] \in StopTargetPCs => u = t
        BY <3>3, OneStopper DEF ClearMark, StopPCs
      <4>2. pc'[t] \notin StopTargetPCs BY <3>3 DEF ClearMark, AfterStop
      <4>3. \A u \in Threads \ {t} : pc'[u] = pc[u] BY <3>3 DEF ClearMark
      <4> QED BY <4>1, <4>2, <4>3 DEF Spared
    <3> QED BY <2>2, <3>1, <3>2, <3>3 DEF StopStep
  <2>3. CASE RestartStep(t)
    BY <2>3, <1>b DEF RestartStep, WakeRestart, Decide, RecordAttempt, FinishRestart
  <2>4. CASE ScheduleStep(t)
    BY <2>4, <1>b DEF ScheduleStep, Consider, AskMigration, Unpend, EnterRecord, Record,
       Spawn, AfterSchedule
  <2>5. CASE Release(t) BY <2>5, <1>b DEF Release
  <2> QED BY <1>3, <2>1, <2>2, <2>3, <2>4, <2>5 DEF ThreadStep
<1>4. CASE UNCHANGED vars BY <1>4, <1>b
<1> QED BY <1>1, <1>2, <1>3, <1>4 DEF Next

\* Only the look for the mark takes the handler on from a collected exit.
LEMMA OnlyJudgeExit ==
  ASSUME IndInv, [Next]_vars, pc[Main] = "reaped", pc'[Main] = "unplanned"
  PROVE  JudgeExit
<1> USE DistinctActors
        DEF vars, threadVars, kernelVars, tableVars, policyVars, admitVars, mainVars,
            lifeVars, Goto, IndInv, TypeOK, Threads
<1>1. CASE Environment
  BY <1>1 DEF Environment, Request, BootStart, ShutdownStop, CompleteStartup,
     Shutdown, MonitorUnhealthy, PollTracked, DieOnSignal, Crash, Die,
     StartMigration, EndMigration
<1>2. CASE Handler
  BY <1>2 DEF Handler, HandlerEnter, HandlerNested, HandlerReturn, Visit, ForgetEntry
<1>3. ASSUME NEW t \in Threads, ThreadStep(t) PROVE FALSE
  <2>1. CASE StartStep(t)
    BY <2>1 DEF StartStep, Admit, ResetPolicy, CheckRunning, WaitMounts, Launch,
       Settle, Track, Publish
  <2>2. CASE StopStep(t)
    BY <2>2 DEF StopStep, Lookup, DisableRestart, SignalGroup, AwaitDeath,
       Untrack, ClearMark
  <2>3. CASE RestartStep(t)
    BY <2>3 DEF RestartStep, WakeRestart, Decide, RecordAttempt, FinishRestart
  <2>4. CASE ScheduleStep(t)
    BY <2>4 DEF ScheduleStep, Consider, AskMigration, Unpend, EnterRecord, Record,
       Spawn
  <2>5. CASE Release(t) BY <2>5 DEF Release
  <2> QED BY <1>3, <2>1, <2>2, <2>3, <2>4, <2>5 DEF ThreadStep
<1>4. CASE UNCHANGED vars BY <1>4
<1> QED BY <1>1, <1>2, <1>3, <1>4 DEF Next

\* As long as a stop_process call is at work on a process, its exit is taken for a
\* planned one, whichever thread collects the exit status and whenever the handler
\* looks: the mark is set before the signal (processes.py:1117), dropped when the
\* child has been reaped and untracked (1225), and the admission lock leaves no
\* second stop that could drop it earlier.
THEOREM StopsKeepTheirMark == Spec => ExitDuringStopPlanned
<1>1. Init => Spared BY DistinctActors DEF Init, Spared, Threads
<1>2. IndInv /\ Roles /\ Spared /\ [Next]_vars => Spared' BY SparedStep
<1>3. IndInv /\ Roles /\ Spared /\ [Next]_vars =>
        [ pc[Main] = "reaped" /\ pc'[Main] = "unplanned" /\ ~shutting_down =>
            \A t \in Threads : pc[t] \in StopTargetPCs => pd[t] # pd[Main] ]_vars
  <2> SUFFICES ASSUME IndInv, Spared, [Next]_vars, pc[Main] = "reaped",
                      pc'[Main] = "unplanned", ~shutting_down,
                      NEW t \in Threads, pc[t] \in StopTargetPCs, pd[t] = pd[Main]
               PROVE  FALSE
    OBVIOUS
  <2>1. JudgeExit BY OnlyJudgeExit
  <2>2. pd[Main] \notin intentional
    BY <2>1 DEF JudgeExit, Intentional, Goto, IndInv, TypeOK, Threads
  <2> QED BY <2>2 DEF Spared
<1> QED BY <1>1, <1>2, <1>3, RolesHold, PTL DEF Spec, ExitDuringStopPlanned

\* Once do_restart has decided, under the admission lock, that restarts of its
\* service are enabled, no stop request can disable them before the relaunch:
\* stop_process of an API request needs the same lock, and a relaunch does not
\* disable its own service (processes.py:1836).
THEOREM StoppedNotRelaunched == Spec => []StoppedStaysStopped
<1>1. Init => StoppedStaysStopped
  BY DistinctActors DEF Init, StoppedStaysStopped, Threads, StopPCs, StopTargetPCs
<1>2. IndInv /\ Roles /\ StoppedStaysStopped /\ [Next]_vars => StoppedStaysStopped'
  BY StoppedStep
<1> QED BY <1>1, <1>2, RolesHold, PTL DEF Spec

\* Without migrations no window ever holds more than max_restarts attempts, though
\* _maybe_schedule_restart counts before the back-off and do_restart adds after it:
\* the pending flag makes the restart under way the only one of its service.
THEOREM AttemptsBounded == Spec => []RestartBudget
<1>1. Init => BudgetKept
  BY DistinctActors, ConstantsAssumption
     DEF Init, BudgetKept, Scheduled, Threads, BeforeAttempt, StopPCs, StopTargetPCs
<1>2. IndInv /\ Roles /\ BudgetKept /\ [Next]_vars => BudgetKept' BY BudgetStep
<1>3. BudgetKept => RestartBudget BY DEF BudgetKept, Scheduled, RestartBudget
<1> QED BY <1>1, <1>2, <1>3, RolesHold, PTL DEF Spec

\* Without start-up workers and until a shutdown, every live child is the entry of
\* its service or about to be entered, and no service has two: start_process looks,
\* launches and enters, and stop_process removes, all under one admission lock, and
\* reap_zombies removes the entry of nobody else unless it is held up, between
\* collecting an exit and removing the entry, until the service has a new child.
THEOREM ChildrenKnown ==
  ASSUME BootThreads = {}
  PROVE  Spec => []ChildrenTracked
<1>1. Init => Tracked
  BY DistinctActors DEF Init, Tracked, Tables, NoOrphan, SingleInstance, Threads,
     StopTargetPCs
<1>2. ASSUME IndInv, Roles, Tracked, [Next]_vars PROVE Tracked'
  <2> SUFFICES ASSUME ~shutting_down', ~overtaken' PROVE (Tables /\ NoOrphan /\ SingleInstance)'
    BY DEF Tracked
  <2>1. ~shutting_down /\ ~overtaken BY <1>2, ShutdownIsFinal, OvertakenIsFinal
  <2>2. Tables /\ NoOrphan /\ SingleInstance BY <1>2, <2>1 DEF Tracked
  <2>3. Alone BY <1>2, <2>1, OneAtATime
  <2> QED BY <1>2, <2>1, <2>2, <2>3, TablesStep, OrphanStep, SingleStep
<1>3. Tracked => ChildrenTracked BY DEF Tracked, ChildrenTracked
<1> QED BY <1>1, <1>2, <1>3, RolesHold, PTL DEF Spec

-----------------------------------------------------------------------------
(* The supervisor uses the migration admission as it is meant to be used.   *)

\* Whose the lock can be, and the tokens.
Owners == lock \in ApiThreads \cup RestartThreads \cup {NoThread}

LEMMA OwnersStep == ASSUME IndInv, Roles, Owners, [Next]_vars PROVE Owners'
<1> USE DEF Owners, IndInv, Wellformed, vars, threadVars, kernelVars, tableVars,
            policyVars, admitVars, mainVars, lifeVars
<1>1. CASE Environment
  BY <1>1 DEF Environment, Request, BootStart, ShutdownStop, CompleteStartup, Shutdown,
     MonitorUnhealthy, PollTracked, DieOnSignal, Crash, Die, StartMigration, EndMigration
<1>2. CASE Handler
  BY <1>2 DEF Handler, HandlerEnter, HandlerNested, HandlerReturn, Visit, JudgeExit,
     ForgetEntry
<1>3. ASSUME NEW t \in Threads, ThreadStep(t) PROVE Owners'
  <2>1. CASE StartStep(t)
    BY <2>1 DEF StartStep, Admit, ResetPolicy, CheckRunning, WaitMounts, Launch,
       Settle, Track, Publish
  <2>2. CASE StopStep(t)
    BY <2>2 DEF StopStep, Lookup, DisableRestart, SignalGroup, AwaitDeath, Untrack,
       ClearMark
  <2>3. CASE RestartStep(t)
    BY <2>3 DEF RestartStep, WakeRestart, Decide, RecordAttempt, FinishRestart
  <2>4. CASE ScheduleStep(t)
    BY <2>4 DEF ScheduleStep, Consider, AskMigration, Unpend, EnterRecord, Record, Spawn
  <2>5. CASE Release(t) BY <2>5 DEF Release
  <2> QED BY <1>3, <2>1, <2>2, <2>3, <2>4, <2>5 DEF ThreadStep
<1>4. CASE UNCHANGED vars BY <1>4
<1> QED BY <1>1, <1>2, <1>3, <1>4 DEF Next

\* What the admission sees, and the steps it allows.
Working == {t \in Parties : pc[t] \in LifecyclePCs}
Allowed ==
  Admission!Next \/ (UNCHANGED <<lock, reserved, MigrationBlocks>> /\ Working' = Working)

\* A thread that goes on with its work, ends it or has nothing to do with it.
LEMMA GoingOnAllowed ==
  ASSUME TypeOK, NEW t \in Threads, NEW q, pc' = [pc EXCEPT ![t] = q],
         pc[t] \in LifecyclePCs \/ q \notin LifecyclePCs \/ t \notin Parties,
         UNCHANGED <<lock, reserved, migration>>
  PROVE  Allowed
<1>1. \A u \in Parties : u \in Threads BY DEF Parties, Threads
<1>2. \A u \in Parties : pc'[u] = IF u = t THEN q ELSE pc[u] BY <1>1 DEF TypeOK
<1>3. UNCHANGED MigrationBlocks BY DEF MigrationBlocks
<1>4. CASE t \in Parties /\ q \notin LifecyclePCs
  <2>1. Working' = Working \ {t} BY <1>2, <1>4 DEF Working
  <2>2. Admission!End(t) BY <1>3, <2>1 DEF Admission!End, Working
  <2> QED BY <1>4, <2>2 DEF Allowed, Admission!Next
<1>5. CASE t \notin Parties \/ q \in LifecyclePCs
  <2>1. Working' = Working BY <1>2, <1>5 DEF Working
  <2> QED BY <1>3, <2>1 DEF Allowed
<1> QED BY <1>4, <1>5

\* Most steps of a thread are of that kind.
LEMMA OrdinaryAllowed ==
  ASSUME IndInv, Roles, NEW t \in Threads,
         \/ StartStep(t) \/ StopStep(t) \/ RecordAttempt(t) \/ FinishRestart(t)
         \/ Consider(t) \/ AskMigration(t) \/ Unpend(t) \/ EnterRecord(t) \/ Record(t)
  PROVE  Allowed
<1>1. UNCHANGED <<lock, reserved, migration>>
  BY DEF admitVars, StartStep, Admit, ResetPolicy, CheckRunning, WaitMounts, Launch, Settle,
     Track, Publish, StopStep, Lookup, DisableRestart, SignalGroup, AwaitDeath, Untrack,
     ClearMark, RecordAttempt, FinishRestart, Consider, AskMigration, Unpend, EnterRecord,
     Record
<1>2. CASE StartStep(t) \/ StopStep(t) \/ RecordAttempt(t) \/ FinishRestart(t)
  <2>1. pc[t] \in LifecyclePCs
    BY <1>2 DEF StartStep, Admit, ResetPolicy, CheckRunning, WaitMounts, Launch, Settle,
       Track, Publish, StopStep, Lookup, DisableRestart, SignalGroup, AwaitDeath, Untrack,
       ClearMark, RecordAttempt, FinishRestart, LifecyclePCs, StartPCs, StopPCs,
       StopTargetPCs
  <2>2. \E q : pc' = [pc EXCEPT ![t] = q]
    BY <1>2 DEF StartStep, Admit, ResetPolicy, CheckRunning, WaitMounts, Launch, Settle,
       Track, Publish, StopStep, Lookup, DisableRestart, SignalGroup, AwaitDeath, Untrack,
       ClearMark, RecordAttempt, FinishRestart, Goto
  <2> QED BY <1>1, <2>1, <2>2, GoingOnAllowed DEF IndInv
<1>3. CASE Consider(t) \/ AskMigration(t) \/ Unpend(t) \/ EnterRecord(t) \/ Record(t)
  <2>1. \E q \in {"idle", "visit", "blocked", "unpend", "record", "recording", "spawn"} :
          pc' = [pc EXCEPT ![t] = q]
    BY <1>3 DEF Consider, AskMigration, Unpend, EnterRecord, Record, Goto, AfterSchedule
  <2>2. \A q \in {"idle", "visit", "blocked", "unpend", "record", "recording", "spawn"} :
          q \notin LifecyclePCs
    BY DEF LifecyclePCs, StartPCs, StopPCs, StopTargetPCs
  <2> QED BY <1>1, <2>1, <2>2, GoingOnAllowed DEF IndInv
<1> QED BY <1>2, <1>3

\* A restart takes the lock before it knows, and begins only when no job blocks.
LEMMA RelaunchAllowed ==
  ASSUME IndInv, Roles, NEW t \in Threads, WakeRestart(t) \/ Decide(t)
  PROVE  Allowed
<1>1. t \in RestartThreads /\ t \in Parties
  BY DEF WakeRestart, Decide, IndInv, Wellformed, Parties
<1>2. pc \in [Threads -> PCs] BY DEF IndInv, TypeOK
<1>3. \A u \in Parties : u \in Threads BY DEF Parties, Threads
<1>4. pc[t] \notin LifecyclePCs
  BY DEF WakeRestart, Decide, LifecyclePCs, StartPCs, StopPCs, StopTargetPCs
<1>5. CASE WakeRestart(t)
  <2>1. Working' = Working
    <3>1. pc' = [pc EXCEPT ![t] = "decide"] BY <1>5 DEF WakeRestart, Goto
    <3>2. "decide" \notin LifecyclePCs BY DEF LifecyclePCs, StartPCs, StopPCs, StopTargetPCs
    <3> QED BY <1>2, <1>3, <1>4, <3>1, <3>2 DEF Working
  <2>2. Admission!Take(t)
    BY <1>5, <2>1 DEF WakeRestart, Admission!Take, Working, MigrationBlocks
  <2> QED BY <1>1, <2>2 DEF Allowed, Admission!Next
<1>6. CASE Decide(t) /\ RelaunchRefused(nm[t])
  <2>1. pc' = [pc EXCEPT ![t] = "release"] /\ UNCHANGED <<lock, reserved, migration>>
    BY <1>6 DEF Decide, Goto, admitVars
  <2>2. "release" \notin LifecyclePCs BY DEF LifecyclePCs, StartPCs, StopPCs, StopTargetPCs
  <2> QED BY <2>1, <2>2, GoingOnAllowed DEF IndInv
<1>7. CASE Decide(t) /\ ~RelaunchRefused(nm[t])
  <2>1. PICK q \in {"lookup", "attempt"} : pc' = [pc EXCEPT ![t] = q]
    BY <1>7 DEF Decide, Goto
  <2>2. Working' = Working \cup {t}
    <3>1. q \in LifecyclePCs BY DEF LifecyclePCs, StartPCs, StopPCs, StopTargetPCs
    <3> QED BY <1>1, <1>2, <1>3, <2>1, <3>1 DEF Working
  <2>3. lock = t /\ ~MigrationBlocks /\ UNCHANGED <<lock, reserved, migration>>
    BY <1>1, <1>7 DEF Decide, RelaunchRefused, IndInv, Entitled, admitVars
  <2>4. Admission!Begin(t)
    BY <2>2, <2>3 DEF Admission!Begin, Admission!Open, Working, MigrationBlocks
  <2> QED BY <1>1, <2>4 DEF Allowed, Admission!Next
<1> QED BY <1>5, <1>6, <1>7

\* The end of a with-block or of a start-up worker's start.
LEMMA ReleaseAllowed ==
  ASSUME IndInv, Roles, Owners, NEW t \in Threads, Release(t)
  PROVE  Allowed
<1>1. pc' = [pc EXCEPT ![t] = "idle"] /\ pc[t] = "release" /\ UNCHANGED migration
  BY DEF Release, Goto
<1>2. "idle" \notin LifecyclePCs /\ "release" \notin LifecyclePCs
  BY DEF LifecyclePCs, StartPCs, StopPCs, StopTargetPCs
<1>3. CASE t \in Parties
  <2>1. Working' = Working \ {t}
    BY <1>1, <1>2 DEF IndInv, TypeOK, Parties, Threads, Working
  <2>2. \/ t \in BootThreads /\ Admission!Open(t)
        \/ t \notin BootThreads /\ reserved \ {t} = reserved
    BY DEF Release, LockOpen, Admission!Open, IndInv, TypeOK
  <2>3. Admission!End(t)
    BY <1>1, <2>1, <2>2 DEF Release, Admission!End, Working, MigrationBlocks
  <2> QED BY <1>3, <2>3 DEF Allowed, Admission!Next
<1>4. CASE t \notin Parties
  <2>1. lock # t \/ lock = NoThread BY <1>4 DEF Owners, Parties
  <2>2. UNCHANGED <<lock, reserved>>
    BY <1>4, <2>1 DEF Release, IndInv, TypeOK, Parties
  <2> QED BY <1>1, <1>4, <2>2, GoingOnAllowed DEF IndInv
<1> QED BY <1>3, <1>4

\* Handing a service to a restart thread, and the handler, are not work.
LEMMA HandlerAllowed ==
  ASSUME IndInv, Roles, Handler \/ \E t \in Threads : Spawn(t)
  PROVE  Allowed
<1>1. UNCHANGED <<lock, reserved, migration>>
  BY DEF Handler, HandlerEnter, HandlerNested, HandlerReturn, Visit, JudgeExit,
     ForgetEntry, Spawn, admitVars
<1>2. {"idle", "visit", "backoff", "spawn"} \cap LifecyclePCs = {}
  BY DEF LifecyclePCs, StartPCs, StopPCs, StopTargetPCs
<1>3. \A u \in Parties : pc'[u] \in LifecyclePCs <=> pc[u] \in LifecyclePCs
  <2>1. CASE Handler
    <3>1. \A u \in Parties : u \in Threads /\ u # Main
      BY DistinctActors DEF Parties, Threads
    <3>2. \A u \in Threads : u # Main => pc'[u] = pc[u]
      BY <2>1 DEF Handler, HandlerEnter, HandlerNested, HandlerReturn, Visit, JudgeExit,
     ForgetEntry, Goto, IndInv,
         TypeOK
    <3> QED BY <3>1, <3>2
  <2>2. ASSUME NEW t \in Threads, Spawn(t)
        PROVE  \A u \in Parties : pc'[u] \in LifecyclePCs <=> pc[u] \in LifecyclePCs
    <3>1. PICK r \in RestartThreads :
            pc[r] = "idle" /\ pc' = [pc EXCEPT ![t] = AfterSchedule(t), ![r] = "backoff"]
      BY <2>2 DEF Spawn
    <3>2. pc[t] = "spawn" /\ AfterSchedule(t) \in {"idle", "visit"}
      BY <2>2 DEF Spawn, AfterSchedule
    <3>3. \A u \in Parties : u \in Threads BY DEF Parties, Threads
    <3> QED BY <1>2, <3>1, <3>2, <3>3 DEF IndInv, TypeOK
  <2> QED BY <2>1, <2>2
<1>4. Working' = Working BY <1>3 DEF Working
<1> QED BY <1>1, <1>4 DEF Allowed, MigrationBlocks

\* A request begins under the lock, a start-up worker with a token, a job alone.
LEMMA EnvironmentAllowed ==
  ASSUME IndInv, Roles, Environment
  PROVE  Allowed
<1> USE DEF threadVars, admitVars
<1>1. "admit" \in LifecyclePCs /\ "lookup" \in LifecyclePCs
      /\ "consider" \notin LifecyclePCs
  BY DEF LifecyclePCs, StartPCs, StopPCs, StopTargetPCs
<1>2. pc \in [Threads -> PCs] /\ \A u \in Parties : u \in Threads
  BY DEF IndInv, TypeOK, Parties, Threads
<1>3. ASSUME NEW t \in ApiThreads, NEW n \in Names, NEW o \in {"start", "stop", "restart"},
             Request(t, n, o)
      PROVE  Allowed
  <2>1. PICK q \in {"admit", "lookup"} : pc' = [pc EXCEPT ![t] = q]
    BY <1>3 DEF Request, Goto
  <2>2. t \in Parties BY DEF Parties
  <2>3. Working' = Working \cup {t} BY <1>1, <1>2, <2>1, <2>2 DEF Working
  <2>4. Admission!Begin(t)
    BY <1>3, <2>3 DEF Request, Admission!Begin, Admission!Open, Working, MigrationBlocks
  <2> QED BY <2>2, <2>4 DEF Allowed, Admission!Next
<1>4. ASSUME NEW t \in BootThreads, NEW n \in Names, BootStart(t, n)
      PROVE  Allowed
  <2>1. pc' = [pc EXCEPT ![t] = "admit"] BY <1>4 DEF BootStart, Goto
  <2>2. t \in Parties BY DEF Parties
  <2>3. Working' = Working \cup {t} BY <1>1, <1>2, <2>1, <2>2 DEF Working
  <2>4. Admission!Reserve(t)
    BY <1>4, <2>3 DEF BootStart, Admission!Reserve, Admission!Open, Working, MigrationBlocks
  <2> QED BY <2>2, <2>4 DEF Allowed, Admission!Next
<1>5. ASSUME NEW t \in ShutdownThreads, NEW n \in Names, ShutdownStop(t, n)
      PROVE  Allowed
  <2>1. pc' = [pc EXCEPT ![t] = "lookup"] /\ UNCHANGED <<lock, reserved, migration>>
    BY <1>5 DEF ShutdownStop, Goto
  <2>2. t \in Threads /\ t \notin Parties BY DistinctActors DEF Threads, Parties
  <2> QED BY <2>1, <2>2, GoingOnAllowed DEF IndInv
<1>6. ASSUME NEW n \in Names, MonitorUnhealthy(n) PROVE Allowed
  <2>1. pc' = [pc EXCEPT ![Monitor] = "consider"] /\ UNCHANGED <<lock, reserved, migration>>
    BY <1>6 DEF MonitorUnhealthy, Goto
  <2>2. Monitor \in Threads BY DEF Threads
  <2> QED BY <1>1, <2>1, <2>2, GoingOnAllowed DEF IndInv
<1>7. CASE StartMigration
  <2>1. Working' = Working BY <1>7 DEF StartMigration, Working
  <2>2. Admission!Admit_job
    BY <1>7, <2>1 DEF StartMigration, MigrationMayStart, MigrationBlocks, Working,
       Admission!Admit_job
  <2> QED BY <2>2 DEF Allowed, Admission!Next
<1>8. CASE EndMigration
  <2>1. Working' = Working /\ UNCHANGED <<lock, reserved>>
    BY <1>8 DEF EndMigration, Working
  <2>2. CASE migration' = "none"
    <3>1. Admission!End_job
      BY <2>1, <2>2 DEF MigrationBlocks, Working, Admission!End_job
    <3> QED BY <3>1 DEF Allowed, Admission!Next
  <2>3. CASE migration' = "recovery"
    BY <1>8, <2>1, <2>3 DEF EndMigration, MigrationBlocks, Allowed
  <2> QED BY <1>8, <2>2, <2>3 DEF EndMigration
<1>9. CASE UNCHANGED <<pc, lock, reserved, migration>>
  BY <1>9 DEF Allowed, MigrationBlocks, Working
<1> QED
  BY <1>3, <1>4, <1>5, <1>6, <1>7, <1>8, <1>9
     DEF Environment, CompleteStartup, Shutdown, PollTracked, DieOnSignal, Crash, Die

\* The migration admission is honoured by every start, stop and restart of every
\* service: together with JobsUndisturbed it is why a job that checked nothing but the
\* lock and the tokens is alone, and the converse of it, that whoever works has asked.
THEOREM SupervisorHonoursAdmission == Spec => AdmissionHonoured
<1>1. Init => Admission!Init /\ Owners
  <2> SUFFICES ASSUME Init PROVE Admission!Init /\ Owners OBVIOUS
  <2>1. "idle" \notin LifecyclePCs BY DEF LifecyclePCs, StartPCs, StopPCs, StopTargetPCs
  <2>2. {t \in Parties : pc[t] \in LifecyclePCs} = {}
    BY <2>1 DEF Init, Parties, Threads
  <2> QED BY <2>2 DEF Init, Admission!Init, MigrationBlocks, Owners
<1>2. IndInv /\ Roles /\ Owners /\ [Next]_vars => Owners' BY OwnersStep
<1>3. IndInv /\ Roles /\ Owners /\ [Next]_vars => [Admission!Next]_(Admission!vars)
  <2> SUFFICES ASSUME IndInv, Roles, Owners, [Next]_vars PROVE Allowed
    BY DEF Allowed, Working, Admission!vars
  <2>1. CASE Environment BY <2>1, EnvironmentAllowed
  <2>2. CASE Handler BY <2>2, HandlerAllowed
  <2>3. ASSUME NEW t \in Threads, ThreadStep(t) PROVE Allowed
    BY <2>3, OrdinaryAllowed, RelaunchAllowed, ReleaseAllowed, HandlerAllowed
       DEF ThreadStep, RestartStep, ScheduleStep
  <2>4. CASE UNCHANGED vars
    BY <2>4 DEF vars, threadVars, admitVars, Allowed, MigrationBlocks, Working
  <2> QED BY <2>1, <2>2, <2>3, <2>4 DEF Next
<1> QED BY <1>1, <1>2, <1>3, RolesHold, PTL DEF Spec, AdmissionHonoured, Admission!Spec
=============================================================================
