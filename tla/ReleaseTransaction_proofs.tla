--------------------- MODULE ReleaseTransaction_proofs ---------------------
(* Theorems of ReleaseTransaction for any number of attempts, crashes and    *)
(* survivable failures: the release in service can always be recovered, its  *)
(* backups are always journaled, and a rollback that says so has restored it. *)
EXTENDS ReleaseTransaction, TLAPS

-----------------------------------------------------------------------------
(* The inductive invariant.                                                *)

\* Only one attempt has files on disk that recovery would act on.
SingleOpen == \A i, j \in Open : i = j

\* A target in a lower layer has only been copied, or is being removed.
LowerUntouched ==
  lower =>
    /\ ~activated
    /\ \A i \in Tx : previous[i] # Absent =>
         journal[i] \in {"copying_previous", "replacing_overlay_target"}

\* Recovery works on the one open journal, and its next step is the one a
\* recovery started afresh would take.
RecoveryShape ==
  /\ pc \in RecoveryPCs => ~activated /\ tx \in Tx
  /\ pc = "recover" => found = Open
  /\ pc \in RecoveryPCs \ {"recover"} =>
       /\ rec \in Open /\ found = {} /\ Recovery(rec) = pc

\* Who holds what: the release in service is in place, or moved aside, or copied.
InPlace   == target = good /\ previous[tx] = Absent
MovedAway == target = Absent /\ previous[tx] = good /\ good # Absent
Replaced  == target = tx /\ previous[tx] = good

\* How far a running attempt has come, by control point.
WorkShape ==
  /\ pc \notin RecoveryPCs \cup {"idle"} => tx \in Tx /\ Open \subseteq {tx}
  /\ pc = "mkdir" => Open = {}
  /\ pc \in {"mkdir", "prepare", "build", "activate", "swap_out", "copying", "copy",
             "publish_copy", "mark_failed", "rolled_back", "forget_rollback",
             "abandon", "forget_abandoned", "committed", "forget"} => InPlace
  /\ pc \in {"build", "activate"} => journal[tx] \in {"prepared", "building"}
  /\ pc = "prepare" => journal[tx] = "none"
  /\ pc \in {"swap_out", "copying"} => journal[tx] = "activating" /\ good # Absent
  /\ pc \in {"activate", "swap_out", "copying", "copy", "publish_copy", "replacing",
             "remove_target", "swap_in"} => candidate[tx] = tx /\ ~activated
  /\ pc \in {"mkdir", "prepare", "build", "undo", "undo_restore", "mark_failed",
             "forget_rollback", "abandon", "forget_abandoned"} => ~activated
  /\ pc \in {"copy", "publish_copy", "replacing"} =>
       journal[tx] = "copying_previous" /\ good # Absent
  /\ pc = "publish_copy" => staging[tx] = good
  /\ pc \notin RecoveryPCs \cup {"idle", "copy", "publish_copy", "mark_failed"} =>
       staging[tx] = Absent
  /\ pc = "replacing" => target = good /\ previous[tx] = good
  /\ pc \in {"remove_target", "undo"} =>
       /\ journal[tx] = "replacing_overlay_target"
       /\ previous[tx] = good /\ good # Absent /\ target # Absent
  /\ pc = "swap_in" => target = Absent /\ previous[tx] = good
  /\ pc \in {"swap_in", "undo_restore", "mark_activated"} =>
       journal[tx] \in {"activating", "replacing_overlay_target"}
  /\ pc = "undo_restore" => MovedAway
  /\ pc = "mark_failed" =>
       journal[tx] \in {"activating", "copying_previous", "replacing_overlay_target"}
  /\ pc \in {"mark_activated", "verify", "commit", "withdraw"} => Replaced /\ activated
  /\ pc \in {"verify", "commit"} => journal[tx] = "activated"
  /\ pc \in {"roll_back", "leave"} => journal[tx] # "committing"
  /\ pc = "roll_back" => (activated /\ Replaced) \/ (~activated /\ InPlace)
  /\ pc \in {"withdraw", "put_back", "rolled_back"} => journal[tx] = "rolling_back"
  /\ pc = "put_back" => MovedAway /\ activated
  /\ pc = "forget_rollback" => journal[tx] = "rolled_back"
  /\ pc = "rollback_failed" => journal[tx] \in {"rolling_back", "rolled_back"}
  /\ pc \in {"rollback_failed", "leave"} =>
       (activated /\ (Replaced \/ MovedAway)) \/ (~activated /\ InPlace)
  /\ pc = "drop_previous" =>
       target = tx /\ good = tx /\ journal[tx] = "committing"

IInv == /\ TypeOK /\ BackupsJournaled /\ SingleOpen /\ KnownGoodRecoverable
        /\ LowerUntouched /\ RecoveryShape /\ WorkShape

-----------------------------------------------------------------------------
(* The invariant step by step: one lemma per group of actions.              *)

\* Recovery keeps to what the journal says.
LEMMA RecoverPreserves == ASSUME IInv, Recover PROVE IInv'
<1> USE ReleaseAssumption
      DEF IInv, At, Goto, Write, Tx, Releases, Trees, RecoveryPCs, trees, disk,
          TypeOK, BackupsJournaled, SingleOpen, KnownGoodRecoverable,
          LowerUntouched, RecoveryShape, WorkShape, InPlace, MovedAway, Replaced,
          Recovered, Recovery, Uncommitted, Open
<1>1. CASE RecoverNext
  <2>1. TypeOK'
    <3>1. CASE found = {}
      <4>1. Open = {} /\ target # Torn
        BY <1>1, <3>1 DEF RecoverNext, RecoveryShape, KnownGoodRecoverable
      <4> QED BY <1>1, <3>1, <4>1 DEF RecoverNext, TypeOK, PCs
    <3>2. CASE found # {}
      <4>1. PICK i \in found :
              rec' = i /\ found' = found \ {i} /\ pc' = Recovery(i)
        BY <1>1, <3>2 DEF RecoverNext
      <4>2. pc' \in PCs BY <4>1 DEF Recovery, PCs
      <4> QED BY <1>1, <3>2, <4>1, <4>2 DEF RecoverNext, TypeOK
    <3> QED BY <3>1, <3>2
  <2>2. BackupsJournaled' BY <1>1 DEF RecoverNext
  <2>3. SingleOpen' BY <1>1 DEF RecoverNext
  <2>4. KnownGoodRecoverable' BY <1>1 DEF RecoverNext
  <2>5. LowerUntouched' BY <1>1 DEF RecoverNext
  <2>6. RecoveryShape'
    <3>1. CASE found = {} BY <1>1, <3>1 DEF RecoverNext, RecoveryShape
    <3>2. CASE found # {}
      <4>1. PICK i \in found :
              rec' = i /\ found' = found \ {i} /\ pc' = Recovery(i)
        BY <1>1, <3>2 DEF RecoverNext
      <4>2. UNCHANGED disk BY <1>1 DEF RecoverNext
      <4>3. i \in Open /\ found' = {} /\ ~activated
        BY <1>1, <4>1 DEF RecoverNext, RecoveryShape, SingleOpen
      <4>4. rec' \in Open' /\ Recovery(rec)' = pc' /\ pc' # "recover"
        BY <4>1, <4>2, <4>3 DEF Recovery, Open
      <4> QED BY <1>1, <4>3, <4>4 DEF RecoverNext, RecoveryShape
    <3> QED BY <3>1, <3>2
  <2>7. WorkShape'
    <3>1. CASE found = {}
      <4>1. Open = {} /\ (good # Absent => target = good)
        BY <1>1, <3>1 DEF RecoverNext, RecoveryShape, KnownGoodRecoverable
      <4>2. \A i \in Tx : previous[i] = Absent /\ staging[i] = Absent
        BY <4>1 DEF BackupsJournaled, Open
      <4>3. Open' = {} /\ target' = good' /\ ~activated' /\ pc' = "mkdir"
        BY <1>1, <3>1, <4>1 DEF RecoverNext, RecoveryShape, Open
      <4>4. tx \in Tx /\ UNCHANGED <<tx, previous, staging>>
        BY <1>1, <3>1 DEF RecoverNext, RecoveryShape
      <4> QED BY <4>2, <4>3, <4>4 DEF WorkShape, InPlace
    <3>2. CASE found # {}
      <4>1. pc' \in RecoveryPCs BY <1>1, <3>2 DEF RecoverNext, Recovery
      <4> QED BY <1>1, <4>1 DEF WorkShape
    <3> QED BY <3>1, <3>2
  <2> QED BY <2>1, <2>2, <2>3, <2>4, <2>5, <2>6, <2>7
<1>2. CASE Discard
  <2>1. TypeOK' BY <1>2 DEF Discard, PCs, JournalStates
  <2>2. BackupsJournaled' BY <1>2 DEF Discard
  <2>3. SingleOpen' BY <1>2 DEF Discard
  <2>4. KnownGoodRecoverable' BY <1>2 DEF Discard
  <2>5. LowerUntouched' BY <1>2 DEF Discard
  <2>6. RecoveryShape'
    <3>1. rec \in Tx /\ Open = {rec} /\ found = {} /\ ~activated /\ tx \in Tx
      BY <1>2 DEF Discard, RecoveryShape, SingleOpen, Open
    <3>2. Open' = {} BY <1>2, <3>1 DEF Discard, TypeOK, Open
    <3> QED BY <1>2, <3>1, <3>2 DEF Discard, RecoveryShape
  <2>7. WorkShape' BY <1>2 DEF Discard
  <2> QED BY <2>1, <2>2, <2>3, <2>4, <2>5, <2>6, <2>7
<1>3. CASE Clear
  <2>1. TypeOK' BY <1>3 DEF Clear, PCs, JournalStates
  <2>2. BackupsJournaled' BY <1>3 DEF Clear
  <2>3. SingleOpen' BY <1>3 DEF Clear
  <2>4. KnownGoodRecoverable' BY <1>3 DEF Clear
  <2>5. LowerUntouched' BY <1>3 DEF Clear
  <2>6. RecoveryShape' BY <1>3 DEF Clear
  <2>7. WorkShape' BY <1>3 DEF Clear
  <2> QED BY <2>1, <2>2, <2>3, <2>4, <2>5, <2>6, <2>7
<1>4. CASE Aside
  <2>1. TypeOK' BY <1>4 DEF Aside, PCs, JournalStates
  <2>2. BackupsJournaled' BY <1>4 DEF Aside
  <2>3. SingleOpen' BY <1>4 DEF Aside
  <2>4. KnownGoodRecoverable' BY <1>4 DEF Aside
  <2>5. LowerUntouched' BY <1>4 DEF Aside
  <2>6. RecoveryShape' BY <1>4 DEF Aside
  <2>7. WorkShape' BY <1>4 DEF Aside
  <2> QED BY <2>1, <2>2, <2>3, <2>4, <2>5, <2>6, <2>7
<1>5. CASE Restore
  <2>1. TypeOK' BY <1>5 DEF Restore, PCs, JournalStates
  <2>2. BackupsJournaled' BY <1>5 DEF Restore
  <2>3. SingleOpen' BY <1>5 DEF Restore
  <2>4. KnownGoodRecoverable' BY <1>5 DEF Restore
  <2>5. LowerUntouched' BY <1>5 DEF Restore
  <2>6. RecoveryShape'
    <3>1. rec \in Tx /\ found = {} /\ ~activated /\ Recovery(rec) = "restore"
      BY <1>5 DEF Restore, RecoveryShape, Open
    <3>5. journal[rec] # "copying_previous"
      <4>1. journal[rec] = "copying_previous" => Recovery(rec) = "discard"
        BY DEF Recovery
      <4> QED BY <3>1, <4>1
    <3>2. previous'[rec] = Absent BY <1>5, <3>1 DEF Restore, TypeOK
    <3>3. rec \in Open' BY <1>5 DEF Restore, RecoveryShape, Open
    <3>4. Recovery(rec)' = "sweep" BY <1>5, <3>5, <3>2 DEF Restore, Recovery
    <3> QED BY <1>5, <3>1, <3>3, <3>4 DEF Restore, RecoveryShape
  <2>7. WorkShape' BY <1>5 DEF Restore
  <2> QED BY <2>1, <2>2, <2>3, <2>4, <2>5, <2>6, <2>7
<1>6. CASE Sweep
  <2>1. TypeOK' BY <1>6 DEF Sweep, PCs, JournalStates
  <2>2. BackupsJournaled' BY <1>6 DEF Sweep
  <2>3. SingleOpen' BY <1>6 DEF Sweep
  <2>4. KnownGoodRecoverable' BY <1>6 DEF Sweep
  <2>5. LowerUntouched' BY <1>6 DEF Sweep
  <2>6. RecoveryShape'
    <3>1. rec \in Tx /\ Open = {rec} /\ found = {} /\ ~activated /\ tx \in Tx
      BY <1>6 DEF Sweep, RecoveryShape, SingleOpen, Open
    <3>2. Open' = {} BY <1>6, <3>1 DEF Sweep, TypeOK, Open
    <3> QED BY <1>6, <3>1, <3>2 DEF Sweep, RecoveryShape
  <2>7. WorkShape' BY <1>6 DEF Sweep
  <2> QED BY <2>1, <2>2, <2>3, <2>4, <2>5, <2>6, <2>7
<1> QED BY <1>1, <1>2, <1>3, <1>4, <1>5, <1>6 DEF Recover

\* Building leaves the target alone.
LEMMA AssemblePreserves == ASSUME IInv, Assemble PROVE IInv'
<1> USE ReleaseAssumption
      DEF IInv, At, Goto, Write, Tx, Releases, Trees, RecoveryPCs, trees, disk,
          TypeOK, BackupsJournaled, SingleOpen, KnownGoodRecoverable,
          LowerUntouched, RecoveryShape, WorkShape, InPlace, MovedAway, Replaced,
          Recovered, Recovery, Uncommitted, Open
<1>1. CASE MakeCandidate
  <2>1. TypeOK' BY <1>1 DEF MakeCandidate, PCs, JournalStates
  <2>2. BackupsJournaled' BY <1>1 DEF MakeCandidate
  <2>3. SingleOpen' BY <1>1 DEF MakeCandidate
  <2>4. KnownGoodRecoverable' BY <1>1 DEF MakeCandidate
  <2>5. LowerUntouched' BY <1>1 DEF MakeCandidate
  <2>6. RecoveryShape' BY <1>1 DEF MakeCandidate
  <2>7. WorkShape' BY <1>1 DEF MakeCandidate
  <2> QED BY <2>1, <2>2, <2>3, <2>4, <2>5, <2>6, <2>7
<1>2. CASE Prepare
  <2>1. TypeOK' BY <1>2 DEF Prepare, PCs, JournalStates
  <2>2. BackupsJournaled' BY <1>2 DEF Prepare
  <2>3. SingleOpen' BY <1>2, SMTT(30) DEF Prepare
  <2>4. KnownGoodRecoverable' BY <1>2 DEF Prepare
  <2>5. LowerUntouched' BY <1>2 DEF Prepare
  <2>6. RecoveryShape' BY <1>2 DEF Prepare
  <2>7. WorkShape' BY <1>2 DEF Prepare
  <2> QED BY <2>1, <2>2, <2>3, <2>4, <2>5, <2>6, <2>7
<1>3. CASE MarkBuilding
  <2>1. TypeOK' BY <1>3 DEF MarkBuilding, PCs, JournalStates
  <2>2. BackupsJournaled' BY <1>3 DEF MarkBuilding
  <2>3. SingleOpen' BY <1>3 DEF MarkBuilding
  <2>4. KnownGoodRecoverable' BY <1>3 DEF MarkBuilding
  <2>5. LowerUntouched' BY <1>3 DEF MarkBuilding
  <2>6. RecoveryShape' BY <1>3 DEF MarkBuilding
  <2>7. WorkShape' BY <1>3 DEF MarkBuilding
  <2> QED BY <2>1, <2>2, <2>3, <2>4, <2>5, <2>6, <2>7
<1>4. CASE Build
  <2>1. TypeOK' BY <1>4 DEF Build, PCs, JournalStates
  <2>2. BackupsJournaled' BY <1>4 DEF Build
  <2>3. SingleOpen' BY <1>4 DEF Build
  <2>4. KnownGoodRecoverable' BY <1>4 DEF Build
  <2>5. LowerUntouched' BY <1>4 DEF Build
  <2>6. RecoveryShape' BY <1>4 DEF Build
  <2>7. WorkShape' BY <1>4 DEF Build
  <2> QED BY <2>1, <2>2, <2>3, <2>4, <2>5, <2>6, <2>7
<1> QED BY <1>1, <1>2, <1>3, <1>4 DEF Assemble

\* The swap keeps a whole copy that the journal points at.
LEMMA SwapPreserves == ASSUME IInv, Swap PROVE IInv'
<1> USE ReleaseAssumption
      DEF IInv, At, Goto, Write, Tx, Releases, Trees, RecoveryPCs, trees, disk,
          TypeOK, BackupsJournaled, SingleOpen, KnownGoodRecoverable,
          LowerUntouched, RecoveryShape, WorkShape, InPlace, MovedAway, Replaced,
          Recovered, Recovery, Uncommitted, Open
<1>1. CASE Activate
  <2>1. TypeOK' BY <1>1 DEF Activate, PCs, JournalStates
  <2>2. BackupsJournaled' BY <1>1 DEF Activate
  <2>3. SingleOpen' BY <1>1 DEF Activate
  <2>4. KnownGoodRecoverable' BY <1>1 DEF Activate
  <2>5. LowerUntouched' BY <1>1 DEF Activate
  <2>6. RecoveryShape' BY <1>1 DEF Activate
  <2>7. WorkShape' BY <1>1 DEF Activate
  <2> QED BY <2>1, <2>2, <2>3, <2>4, <2>5, <2>6, <2>7
<1>2. CASE SwapOut
  <2>1. TypeOK' BY <1>2 DEF SwapOut, PCs, JournalStates
  <2>2. BackupsJournaled' BY <1>2 DEF SwapOut
  <2>3. SingleOpen' BY <1>2 DEF SwapOut
  <2>4. KnownGoodRecoverable' BY <1>2, SMTT(30) DEF SwapOut
  <2>5. LowerUntouched' BY <1>2 DEF SwapOut
  <2>6. RecoveryShape' BY <1>2 DEF SwapOut
  <2>7. WorkShape' BY <1>2 DEF SwapOut
  <2> QED BY <2>1, <2>2, <2>3, <2>4, <2>5, <2>6, <2>7
<1>3. CASE SwapIn
  <2>1. TypeOK' BY <1>3 DEF SwapIn, PCs, JournalStates
  <2>2. BackupsJournaled' BY <1>3 DEF SwapIn
  <2>3. SingleOpen' BY <1>3 DEF SwapIn
  <2>4. KnownGoodRecoverable' BY <1>3 DEF SwapIn
  <2>5. LowerUntouched' BY <1>3 DEF SwapIn
  <2>6. RecoveryShape' BY <1>3 DEF SwapIn
  <2>7. WorkShape' BY <1>3 DEF SwapIn
  <2> QED BY <2>1, <2>2, <2>3, <2>4, <2>5, <2>6, <2>7
<1>4. CASE MarkActivated
  <2>1. TypeOK' BY <1>4 DEF MarkActivated, PCs, JournalStates
  <2>2. BackupsJournaled' BY <1>4 DEF MarkActivated
  <2>3. SingleOpen' BY <1>4 DEF MarkActivated
  <2>4. KnownGoodRecoverable' BY <1>4 DEF MarkActivated
  <2>5. LowerUntouched' BY <1>4 DEF MarkActivated
  <2>6. RecoveryShape' BY <1>4 DEF MarkActivated
  <2>7. WorkShape' BY <1>4 DEF MarkActivated
  <2> QED BY <2>1, <2>2, <2>3, <2>4, <2>5, <2>6, <2>7
<1>5. CASE CopyingPrevious
  <2>1. TypeOK' BY <1>5 DEF CopyingPrevious, PCs, JournalStates
  <2>2. BackupsJournaled' BY <1>5 DEF CopyingPrevious
  <2>3. SingleOpen' BY <1>5 DEF CopyingPrevious
  <2>4. KnownGoodRecoverable' BY <1>5 DEF CopyingPrevious
  <2>5. LowerUntouched' BY <1>5 DEF CopyingPrevious
  <2>6. RecoveryShape' BY <1>5 DEF CopyingPrevious
  <2>7. WorkShape' BY <1>5 DEF CopyingPrevious
  <2> QED BY <2>1, <2>2, <2>3, <2>4, <2>5, <2>6, <2>7
<1>6. CASE CopyTree
  <2>1. TypeOK' BY <1>6 DEF CopyTree, PCs, JournalStates
  <2>2. BackupsJournaled' BY <1>6 DEF CopyTree
  <2>3. SingleOpen' BY <1>6 DEF CopyTree
  <2>4. KnownGoodRecoverable' BY <1>6 DEF CopyTree
  <2>5. LowerUntouched' BY <1>6 DEF CopyTree
  <2>6. RecoveryShape' BY <1>6 DEF CopyTree
  <2>7. WorkShape' BY <1>6 DEF CopyTree
  <2> QED BY <2>1, <2>2, <2>3, <2>4, <2>5, <2>6, <2>7
<1>7. CASE PublishCopy
  <2>1. TypeOK' BY <1>7 DEF PublishCopy, PCs, JournalStates
  <2>2. BackupsJournaled' BY <1>7 DEF PublishCopy
  <2>3. SingleOpen' BY <1>7 DEF PublishCopy
  <2>4. KnownGoodRecoverable' BY <1>7 DEF PublishCopy
  <2>5. LowerUntouched' BY <1>7 DEF PublishCopy
  <2>6. RecoveryShape' BY <1>7 DEF PublishCopy
  <2>7. WorkShape' BY <1>7 DEF PublishCopy
  <2> QED BY <2>1, <2>2, <2>3, <2>4, <2>5, <2>6, <2>7
<1>8. CASE ReplacingTarget
  <2>1. TypeOK' BY <1>8 DEF ReplacingTarget, PCs, JournalStates
  <2>2. BackupsJournaled' BY <1>8 DEF ReplacingTarget
  <2>3. SingleOpen' BY <1>8 DEF ReplacingTarget
  <2>4. KnownGoodRecoverable' BY <1>8 DEF ReplacingTarget
  <2>5. LowerUntouched' BY <1>8 DEF ReplacingTarget
  <2>6. RecoveryShape' BY <1>8 DEF ReplacingTarget
  <2>7. WorkShape' BY <1>8 DEF ReplacingTarget
  <2> QED BY <2>1, <2>2, <2>3, <2>4, <2>5, <2>6, <2>7
<1>9. CASE RemoveTarget
  <2>1. TypeOK' BY <1>9 DEF RemoveTarget, PCs, JournalStates
  <2>2. BackupsJournaled' BY <1>9 DEF RemoveTarget
  <2>3. SingleOpen' BY <1>9 DEF RemoveTarget
  <2>4. KnownGoodRecoverable' BY <1>9 DEF RemoveTarget
  <2>5. LowerUntouched' BY <1>9 DEF RemoveTarget
  <2>6. RecoveryShape' BY <1>9 DEF RemoveTarget
  <2>7. WorkShape' BY <1>9 DEF RemoveTarget
  <2> QED BY <2>1, <2>2, <2>3, <2>4, <2>5, <2>6, <2>7
<1>10. CASE Verify
  <2>1. TypeOK' BY <1>10 DEF Verify, PCs, JournalStates
  <2>2. BackupsJournaled' BY <1>10 DEF Verify
  <2>3. SingleOpen' BY <1>10 DEF Verify
  <2>4. KnownGoodRecoverable' BY <1>10 DEF Verify
  <2>5. LowerUntouched' BY <1>10 DEF Verify
  <2>6. RecoveryShape' BY <1>10 DEF Verify
  <2>7. WorkShape' BY <1>10 DEF Verify
  <2> QED BY <2>1, <2>2, <2>3, <2>4, <2>5, <2>6, <2>7
<1> QED BY <1>1, <1>2, <1>3, <1>4, <1>5, <1>6, <1>7, <1>8, <1>9, <1>10 DEF Swap

\* So does undoing it.
LEMMA UndoPreserves == ASSUME IInv, UndoSwap PROVE IInv'
<1> USE ReleaseAssumption
      DEF IInv, At, Goto, Write, Tx, Releases, Trees, RecoveryPCs, trees, disk,
          TypeOK, BackupsJournaled, SingleOpen, KnownGoodRecoverable,
          LowerUntouched, RecoveryShape, WorkShape, InPlace, MovedAway, Replaced,
          Recovered, Recovery, Uncommitted, Open
<1>1. CASE UndoRemove
  <2>1. TypeOK' BY <1>1 DEF UndoRemove, PCs, JournalStates
  <2>2. BackupsJournaled' BY <1>1 DEF UndoRemove
  <2>3. SingleOpen' BY <1>1 DEF UndoRemove
  <2>4. KnownGoodRecoverable' BY <1>1 DEF UndoRemove
  <2>5. LowerUntouched' BY <1>1 DEF UndoRemove
  <2>6. RecoveryShape' BY <1>1 DEF UndoRemove
  <2>7. WorkShape' BY <1>1 DEF UndoRemove
  <2> QED BY <2>1, <2>2, <2>3, <2>4, <2>5, <2>6, <2>7
<1>2. CASE UndoRestore
  <2>1. TypeOK' BY <1>2 DEF UndoRestore, PCs, JournalStates
  <2>2. BackupsJournaled' BY <1>2 DEF UndoRestore
  <2>3. SingleOpen' BY <1>2 DEF UndoRestore
  <2>4. KnownGoodRecoverable' BY <1>2 DEF UndoRestore
  <2>5. LowerUntouched' BY <1>2 DEF UndoRestore
  <2>6. RecoveryShape' BY <1>2 DEF UndoRestore
  <2>7. WorkShape' BY <1>2 DEF UndoRestore
  <2> QED BY <2>1, <2>2, <2>3, <2>4, <2>5, <2>6, <2>7
<1>3. CASE MarkFailed
  <2>1. TypeOK' BY <1>3 DEF MarkFailed, PCs, JournalStates
  <2>2. BackupsJournaled' BY <1>3 DEF MarkFailed
  <2>3. SingleOpen' BY <1>3 DEF MarkFailed
  <2>4. KnownGoodRecoverable' BY <1>3 DEF MarkFailed
  <2>5. LowerUntouched' BY <1>3 DEF MarkFailed
  <2>6. RecoveryShape' BY <1>3 DEF MarkFailed
  <2>7. WorkShape' BY <1>3 DEF MarkFailed
  <2> QED BY <2>1, <2>2, <2>3, <2>4, <2>5, <2>6, <2>7
<1> QED BY <1>1, <1>2, <1>3 DEF UndoSwap

\* Rolling back restores before it forgets.
LEMMA RollingBackPreserves == ASSUME IInv, RollingBack PROVE IInv'
<1> USE ReleaseAssumption
      DEF IInv, At, Goto, Write, Tx, Releases, Trees, RecoveryPCs, trees, disk,
          TypeOK, BackupsJournaled, SingleOpen, KnownGoodRecoverable,
          LowerUntouched, RecoveryShape, WorkShape, InPlace, MovedAway, Replaced,
          Recovered, Recovery, Uncommitted, Open
<1>1. CASE RollBack
  <2>1. TypeOK'
    BY <1>1 DEF RollBack, AfterRollBack, AfterPutAside, PCs, JournalStates
  <2>2. BackupsJournaled' BY <1>1 DEF RollBack, AfterRollBack, AfterPutAside
  <2>3. SingleOpen'
    <3>1. Open' \subseteq {tx}
      BY <1>1 DEF RollBack, TypeOK, Open, WorkShape
    <3> HIDE DEF Open, WorkShape, IInv, TypeOK, KnownGoodRecoverable
    <3> QED BY ONLY <3>1 DEF SingleOpen
  <2>4. KnownGoodRecoverable' BY <1>1 DEF RollBack, AfterRollBack, AfterPutAside
  <2>5. LowerUntouched' BY <1>1 DEF RollBack, AfterRollBack, AfterPutAside
  <2>6. RecoveryShape' BY <1>1 DEF RollBack, AfterRollBack, AfterPutAside
  <2>7. WorkShape' BY <1>1 DEF RollBack, AfterRollBack, AfterPutAside
  <2> QED BY <2>1, <2>2, <2>3, <2>4, <2>5, <2>6, <2>7
<1>2. CASE Withdraw
  <2>1. TypeOK' BY <1>2 DEF Withdraw, AfterPutAside, PCs, JournalStates
  <2>2. BackupsJournaled' BY <1>2 DEF Withdraw, AfterPutAside
  <2>3. SingleOpen' BY <1>2 DEF Withdraw, AfterPutAside
  <2>4. KnownGoodRecoverable' BY <1>2, SMTT(30) DEF Withdraw, AfterPutAside
  <2>5. LowerUntouched' BY <1>2 DEF Withdraw, AfterPutAside
  <2>6. RecoveryShape' BY <1>2 DEF Withdraw, AfterPutAside
  <2>7. WorkShape' BY <1>2 DEF Withdraw, AfterPutAside
  <2> QED BY <2>1, <2>2, <2>3, <2>4, <2>5, <2>6, <2>7
<1>3. CASE PutBack
  <2>1. TypeOK' BY <1>3 DEF PutBack, PCs, JournalStates
  <2>2. BackupsJournaled' BY <1>3 DEF PutBack
  <2>3. SingleOpen' BY <1>3 DEF PutBack
  <2>4. KnownGoodRecoverable' BY <1>3 DEF PutBack
  <2>5. LowerUntouched' BY <1>3 DEF PutBack
  <2>6. RecoveryShape' BY <1>3 DEF PutBack
  <2>7. WorkShape' BY <1>3 DEF PutBack
  <2> QED BY <2>1, <2>2, <2>3, <2>4, <2>5, <2>6, <2>7
<1>4. CASE RolledBack
  <2>1. TypeOK' BY <1>4 DEF RolledBack, PCs, JournalStates
  <2>2. BackupsJournaled' BY <1>4 DEF RolledBack
  <2>3. SingleOpen' BY <1>4 DEF RolledBack
  <2>4. KnownGoodRecoverable' BY <1>4 DEF RolledBack
  <2>5. LowerUntouched' BY <1>4 DEF RolledBack
  <2>6. RecoveryShape' BY <1>4 DEF RolledBack
  <2>7. WorkShape' BY <1>4 DEF RolledBack
  <2> QED BY <2>1, <2>2, <2>3, <2>4, <2>5, <2>6, <2>7
<1>5. CASE ForgetRollback
  <2>1. TypeOK' BY <1>5 DEF ForgetRollback, PCs, JournalStates
  <2>2. BackupsJournaled' BY <1>5 DEF ForgetRollback
  <2>3. SingleOpen' BY <1>5 DEF ForgetRollback
  <2>4. KnownGoodRecoverable' BY <1>5 DEF ForgetRollback
  <2>5. LowerUntouched' BY <1>5 DEF ForgetRollback
  <2>6. RecoveryShape' BY <1>5 DEF ForgetRollback
  <2>7. WorkShape' BY <1>5 DEF ForgetRollback
  <2> QED BY <2>1, <2>2, <2>3, <2>4, <2>5, <2>6, <2>7
<1>6. CASE RollbackFailed
  <2>1. TypeOK' BY <1>6 DEF RollbackFailed, PCs, JournalStates
  <2>2. BackupsJournaled' BY <1>6 DEF RollbackFailed
  <2>3. SingleOpen' BY <1>6 DEF RollbackFailed
  <2>4. KnownGoodRecoverable' BY <1>6 DEF RollbackFailed
  <2>5. LowerUntouched' BY <1>6 DEF RollbackFailed
  <2>6. RecoveryShape' BY <1>6 DEF RollbackFailed
  <2>7. WorkShape' BY <1>6 DEF RollbackFailed
  <2> QED BY <2>1, <2>2, <2>3, <2>4, <2>5, <2>6, <2>7
<1>7. CASE Leave
  <2>1. TypeOK' BY <1>7 DEF Leave, PCs, JournalStates
  <2>2. BackupsJournaled' BY <1>7 DEF Leave
  <2>3. SingleOpen' BY <1>7 DEF Leave
  <2>4. KnownGoodRecoverable' BY <1>7 DEF Leave
  <2>5. LowerUntouched' BY <1>7 DEF Leave
  <2>6. RecoveryShape' BY <1>7 DEF Leave
  <2>7. WorkShape' BY <1>7 DEF Leave
  <2> QED BY <2>1, <2>2, <2>3, <2>4, <2>5, <2>6, <2>7
<1> QED BY <1>1, <1>2, <1>3, <1>4, <1>5, <1>6, <1>7 DEF RollingBack

\* Committing decides before it drops.
LEMMA FinishPreserves == ASSUME IInv, Finish PROVE IInv'
<1> USE ReleaseAssumption
      DEF IInv, At, Goto, Write, Tx, Releases, Trees, RecoveryPCs, trees, disk,
          TypeOK, BackupsJournaled, SingleOpen, KnownGoodRecoverable,
          LowerUntouched, RecoveryShape, WorkShape, InPlace, MovedAway, Replaced,
          Recovered, Recovery, Uncommitted, Open
<1>1. CASE Commit
  <2>1. TypeOK'
    <3>1. target \in Releases BY <1>1 DEF Commit, WorkShape, Replaced
    <3> QED BY <1>1, <3>1 DEF Commit, TypeOK, PCs, JournalStates
  <2>2. BackupsJournaled' BY <1>1 DEF Commit
  <2>3. SingleOpen' BY <1>1 DEF Commit
  <2>4. KnownGoodRecoverable' BY <1>1 DEF Commit
  <2>5. LowerUntouched' BY <1>1 DEF Commit
  <2>6. RecoveryShape' BY <1>1 DEF Commit
  <2>7. WorkShape' BY <1>1 DEF Commit
  <2> QED BY <2>1, <2>2, <2>3, <2>4, <2>5, <2>6, <2>7
<1>2. CASE DropPrevious
  <2>1. TypeOK' BY <1>2 DEF DropPrevious, PCs, JournalStates
  <2>2. BackupsJournaled' BY <1>2 DEF DropPrevious
  <2>3. SingleOpen' BY <1>2 DEF DropPrevious
  <2>4. KnownGoodRecoverable' BY <1>2 DEF DropPrevious
  <2>5. LowerUntouched' BY <1>2 DEF DropPrevious
  <2>6. RecoveryShape' BY <1>2 DEF DropPrevious
  <2>7. WorkShape' BY <1>2 DEF DropPrevious
  <2> QED BY <2>1, <2>2, <2>3, <2>4, <2>5, <2>6, <2>7
<1>3. CASE Committed
  <2>1. TypeOK' BY <1>3 DEF Committed, PCs, JournalStates
  <2>2. BackupsJournaled' BY <1>3 DEF Committed
  <2>3. SingleOpen' BY <1>3 DEF Committed
  <2>4. KnownGoodRecoverable' BY <1>3 DEF Committed
  <2>5. LowerUntouched' BY <1>3 DEF Committed
  <2>6. RecoveryShape' BY <1>3 DEF Committed
  <2>7. WorkShape' BY <1>3 DEF Committed
  <2> QED BY <2>1, <2>2, <2>3, <2>4, <2>5, <2>6, <2>7
<1>4. CASE Forget
  <2>1. TypeOK' BY <1>4 DEF Forget, PCs, JournalStates
  <2>2. BackupsJournaled' BY <1>4 DEF Forget
  <2>3. SingleOpen' BY <1>4 DEF Forget
  <2>4. KnownGoodRecoverable' BY <1>4 DEF Forget
  <2>5. LowerUntouched' BY <1>4 DEF Forget
  <2>6. RecoveryShape' BY <1>4 DEF Forget
  <2>7. WorkShape' BY <1>4 DEF Forget
  <2> QED BY <2>1, <2>2, <2>3, <2>4, <2>5, <2>6, <2>7
<1>5. CASE Abandon
  <2>1. TypeOK' BY <1>5 DEF Abandon, PCs, JournalStates
  <2>2. BackupsJournaled' BY <1>5 DEF Abandon
  <2>3. SingleOpen' BY <1>5 DEF Abandon
  <2>4. KnownGoodRecoverable' BY <1>5 DEF Abandon
  <2>5. LowerUntouched' BY <1>5 DEF Abandon
  <2>6. RecoveryShape' BY <1>5 DEF Abandon
  <2>7. WorkShape' BY <1>5 DEF Abandon
  <2> QED BY <2>1, <2>2, <2>3, <2>4, <2>5, <2>6, <2>7
<1>6. CASE ForgetAbandoned
  <2>1. TypeOK' BY <1>6 DEF ForgetAbandoned, PCs, JournalStates
  <2>2. BackupsJournaled' BY <1>6 DEF ForgetAbandoned
  <2>3. SingleOpen' BY <1>6 DEF ForgetAbandoned
  <2>4. KnownGoodRecoverable' BY <1>6 DEF ForgetAbandoned
  <2>5. LowerUntouched' BY <1>6 DEF ForgetAbandoned
  <2>6. RecoveryShape' BY <1>6 DEF ForgetAbandoned
  <2>7. WorkShape' BY <1>6 DEF ForgetAbandoned
  <2> QED BY <2>1, <2>2, <2>3, <2>4, <2>5, <2>6, <2>7
<1> QED BY <1>1, <1>2, <1>3, <1>4, <1>5, <1>6 DEF Finish

\* Crashes, half-done removals and the next attempt find it intact.
LEMMA DisturbancePreserves == ASSUME IInv, Begin \/ Crash \/ Tear PROVE IInv'
<1> USE ReleaseAssumption
      DEF IInv, At, Goto, Write, Tx, Releases, Trees, RecoveryPCs, trees, disk,
          TypeOK, BackupsJournaled, SingleOpen, KnownGoodRecoverable,
          LowerUntouched, RecoveryShape, WorkShape, InPlace, MovedAway, Replaced,
          Recovered, Recovery, Uncommitted, Open
<1>1. CASE Begin
  <2>1. TypeOK'
    <3>1. tx + 1 \in 0 .. Last /\ Open \subseteq Tx BY <1>1 DEF Begin, TypeOK, Open
    <3> QED BY <1>1, <3>1 DEF Begin, TypeOK, PCs
  <2>2. BackupsJournaled' BY <1>1 DEF Begin
  <2>3. SingleOpen' BY <1>1 DEF Begin
  <2>4. KnownGoodRecoverable' BY <1>1 DEF Begin
  <2>5. LowerUntouched' BY <1>1 DEF Begin
  <2>6. RecoveryShape' BY <1>1 DEF Begin
  <2>7. WorkShape' BY <1>1 DEF Begin
  <2> QED BY <2>1, <2>2, <2>3, <2>4, <2>5, <2>6, <2>7
<1>2. CASE Crash
  <2>1. TypeOK' BY <1>2 DEF Crash, PCs, JournalStates
  <2>2. BackupsJournaled' BY <1>2 DEF Crash
  <2>3. SingleOpen' BY <1>2 DEF Crash
  <2>4. KnownGoodRecoverable' BY <1>2 DEF Crash
  <2>5. LowerUntouched' BY <1>2 DEF Crash
  <2>6. RecoveryShape' BY <1>2 DEF Crash
  <2>7. WorkShape' BY <1>2 DEF Crash
  <2> QED BY <2>1, <2>2, <2>3, <2>4, <2>5, <2>6, <2>7
<1>3. CASE Tear
  <2>1. TypeOK'
    <3>1. tx \in Tx \/ pc \in RecoveryPCs \cup {"idle"} BY DEF WorkShape
    <3>2. target' \in Trees BY <1>3 DEF Tear, TypeOK
    <3>3. previous' \in [Tx -> Trees] /\ staging' \in [Tx -> Trees]
      BY <1>3 DEF Tear, TypeOK
    <3>4. UNCHANGED <<lower, candidate, journal, tx, pc, activated, found, rec,
           good,
                      faults, crashes>>
      BY <1>3 DEF Tear
    <3> QED BY <3>2, <3>3, <3>4 DEF TypeOK
  <2>2. BackupsJournaled' BY <1>3 DEF Tear
  <2>3. SingleOpen' BY <1>3 DEF Tear
  <2>4. KnownGoodRecoverable'
    <3>1. UNCHANGED <<lower, candidate, journal, tx, pc, activated, found, rec,
           good>>
      BY <1>3 DEF Tear
    <3>2. Open' = Open BY <3>1 DEF Open
    <3>7. CASE At("clear") /\ target # Absent /\ target' = Torn
            /\ UNCHANGED <<previous, staging>>
      BY <3>1, <3>2, <3>7 DEF TypeOK, SingleOpen, KnownGoodRecoverable,
             RecoveryShape, WorkShape, Recovered, Recovery, Uncommitted, Open
    <3>3. CASE pc \in {"remove_target", "undo"} /\ target' = Torn
            /\ UNCHANGED <<previous, staging>>
      BY <3>1, <3>2, <3>3 DEF TypeOK, SingleOpen, KnownGoodRecoverable,
             RecoveryShape, WorkShape, Recovered, Recovery, Uncommitted, Open
    <3>4. CASE At("drop_previous") /\ previous' = [previous EXCEPT ![tx] = Torn]
            /\ UNCHANGED <<target, staging>>
      BY <3>1, <3>2, <3>4 DEF TypeOK, SingleOpen, KnownGoodRecoverable,
             RecoveryShape, WorkShape, Recovered, Recovery, Uncommitted, Open
    <3>5. CASE At("sweep") /\ target # Absent /\ previous[rec] # Absent
            /\ previous' = [previous EXCEPT ![rec] = Torn]
            /\ UNCHANGED <<target, staging>>
      BY <3>1, <3>2, <3>5 DEF TypeOK, SingleOpen, KnownGoodRecoverable,
             RecoveryShape, WorkShape, Recovered, Recovery, Uncommitted, Open
    <3>6. CASE At("copy") /\ staging' = [staging EXCEPT ![tx] = Torn]
            /\ UNCHANGED <<target, previous>>
      BY <3>1, <3>2, <3>6 DEF TypeOK, SingleOpen, KnownGoodRecoverable,
             RecoveryShape, WorkShape, Recovered, Recovery, Uncommitted, Open
    <3> QED BY <1>3, <3>3, <3>4, <3>5, <3>6, <3>7 DEF Tear, RecoveryShape, Recovery
  <2>5. LowerUntouched' BY <1>3 DEF Tear
  <2>6. RecoveryShape'
    <3>1. UNCHANGED <<lower, candidate, journal, tx, pc, activated, found, rec,
           good>>
      BY <1>3 DEF Tear
    <3>2. Open' = Open BY <3>1 DEF Open
    <3>7. CASE At("clear") /\ target # Absent /\ target' = Torn
            /\ UNCHANGED <<previous, staging>>
      BY <3>1, <3>2, <3>7 DEF TypeOK, SingleOpen, KnownGoodRecoverable,
             RecoveryShape, WorkShape, Recovered, Recovery, Uncommitted, Open
    <3>3. CASE pc \in {"remove_target", "undo"} /\ target' = Torn
            /\ UNCHANGED <<previous, staging>>
      BY <3>1, <3>2, <3>3 DEF TypeOK, SingleOpen, KnownGoodRecoverable,
             RecoveryShape, WorkShape, Recovered, Recovery, Uncommitted, Open
    <3>4. CASE At("drop_previous") /\ previous' = [previous EXCEPT ![tx] = Torn]
            /\ UNCHANGED <<target, staging>>
      BY <3>1, <3>2, <3>4 DEF TypeOK, SingleOpen, KnownGoodRecoverable,
             RecoveryShape, WorkShape, Recovered, Recovery, Uncommitted, Open
    <3>5. CASE At("sweep") /\ target # Absent /\ previous[rec] # Absent
            /\ previous' = [previous EXCEPT ![rec] = Torn]
            /\ UNCHANGED <<target, staging>>
      BY <3>1, <3>2, <3>5 DEF TypeOK, SingleOpen, KnownGoodRecoverable,
             RecoveryShape, WorkShape, Recovered, Recovery, Uncommitted, Open
    <3>6. CASE At("copy") /\ staging' = [staging EXCEPT ![tx] = Torn]
            /\ UNCHANGED <<target, previous>>
      BY <3>1, <3>2, <3>6 DEF TypeOK, SingleOpen, KnownGoodRecoverable,
             RecoveryShape, WorkShape, Recovered, Recovery, Uncommitted, Open
    <3> QED BY <1>3, <3>3, <3>4, <3>5, <3>6, <3>7 DEF Tear, RecoveryShape, Recovery
  <2>7. WorkShape' BY <1>3 DEF Tear
  <2> QED BY <2>1, <2>2, <2>3, <2>4, <2>5, <2>6, <2>7
<1> QED BY <1>1, <1>2, <1>3

\* A failure that is survivable leads to a handler that finds it intact too.
LEMMA FaultPreserves == ASSUME IInv, FaultAt \subseteq Survivable, Fault PROVE IInv'
<1> USE ReleaseAssumption
      DEF IInv, At, Goto, Write, Tx, Releases, Trees, RecoveryPCs, trees, disk,
          TypeOK, BackupsJournaled, SingleOpen, KnownGoodRecoverable,
          LowerUntouched, RecoveryShape, WorkShape, InPlace, MovedAway, Replaced,
          Recovered, Recovery, Uncommitted, Open
<1>1. CASE pc \in {"mkdir", "prepare", "build", "abandon", "forget_abandoned"}
  <2>1. pc' = "idle" BY <1>1 DEF Fault, Handler
  <2>2. TypeOK' BY <1>1, <2>1 DEF Fault, Undo, PCs, JournalStates
  <2>3. BackupsJournaled' BY <1>1, <2>1 DEF Fault, Undo
  <2>4. SingleOpen' BY <1>1, <2>1 DEF Fault, Undo
  <2>5. KnownGoodRecoverable' BY <1>1, <2>1 DEF Fault, Undo
  <2>6. LowerUntouched' BY <1>1, <2>1 DEF Fault, Undo
  <2>7. RecoveryShape' BY <1>1, <2>1 DEF Fault, Undo
  <2>8. WorkShape' BY <1>1, <2>1 DEF Fault, Undo
  <2> QED BY <2>2, <2>3, <2>4, <2>5, <2>6, <2>7, <2>8
<1>2. CASE pc \in {"swap_out", "swap_in", "copying", "copy", "publish_copy",
       "remove_target"}
  <2>1. pc' = Undo BY <1>2 DEF Fault, Handler
  <2>2. TypeOK' BY <1>2, <2>1 DEF Fault, Undo, PCs, JournalStates
  <2>3. BackupsJournaled' BY <1>2, <2>1 DEF Fault, Undo
  <2>4. SingleOpen' BY <1>2, <2>1 DEF Fault, Undo
  <2>5. KnownGoodRecoverable' BY <1>2, <2>1 DEF Fault, Undo
  <2>6. LowerUntouched' BY <1>2, <2>1 DEF Fault, Undo
  <2>7. RecoveryShape' BY <1>2, <2>1 DEF Fault, Undo
  <2>8. WorkShape' BY <1>2, <2>1 DEF Fault, Undo
  <2> QED BY <2>2, <2>3, <2>4, <2>5, <2>6, <2>7, <2>8
<1>3. CASE pc \in {"activate", "mark_failed", "commit"}
  <2>1. pc' = "roll_back" BY <1>3 DEF Fault, Handler
  <2>2. TypeOK' BY <1>3, <2>1 DEF Fault, Undo, PCs, JournalStates
  <2>3. BackupsJournaled' BY <1>3, <2>1 DEF Fault, Undo
  <2>4. SingleOpen' BY <1>3, <2>1 DEF Fault, Undo
  <2>5. KnownGoodRecoverable' BY <1>3, <2>1 DEF Fault, Undo
  <2>6. LowerUntouched' BY <1>3, <2>1 DEF Fault, Undo
  <2>7. RecoveryShape' BY <1>3, <2>1 DEF Fault, Undo
  <2>8. WorkShape' BY <1>3, <2>1 DEF Fault, Undo
  <2> QED BY <2>2, <2>3, <2>4, <2>5, <2>6, <2>7, <2>8
<1>4. CASE pc \in {"withdraw", "put_back", "rolled_back", "forget_rollback"}
  <2>1. pc' = "rollback_failed" BY <1>4 DEF Fault, Handler
  <2>2. TypeOK' BY <1>4, <2>1 DEF Fault, Undo, PCs, JournalStates
  <2>3. BackupsJournaled' BY <1>4, <2>1 DEF Fault, Undo
  <2>4. SingleOpen' BY <1>4, <2>1 DEF Fault, Undo
  <2>5. KnownGoodRecoverable' BY <1>4, <2>1 DEF Fault, Undo
  <2>6. LowerUntouched' BY <1>4, <2>1 DEF Fault, Undo
  <2>7. RecoveryShape' BY <1>4, <2>1 DEF Fault, Undo
  <2>8. WorkShape'
    <3>1. tx \in Tx /\ Open \subseteq {tx} BY <1>4 DEF WorkShape
    <3>2. CASE pc \in {"withdraw", "put_back"}
      BY <1>4, <2>1, <3>1, <3>2
         DEF Fault, TypeOK, WorkShape, InPlace, MovedAway, Replaced, Open
    <3>3. CASE pc \in {"rolled_back", "forget_rollback"}
      <4>1. InPlace /\ journal[tx] \in {"rolling_back", "rolled_back"}
              /\ staging[tx] = Absent /\ (pc = "rolled_back" \/ ~activated)
        BY <3>3 DEF WorkShape, KnownGoodRecoverable
      <4>2. UNCHANGED <<target, previous, journal, tx, good,
             staging>> /\ ~activated'
        BY <1>4, <3>3, <4>1 DEF Fault
      <4> QED BY <2>1, <3>1, <4>1, <4>2 DEF WorkShape, InPlace, Open
    <3> QED BY <1>4, <3>2, <3>3
  <2> QED BY <2>2, <2>3, <2>4, <2>5, <2>6, <2>7, <2>8
<1>5. CASE pc \in {"roll_back", "rollback_failed"}
  <2>1. pc' = "leave" BY <1>5 DEF Fault, Handler
  <2>2. TypeOK' BY <1>5, <2>1 DEF Fault, Undo, PCs, JournalStates
  <2>3. BackupsJournaled' BY <1>5, <2>1 DEF Fault, Undo
  <2>4. SingleOpen' BY <1>5, <2>1 DEF Fault, Undo
  <2>5. KnownGoodRecoverable' BY <1>5, <2>1 DEF Fault, Undo
  <2>6. LowerUntouched' BY <1>5, <2>1 DEF Fault, Undo
  <2>7. RecoveryShape' BY <1>5, <2>1 DEF Fault, Undo
  <2>8. WorkShape' BY <1>5, <2>1 DEF Fault, Undo
  <2> QED BY <2>2, <2>3, <2>4, <2>5, <2>6, <2>7, <2>8
<1>6. \/ pc \in {"mkdir", "prepare", "build", "abandon", "forget_abandoned"}
     \/ pc \in {"swap_out", "swap_in", "copying", "copy", "publish_copy",
               "remove_target"}
     \/ pc \in {"activate", "mark_failed", "commit"}
     \/ pc \in {"withdraw", "put_back", "rolled_back", "forget_rollback"}
     \/ pc \in {"roll_back", "rollback_failed"}
  BY DEF Fault, Survivable, PCs
<1> HIDE DEF IInv
<1> QED BY ONLY <1>1, <1>2, <1>3, <1>4, <1>5, <1>6

LEMMA InitImpliesIInv == ASSUME Init PROVE IInv
<1> USE ReleaseAssumption DEF Init, Tx, Releases, Trees
<1>1. TypeOK
  <2>1. 0 \in 0 .. Last /\ 0 \in 0 .. MaxFaults /\ 0 \in 0 .. MaxCrashes OBVIOUS
  <2>2. target \in Trees /\ good \in Releases \cup {Absent} BY <2>1
  <2>3. pc \in PCs /\ journal \in [Tx -> JournalStates] BY DEF PCs, JournalStates
  <2> QED BY <2>1, <2>2, <2>3 DEF TypeOK
<1>2. Open = {} BY DEF Open
<1>3. pc \notin RecoveryPCs BY DEF RecoveryPCs
<1>4. BackupsJournaled BY DEF BackupsJournaled
<1>5. SingleOpen BY <1>2 DEF SingleOpen
<1>6. KnownGoodRecoverable BY <1>2 DEF KnownGoodRecoverable
<1>7. LowerUntouched BY DEF LowerUntouched
<1>8. RecoveryShape BY <1>3 DEF RecoveryShape, RecoveryPCs
<1>9. WorkShape BY DEF WorkShape
<1> QED BY <1>1, <1>4, <1>5, <1>6, <1>7, <1>8, <1>9 DEF IInv

\* Every step, and every stutter, keeps the inductive invariant.
LEMMA NextPreservesIInv ==
  ASSUME IInv, [Next]_vars, FaultAt \subseteq Survivable PROVE IInv'
<1>1. CASE Next
  BY <1>1, RecoverPreserves, AssemblePreserves, SwapPreserves, UndoPreserves,
     RollingBackPreserves, FinishPreserves, DisturbancePreserves, FaultPreserves
     DEF Next
<1>2. CASE UNCHANGED vars
  <2> USE <1>2 DEF vars, disk, trees
  <2>1. TypeOK' /\ BackupsJournaled' BY DEF IInv, TypeOK, BackupsJournaled
  <2>2. SingleOpen' BY DEF IInv, SingleOpen, Open
  <2>3. KnownGoodRecoverable'
    BY DEF IInv, KnownGoodRecoverable, Open, Recovered, Recovery
  <2>4. LowerUntouched' BY DEF IInv, LowerUntouched
  <2>5. RecoveryShape' BY DEF IInv, RecoveryShape, Open, Recovery
  <2>6. WorkShape' BY DEF IInv, WorkShape, InPlace, MovedAway, Replaced, Open
  <2> QED BY <2>1, <2>2, <2>3, <2>4, <2>5, <2>6 DEF IInv
<1> QED BY <1>1, <1>2

LEMMA ReleaseInvariance ==
  ASSUME FaultAt \subseteq Survivable PROVE Spec => []IInv
<1>1. Init => IInv BY InitImpliesIInv
<1>2. IInv /\ [Next]_vars => IInv' BY NextPreservesIInv
<1> QED BY <1>1, <1>2, PTL DEF Spec

-----------------------------------------------------------------------------
(* The theorems.                                                           *)

\* Wherever the process dies or a survivable call fails, any number of times,
\* the next prepare() finds the release that was in service, or the new one from
\* the moment commit has journaled its decision; never part of a release.
THEOREM ReleaseRecoverable ==
  ASSUME FaultAt \subseteq Survivable PROVE Spec => []KnownGoodRecoverable
<1>1. IInv => KnownGoodRecoverable BY DEF IInv
<1> QED BY <1>1, ReleaseInvariance, PTL

\* No rollback copy is ever left on disk without a journal that names it.
THEOREM NoUnjournaledBackup ==
  ASSUME FaultAt \subseteq Survivable PROVE Spec => []BackupsJournaled
<1>1. IInv => BackupsJournaled BY DEF IInv
<1> QED BY <1>1, ReleaseInvariance, PTL

\* rollback() returns True only with the earlier release back in service.
THEOREM RollbackRestores ==
  ASSUME FaultAt \subseteq Survivable PROVE Spec => []RolledBackMeansRestored
<1>1. IInv => RolledBackMeansRestored
  BY DEF IInv, WorkShape, InPlace, RolledBackMeansRestored, At
<1> QED BY <1>1, ReleaseInvariance, PTL

\* prepare() begins its own work only when no journal is open and the release in
\* service is in place, after however many failed and interrupted attempts.
THEOREM WorkAfterRecovery ==
  ASSUME FaultAt \subseteq Survivable PROVE Spec => []RecoveredBeforeWork
<1>1. IInv => RecoveredBeforeWork
  BY DEF IInv, WorkShape, InPlace, RecoveredBeforeWork, At
<1> QED BY <1>1, ReleaseInvariance, PTL

\* Every variable of the transaction keeps its type under the same failures.
THEOREM ReleaseTypeCorrect ==
  ASSUME FaultAt \subseteq Survivable PROVE Spec => []TypeOK
<1>1. IInv => TypeOK BY DEF IInv
<1> QED BY <1>1, ReleaseInvariance, PTL

-----------------------------------------------------------------------------
(* Refinement.  Attempts are numbered in order; the release in service is     *)
(* older than the running attempt until that attempt commits.                *)
Ages ==
  /\ good = Absent => \A i \in Tx : previous[i] = Absent
  /\ good # Absent => good <= tx
  /\ target \in Releases => target <= tx
  /\ pc \notin {"idle", "drop_previous", "committed", "forget"} =>
       (good # Absent => good < tx)
  /\ pc \in RecoveryPCs => (target \in Releases => target < tx)

LEMMA AgesPreserved ==
  ASSUME IInv, Ages, Next, FaultAt \subseteq Survivable PROVE Ages'
<1> USE ReleaseAssumption
      DEF IInv, Ages, At, Goto, Write, Tx, Releases, Trees, RecoveryPCs, trees, disk,
          TypeOK, KnownGoodRecoverable, RecoveryShape, WorkShape, InPlace, MovedAway,
          Replaced, Recovered, Recovery, Uncommitted, Open
<1>1. CASE RecoverNext BY <1>1 DEF RecoverNext
<1>2. CASE Discard BY <1>2 DEF Discard
<1>3. CASE Clear BY <1>3 DEF Clear
<1>4. CASE Aside BY <1>4 DEF Aside
<1>5. CASE Restore BY <1>5 DEF Restore
<1>6. CASE Sweep BY <1>6 DEF Sweep
<1>7. CASE MakeCandidate BY <1>7 DEF MakeCandidate
<1>8. CASE Prepare BY <1>8 DEF Prepare
<1>9. CASE MarkBuilding BY <1>9 DEF MarkBuilding
<1>10. CASE Build BY <1>10 DEF Build
<1>11. CASE Activate BY <1>11 DEF Activate
<1>12. CASE SwapOut BY <1>12 DEF SwapOut
<1>13. CASE SwapIn BY <1>13 DEF SwapIn
<1>14. CASE MarkActivated BY <1>14 DEF MarkActivated
<1>15. CASE CopyingPrevious BY <1>15 DEF CopyingPrevious
<1>16. CASE CopyTree BY <1>16 DEF CopyTree
<1>17. CASE PublishCopy BY <1>17 DEF PublishCopy
<1>18. CASE ReplacingTarget BY <1>18 DEF ReplacingTarget
<1>19. CASE RemoveTarget BY <1>19 DEF RemoveTarget
<1>20. CASE Verify BY <1>20 DEF Verify
<1>21. CASE UndoRemove BY <1>21 DEF UndoRemove
<1>22. CASE UndoRestore BY <1>22 DEF UndoRestore
<1>23. CASE MarkFailed BY <1>23 DEF MarkFailed
<1>24. CASE RollBack BY <1>24 DEF RollBack, AfterRollBack, AfterPutAside
<1>25. CASE Withdraw BY <1>25 DEF Withdraw, AfterPutAside
<1>26. CASE PutBack BY <1>26 DEF PutBack
<1>27. CASE RolledBack BY <1>27 DEF RolledBack
<1>28. CASE ForgetRollback BY <1>28 DEF ForgetRollback
<1>29. CASE RollbackFailed BY <1>29 DEF RollbackFailed
<1>30. CASE Leave BY <1>30 DEF Leave
<1>31. CASE Commit BY <1>31 DEF Commit
<1>32. CASE DropPrevious BY <1>32 DEF DropPrevious
<1>33. CASE Committed BY <1>33 DEF Committed
<1>34. CASE Forget BY <1>34 DEF Forget
<1>35. CASE Abandon BY <1>35 DEF Abandon
<1>36. CASE ForgetAbandoned BY <1>36 DEF ForgetAbandoned
<1>37. CASE Begin BY <1>37 DEF Begin
<1>38. CASE Fault BY <1>38 DEF Fault, Handler, Undo, Survivable
<1>39. CASE Tear BY <1>39 DEF Tear
<1>40. CASE Crash BY <1>40 DEF Crash
<1> QED BY <1>1, <1>2, <1>3, <1>4, <1>5, <1>6, <1>7, <1>8, <1>9, <1>10, <1>11,
       <1>12, <1>13, <1>14, <1>15, <1>16, <1>17, <1>18, <1>19, <1>20, <1>21,
       <1>22, <1>23, <1>24, <1>25, <1>26, <1>27, <1>28, <1>29, <1>30, <1>31,
       <1>32, <1>33, <1>34, <1>35, <1>36, <1>37, <1>38, <1>39, <1>40
       DEF Next, Recover, Assemble, Swap, UndoSwap, RollingBack, Finish

\* Nothing to lose: what is in the target is what will be found there.
SurvivorKnown == Survivor = IF good # Absent THEN good ELSE target
LEMMA SurvivorIs == ASSUME IInv, Ages PROVE SurvivorKnown
<1> USE DEF SurvivorKnown, IInv, Ages, KnownGoodRecoverable, SingleOpen
<1>1. CASE Open = {} BY <1>1 DEF Survivor
<1>2. CASE Open # {}
  <2>1. PICK i \in Open : i = CHOOSE j \in Open : TRUE BY <1>2
  <2>2. Survivor = Recovered(i) BY <1>2, <2>1 DEF Survivor
  <2>3. CASE good # Absent BY <2>1, <2>2, <2>3
  <2>4. CASE good = Absent
    <3>1. previous[i] = Absent BY <2>1, <2>4 DEF Open
    <3> QED BY <2>2, <2>4, <3>1 DEF Recovered, Recovery
  <2> QED BY <2>3, <2>4
<1> QED BY <1>1, <1>2

\* The release in service changes when an attempt commits, and when an attempt
\* finds an installed release where there was none to keep.
LEMMA GoodChanges ==
  ASSUME IInv, Ages, Next, good' # good
  PROVE  \/ good = Absent /\ good' = target /\ target' = target
         \/ good' = tx /\ tx \in Tx /\ (good # Absent => good < tx)
              /\ target' = target /\ target = tx
<1>1. CASE RecoverNext BY <1>1 DEF RecoverNext, disk, trees
<1>2. CASE Commit
  BY <1>2 DEF Commit, trees, IInv, Ages, WorkShape, Replaced, At, RecoveryPCs
<1>3. RecoverNext \/ Commit
  BY DEF Next, Recover, Assemble, Swap, UndoSwap, RollingBack, Finish, Discard, Clear,
     Aside, Restore, Sweep, MakeCandidate, Prepare, MarkBuilding, Build, Activate,
     SwapOut, SwapIn, MarkActivated, CopyingPrevious, CopyTree, PublishCopy,
     ReplacingTarget, RemoveTarget, Verify, UndoRemove, UndoRestore, MarkFailed,
     RollBack, Withdraw, PutBack, RolledBack, ForgetRollback, RollbackFailed, Leave,
     DropPrevious, Committed, Forget, Abandon, ForgetAbandoned, Begin, Fault, Tear,
     Crash
<1> QED BY <1>1, <1>2, <1>3

\* Where there is nothing to keep, the target is only filled by the swap.
LEMMA TargetChanges ==
  ASSUME IInv, Ages, Next, good = Absent, target' # target
  PROVE  target' \in {Absent, Torn} \/ (target = Absent /\ target' = tx /\ tx \in Tx)
<1> USE DEF IInv, Ages, At
<1>1. CASE SwapIn BY <1>1 DEF SwapIn, WorkShape, RecoveryPCs
<1>2. CASE Restore
  <2>1. rec \in Tx BY <1>2 DEF Restore, RecoveryShape, RecoveryPCs, Open
  <2> QED BY <1>2, <2>1 DEF Restore
<1>3. CASE UndoRestore BY <1>3 DEF UndoRestore, WorkShape, MovedAway
<1>4. CASE PutBack BY <1>4 DEF PutBack, WorkShape, MovedAway
<1>5. CASE Clear \/ Aside \/ SwapOut \/ RemoveTarget \/ UndoRemove \/ Withdraw \/ Tear
  BY <1>5 DEF Clear, Aside, SwapOut, RemoveTarget, UndoRemove, Withdraw, Tear
<1> QED BY <1>1, <1>2, <1>3, <1>4, <1>5
        DEF Next, Recover, Assemble, Swap, UndoSwap, RollingBack, Finish, RecoverNext,
            Discard, Sweep, MakeCandidate, Prepare, MarkBuilding, Build, Activate,
     MarkActivated, CopyingPrevious, CopyTree, PublishCopy, ReplacingTarget, Verify,
     MarkFailed, RollBack, RolledBack, ForgetRollback, RollbackFailed, Leave, Commit,
     DropPrevious, Committed, Forget, Abandon, ForgetAbandoned, Begin, Fault, Crash,
     disk, trees

LEMMA StepRefines ==
  ASSUME IInv, Ages, SurvivorKnown, IInv', Ages', SurvivorKnown', Next
  PROVE  [Atomic!Next]_(Atomic!vars)
<1> USE ReleaseAssumption DEF Atomic!Next, Atomic!vars, Atomic!Upgrade, Atomic!Try,
          Atomic!Drop, Atomic!Adopt, Atomic!Newer, Tx, Releases
<1>1. Survivor = IF good # Absent THEN good ELSE target BY DEF SurvivorKnown
<1>2. Survivor' = IF good' # Absent THEN good' ELSE target' BY DEF SurvivorKnown
<1>3. CASE good' # good BY <1>1, <1>2, <1>3, GoodChanges DEF IInv, TypeOK
<1>4. CASE good' = good /\ good # Absent BY <1>1, <1>2, <1>4
<1>5. CASE good' = good /\ good = Absent
  <2>1. Survivor' # Torn
    BY <1>2, <1>5 DEF IInv, KnownGoodRecoverable, Recovered, Recovery, Ages, Open
  <2>2. CASE target' = target BY <1>1, <1>2, <1>5, <2>2
  <2>3. CASE target' # target BY <1>1, <1>2, <1>5, <2>1, <2>3, TargetChanges
  <2> QED BY <2>2, <2>3
<1> QED BY <1>3, <1>4, <1>5

\* A release transaction behaves, seen through its recovery, like the one-step
\* replacement of a whole release by a newer whole release, with any number of
\* attempts, crashes and survivable failures.
THEOREM Refinement ==
  ASSUME FaultAt \subseteq Survivable PROVE Spec => ImplementsAtomicInstall
<1>1. Init => IInv /\ Ages /\ Atomic!Init
  <2> SUFFICES ASSUME Init PROVE Ages /\ Atomic!Init
    BY InitImpliesIInv
  <2>1. Ages BY ReleaseAssumption DEF Init, Ages, RecoveryPCs, Releases, Tx
  <2>2. Survivor = target BY DEF Init, Survivor, Open
  <2> QED BY <2>1, <2>2 DEF Init, Atomic!Init
<1>2. IInv /\ Ages /\ [Next]_vars => Ages'
  BY AgesPreserved DEF Ages, vars, disk, trees, RecoveryPCs
<1>3. IInv /\ Ages => SurvivorKnown BY SurvivorIs
<1>4. /\ IInv /\ Ages /\ SurvivorKnown /\ IInv' /\ Ages' /\ SurvivorKnown'
      /\ [Next]_vars
      => [Atomic!Next]_(Atomic!vars)
  <2>1. CASE Next BY <2>1, StepRefines
  <2>2. ASSUME UNCHANGED vars PROVE UNCHANGED Atomic!vars
    BY <2>2 DEF vars, disk, trees, Atomic!vars, Survivor, Recovered, Recovery, Open
  <2> QED BY <2>1, <2>2
<1> QED BY <1>1, <1>2, <1>3, <1>4, ReleaseInvariance, PTL
        DEF Spec, ImplementsAtomicInstall, Atomic!Spec
=============================================================================
