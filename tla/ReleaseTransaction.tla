------------------------- MODULE ReleaseTransaction -------------------------
(***************************************************************************)
(* DirectoryReleaseTransaction (utils/transactional_install.py) as the     *)
(* transactional updates of utils/auto_update.py drive it: a release is    *)
(* built beside the one in service, swapped in, and committed or rolled    *)
(* back, with a journal file that the next attempt recovers from.          *)
(*                                                                         *)
(* One step is one call that changes the file system, so the process can   *)
(* die, or the call can raise OSError, between any two of them.  A tree is *)
(* represented by the release it holds; a copy or removal that has started *)
(* leaves it Torn.  Removals with ignore_errors are taken to succeed.      *)
(***************************************************************************)
EXTENDS Integers, FiniteSets

CONSTANTS
  Last,        \* number of attempts (bounds the run)
  Absent,      \* no such directory
  Torn,        \* a directory that holds only part of a release
  FaultAt,     \* control points whose call may raise OSError
  MaxFaults,   \* bound on OSErrors
  MaxCrashes   \* bound on crashes of the process

Tx == 1 .. Last
Releases == 0 .. Last   \* 0 is the one found at first

ASSUME ReleaseAssumption ==
  /\ Last \in Nat \ {0} /\ MaxFaults \in Nat /\ MaxCrashes \in Nat
  /\ Absent \notin Releases /\ Torn \notin Releases /\ Absent # Torn

Trees == Releases \cup {Absent, Torn}

VARIABLES
  target, lower,                \* the served tree; is it in an overlay's lower layer
  candidate, previous, staging, \* the siblings of each attempt
  journal,                      \* state field of each attempt's journal file
  tx, pc, activated,            \* the running attempt, or the latest one
  found, rec,                   \* journals still to recover, the one being recovered
  good,                         \* the release in service that must not be lost
  faults, crashes

trees == <<target, lower, candidate, previous, staging>>
disk  == <<trees, journal>>
vars  == <<disk, tx, pc, activated, found, rec, good, faults, crashes>>

JournalStates ==
  {"none", "prepared", "building", "activating", "copying_previous",
   "replacing_overlay_target", "activated", "failed", "rolling_back", "rolled_back",
   "rollback_failed", "committing", "committed"}

RecoveryPCs == {"recover", "discard", "clear", "aside", "restore", "sweep"}
PCs == {"idle", "mkdir", "prepare", "build", "activate", "swap_out",
        "swap_in", "mark_activated", "copying", "copy", "publish_copy", "replacing",
        "remove_target", "undo", "undo_restore", "mark_failed", "verify",
        "roll_back", "withdraw", "put_back", "rolled_back", "forget_rollback",
        "rollback_failed", "leave", "commit", "drop_previous", "committed", "forget",
        "abandon", "forget_abandoned"} \cup RecoveryPCs

TypeOK ==
  /\ target \in Trees /\ lower \in BOOLEAN
  /\ candidate \in [Tx -> Trees] /\ previous \in [Tx -> Trees]
  /\ staging \in [Tx -> Trees]
  /\ journal \in [Tx -> JournalStates]
  /\ tx \in 0 .. Last /\ pc \in PCs /\ activated \in BOOLEAN
  /\ found \subseteq Tx /\ rec \in 0 .. Last
  /\ good \in Releases \cup {Absent}
  /\ faults \in 0 .. MaxFaults /\ crashes \in 0 .. MaxCrashes

Init ==
  /\ target \in {0, Absent} /\ lower \in BOOLEAN
  /\ target = Absent => ~lower
  /\ candidate = [i \in Tx |-> Absent] /\ previous = [i \in Tx |-> Absent]
  /\ staging = [i \in Tx |-> Absent]
  /\ journal = [i \in Tx |-> "none"]
  /\ tx = 0 /\ pc = "idle" /\ activated = FALSE
  /\ found = {} /\ rec = 0 /\ good = target
  /\ faults = 0 /\ crashes = 0

-----------------------------------------------------------------------------
(* Parts of steps.                                                         *)

At(label) == pc = label
Goto(label) == pc' = label

\* _write_journal: written beside the journal and renamed over it.
Write(state) == journal' = [journal EXCEPT ![tx] = state]

\* Journal files an attempt would find.
Open == {i \in Tx : journal[i] # "none"}

\* Where rollback starts moving trees, once "rolling_back" is written.
AfterPutAside_BugForgetsPrevious == "rolled_back"
AfterPutAside == IF previous[tx] # Absent THEN "put_back" ELSE "rolled_back"
AfterRollBack ==
  IF activated /\ target # Absent THEN "withdraw" ELSE AfterPutAside

\* The handler of activate puts the previous release back, if it was moved away.
Undo == IF previous[tx] = Absent THEN "mark_failed"
        ELSE IF target = Absent THEN "undo_restore" ELSE "undo"

\* What recover_incomplete does first with the journal of attempt i.
Uncommitted_BugForgetsActivated == {"activating", "rolling_back", "rollback_failed"}
Uncommitted == {"activating", "activated", "rolling_back", "rollback_failed"}
Recovery(i) ==
  IF journal[i] = "copying_previous" THEN "discard"
  ELSE IF previous[i] = Absent THEN "sweep"
  ELSE IF target = Absent THEN "restore"
  ELSE IF journal[i] = "replacing_overlay_target" THEN "clear"
  ELSE IF journal[i] \in Uncommitted THEN "aside"
  ELSE "sweep"

-----------------------------------------------------------------------------
(* prepare: recover every journal of the target, then make a candidate.    *)

Begin_BugSkipsRecovery ==
  /\ At("idle") /\ tx < Last
  /\ tx' = tx + 1 /\ activated' = FALSE /\ found' = {}
  /\ Goto("recover")
  /\ UNCHANGED <<disk, rec, good, faults, crashes>>
Begin ==
  /\ At("idle") /\ tx < Last
  /\ tx' = tx + 1 /\ activated' = FALSE /\ found' = Open
  /\ Goto("recover")
  /\ UNCHANGED <<disk, rec, good, faults, crashes>>

RecoverNext ==
  /\ At("recover")
  /\ IF found = {}
       THEN /\ good' = IF good = Absent THEN target ELSE good
            /\ Goto("mkdir")
            /\ UNCHANGED <<found, rec>>
       ELSE /\ \E i \in found : rec' = i /\ found' = found \ {i} /\ Goto(Recovery(i))
            /\ UNCHANGED good
  /\ UNCHANGED <<disk, tx, activated, faults, crashes>>

\* An overlay copy that was not finished: its target was not touched yet.
Discard ==
  /\ At("discard")
  /\ candidate' = [candidate EXCEPT ![rec] = Absent]
  /\ previous' = [previous EXCEPT ![rec] = Absent]
  /\ staging' = [staging EXCEPT ![rec] = Absent]
  /\ journal' = [journal EXCEPT ![rec] = "none"]
  /\ Goto("recover")
  /\ UNCHANGED <<target, lower, tx, activated, found, rec, good, faults, crashes>>

\* rmtree of a half-replaced overlay target.
Clear ==
  /\ At("clear")
  /\ target' = Absent /\ lower' = FALSE
  /\ Goto("restore")
  /\ UNCHANGED <<candidate, previous, staging, journal, tx, activated, found, rec,
                 good, faults, crashes>>

\* The uncommitted release is renamed out of the way and removed; a tree of the
\* lower layer cannot be renamed, and the journal stays.
Aside ==
  /\ At("aside")
  /\ IF lower THEN Goto("recover") /\ UNCHANGED target
              ELSE Goto("restore") /\ target' = Absent
  /\ UNCHANGED <<lower, candidate, previous, staging, journal, tx, activated, found,
                 rec, good, faults, crashes>>

Restore ==
  /\ At("restore")
  /\ target' = previous[rec] /\ lower' = FALSE
  /\ previous' = [previous EXCEPT ![rec] = Absent]
  /\ Goto("sweep")
  /\ UNCHANGED <<candidate, staging, journal, tx, activated, found, rec, good,
                 faults, crashes>>

\* What is left of the attempt, and its journal last.
Sweep ==
  /\ At("sweep")
  /\ previous' = IF target # Absent THEN [previous EXCEPT ![rec] = Absent]
                                    ELSE previous
  /\ candidate' = [candidate EXCEPT ![rec] = Absent]
  /\ staging' = [staging EXCEPT ![rec] = Absent]
  /\ journal' = [journal EXCEPT ![rec] = "none"]
  /\ Goto("recover")
  /\ UNCHANGED <<target, lower, tx, activated, found, rec, good, faults, crashes>>

MakeCandidate ==
  /\ At("mkdir")
  /\ candidate' = [candidate EXCEPT ![tx] = Torn]
  /\ Goto("prepare")
  /\ UNCHANGED <<target, lower, previous, staging, journal, tx, activated, found, rec,
                 good, faults, crashes>>

Prepare ==
  /\ At("prepare") /\ Write("prepared")
  /\ Goto("build")
  /\ UNCHANGED <<trees, tx, activated, found, rec, good, faults, crashes>>

\* The installer fills the candidate, fails its verification, or raises; a
\* cached artifact is used without the "building" journal.
MarkBuilding_BugUnknownState ==
  /\ At("build") /\ journal[tx] = "prepared" /\ Write("filling")
  /\ UNCHANGED <<trees, pc, tx, activated, found, rec, good, faults, crashes>>
MarkBuilding ==
  /\ At("build") /\ journal[tx] = "prepared" /\ Write("building")
  /\ UNCHANGED <<trees, pc, tx, activated, found, rec, good, faults, crashes>>

Build ==
  /\ At("build")
  /\ \/ candidate' = [candidate EXCEPT ![tx] = tx] /\ Goto("activate")
     \/ Goto("abandon") /\ UNCHANGED candidate
     \/ Goto("idle") /\ UNCHANGED candidate
  /\ UNCHANGED <<target, lower, previous, staging, journal, tx, activated, found, rec,
                 good, faults, crashes>>

-----------------------------------------------------------------------------
(* activate, with the service stopped.                                     *)

Activate ==
  /\ At("activate") /\ Write("activating")
  /\ Goto(IF target # Absent THEN "swap_out" ELSE "swap_in")
  /\ UNCHANGED <<trees, tx, activated, found, rec, good, faults, crashes>>

\* os.replace(target, previous): EXDEV if the target is in a lower layer.
SwapOut ==
  /\ At("swap_out")
  /\ IF lower
       THEN Goto("copying") /\ UNCHANGED <<target, previous>>
       ELSE /\ previous' = [previous EXCEPT ![tx] = target] /\ target' = Absent
            /\ Goto("swap_in")
  /\ UNCHANGED <<lower, candidate, staging, journal, tx, activated, found, rec, good,
                 faults, crashes>>

SwapIn ==
  /\ At("swap_in")
  /\ target' = candidate[tx] /\ lower' = FALSE
  /\ candidate' = [candidate EXCEPT ![tx] = Absent]
  /\ activated' = TRUE
  /\ Goto("mark_activated")
  /\ UNCHANGED <<previous, staging, journal, tx, found, rec, good, faults, crashes>>

MarkActivated ==
  /\ At("mark_activated") /\ Write("activated")
  /\ Goto("verify")
  /\ UNCHANGED <<trees, tx, activated, found, rec, good, faults, crashes>>

\* _activate_overlay_fallback: copy, publish the copy, then replace.
CopyingPrevious ==
  /\ At("copying") /\ Write("copying_previous")
  /\ Goto("copy")
  /\ UNCHANGED <<trees, tx, activated, found, rec, good, faults, crashes>>

CopyTree ==
  /\ At("copy")
  /\ staging' = [staging EXCEPT ![tx] = target]
  /\ Goto("publish_copy")
  /\ UNCHANGED <<target, lower, candidate, previous, journal, tx, activated, found,
                 rec, good, faults, crashes>>

PublishCopy ==
  /\ At("publish_copy")
  /\ previous' = [previous EXCEPT ![tx] = staging[tx]]
  /\ staging' = [staging EXCEPT ![tx] = Absent]
  /\ Goto("replacing")
  /\ UNCHANGED <<target, lower, candidate, journal, tx, activated, found, rec, good,
                 faults, crashes>>

ReplacingTarget_BugNoJournal ==
  /\ At("replacing")
  /\ Goto("remove_target")
  /\ UNCHANGED <<disk, tx, activated, found, rec, good, faults, crashes>>
ReplacingTarget ==
  /\ At("replacing") /\ Write("replacing_overlay_target")
  /\ Goto("remove_target")
  /\ UNCHANGED <<trees, tx, activated, found, rec, good, faults, crashes>>

RemoveTarget ==
  /\ At("remove_target")
  /\ target' = Absent /\ lower' = FALSE
  /\ Goto("swap_in")
  /\ UNCHANGED <<candidate, previous, staging, journal, tx, activated, found, rec,
                 good, faults, crashes>>

\* The OSError handler of activate; the caller's handler then rolls back.
UndoRemove ==
  /\ At("undo")
  /\ target' = Absent /\ lower' = FALSE
  /\ Goto("undo_restore")
  /\ UNCHANGED <<candidate, previous, staging, journal, tx, activated, found, rec,
                 good, faults, crashes>>

UndoRestore ==
  /\ At("undo_restore")
  /\ target' = previous[tx]
  /\ previous' = [previous EXCEPT ![tx] = Absent]
  /\ Goto("mark_failed")
  /\ UNCHANGED <<lower, candidate, staging, journal, tx, activated, found, rec, good,
                 faults, crashes>>

MarkFailed ==
  /\ At("mark_failed")
  /\ staging' = [staging EXCEPT ![tx] = Absent]
  /\ Write("failed")
  /\ Goto("roll_back")
  /\ UNCHANGED <<target, lower, candidate, previous, tx, activated, found, rec, good,
                 faults, crashes>>

\* Configure, start and wait for the new release to stay healthy, or not.
Verify ==
  /\ At("verify")
  /\ \/ Goto("commit") \/ Goto("roll_back")
  /\ UNCHANGED <<disk, tx, activated, found, rec, good, faults, crashes>>

-----------------------------------------------------------------------------
(* rollback.                                                               *)

RollBack ==
  /\ At("roll_back") /\ Write("rolling_back")
  /\ Goto(AfterRollBack)
  /\ UNCHANGED <<trees, tx, activated, found, rec, good, faults, crashes>>

Withdraw ==
  /\ At("withdraw")
  /\ target' = Absent /\ lower' = FALSE
  /\ Goto(AfterPutAside)
  /\ UNCHANGED <<candidate, previous, staging, journal, tx, activated, found, rec,
                 good, faults, crashes>>

\* A directory cannot be renamed over one that still has entries.
PutBack ==
  /\ At("put_back")
  /\ IF target = Absent
       THEN /\ target' = previous[tx]
            /\ previous' = [previous EXCEPT ![tx] = Absent]
            /\ Goto("rolled_back")
       ELSE Goto("rollback_failed") /\ UNCHANGED <<target, previous>>
  /\ UNCHANGED <<lower, candidate, staging, journal, tx, activated, found, rec, good,
                 faults, crashes>>

RolledBack ==
  /\ At("rolled_back") /\ Write("rolled_back")
  /\ candidate' = [candidate EXCEPT ![tx] = Absent]
  /\ activated' = FALSE
  /\ Goto("forget_rollback")
  /\ UNCHANGED <<target, lower, previous, staging, tx, found, rec, good, faults,
                 crashes>>

ForgetRollback ==
  /\ At("forget_rollback") /\ Write("none")
  /\ Goto("leave")
  /\ UNCHANGED <<trees, tx, activated, found, rec, good, faults, crashes>>

RollbackFailed ==
  /\ At("rollback_failed") /\ Write("rollback_failed")
  /\ Goto("leave")
  /\ UNCHANGED <<trees, tx, activated, found, rec, good, faults, crashes>>

\* The caller's finally: abandon what is not activated.
Leave ==
  /\ At("leave")
  /\ Goto(IF activated THEN "idle" ELSE "abandon")
  /\ UNCHANGED <<disk, tx, activated, found, rec, good, faults, crashes>>

-----------------------------------------------------------------------------
(* commit and abandon.                                                     *)

Commit ==
  /\ At("commit") /\ Write("committing")
  /\ good' = target
  /\ Goto("drop_previous")
  /\ UNCHANGED <<trees, tx, activated, found, rec, faults, crashes>>

DropPrevious_BugKeepsPrevious ==
  /\ At("drop_previous")
  /\ candidate' = [candidate EXCEPT ![tx] = Absent]
  /\ staging' = [staging EXCEPT ![tx] = Absent]
  /\ Goto("committed")
  /\ UNCHANGED <<target, lower, previous, journal, tx, activated, found, rec, good,
                 faults, crashes>>
DropPrevious ==
  /\ At("drop_previous")
  /\ candidate' = [candidate EXCEPT ![tx] = Absent]
  /\ staging' = [staging EXCEPT ![tx] = Absent]
  /\ previous' = [previous EXCEPT ![tx] = Absent]
  /\ Goto("committed")
  /\ UNCHANGED <<target, lower, journal, tx, activated, found, rec, good, faults,
                 crashes>>

Committed ==
  /\ At("committed") /\ Write("committed")
  /\ Goto("forget")
  /\ UNCHANGED <<trees, tx, activated, found, rec, good, faults, crashes>>

Forget ==
  /\ At("forget") /\ Write("none")
  /\ Goto("idle")
  /\ UNCHANGED <<trees, tx, activated, found, rec, good, faults, crashes>>

Abandon ==
  /\ At("abandon")
  /\ candidate' = [candidate EXCEPT ![tx] = Absent]
  /\ staging' = [staging EXCEPT ![tx] = Absent]
  /\ Write("failed")
  /\ Goto("forget_abandoned")
  /\ UNCHANGED <<target, lower, previous, tx, activated, found, rec, good, faults,
                 crashes>>

ForgetAbandoned ==
  /\ At("forget_abandoned") /\ Write("none")
  /\ Goto("idle")
  /\ UNCHANGED <<trees, tx, activated, found, rec, good, faults, crashes>>

-----------------------------------------------------------------------------
(* The environment.                                                        *)

\* Where an OSError raised at a control point leads.
Handler ==
  CASE pc \in RecoveryPCs -> "recover"
    [] pc \in {"swap_out", "swap_in", "mark_activated", "copying", "copy",
               "publish_copy", "replacing", "remove_target"} -> Undo
    [] pc \in {"activate", "undo", "undo_restore", "mark_failed", "commit",
               "drop_previous", "committed", "forget"} -> "roll_back"
    [] pc \in {"withdraw", "put_back", "rolled_back", "forget_rollback"} ->
         "rollback_failed"
    [] pc \in {"roll_back", "rollback_failed"} -> "leave"
    [] OTHER -> "idle"

\* activated is raised after a rename that succeeded, and lowered, like the
\* leftovers are removed, before the write that fails.
Fault ==
  /\ pc \in FaultAt /\ faults < MaxFaults
  /\ faults' = faults + 1
  /\ activated' = (activated /\ ~At("rolled_back"))
  /\ candidate' = IF pc \in {"rolled_back", "abandon"}
                   THEN [candidate EXCEPT ![tx] = Absent] ELSE candidate
  /\ staging' = IF pc \in {"mark_failed", "abandon"}
                 THEN [staging EXCEPT ![tx] = Absent] ELSE staging
  /\ Goto(Handler)
  /\ UNCHANGED <<target, lower, previous, journal, tx, found, rec, good, crashes>>

\* A removal or a copy is under way.
Tear ==
  \/ /\ pc \in {"clear", "remove_target", "undo"} /\ target # Torn
     /\ target' = Torn
     /\ UNCHANGED <<lower, candidate, previous, staging, journal, tx, pc, activated,
                    found, rec, good, faults, crashes>>
  \/ /\ \/ At("drop_previous") /\ previous[tx] \notin {Absent, Torn}
           /\ previous' = [previous EXCEPT ![tx] = Torn]
        \/ /\ At("sweep") /\ target # Absent /\ previous[rec] \notin {Absent, Torn}
           /\ previous' = [previous EXCEPT ![rec] = Torn]
     /\ UNCHANGED <<target, lower, candidate, staging, journal, tx, pc, activated,
                    found, rec, good, faults, crashes>>
  \/ /\ At("copy") /\ staging[tx] = Absent
     /\ staging' = [staging EXCEPT ![tx] = Torn]
     /\ UNCHANGED <<target, lower, candidate, previous, journal, tx, pc, activated,
                    found, rec, good, faults, crashes>>

\* The process dies; files stay as they are.
Crash ==
  /\ ~At("idle") /\ crashes < MaxCrashes
  /\ crashes' = crashes + 1
  /\ Goto("idle")
  /\ UNCHANGED <<disk, tx, activated, found, rec, good, faults>>

-----------------------------------------------------------------------------
Recover == RecoverNext \/ Discard \/ Clear \/ Aside \/ Restore \/ Sweep
Assemble == MakeCandidate \/ Prepare \/ MarkBuilding \/ Build
Swap == Activate \/ SwapOut \/ SwapIn \/ MarkActivated \/ CopyingPrevious \/ CopyTree
          \/ PublishCopy \/ ReplacingTarget \/ RemoveTarget \/ Verify
UndoSwap == UndoRemove \/ UndoRestore \/ MarkFailed
RollingBack == RollBack \/ Withdraw \/ PutBack \/ RolledBack \/ ForgetRollback
                 \/ RollbackFailed \/ Leave
Finish == Commit \/ DropPrevious \/ Committed \/ Forget \/ Abandon \/ ForgetAbandoned
Next == Begin \/ Recover \/ Assemble \/ Swap \/ UndoSwap \/ RollingBack \/ Finish
          \/ Fault \/ Tear \/ Crash

Spec == Init /\ [][Next]_vars

-----------------------------------------------------------------------------
(* Properties.                                                             *)

\* Calls whose failure an attempt survives.  Each of the others can lose the
\* release in service, or the journal that would recover it.
Survivable == PCs \ {"mark_activated", "replacing", "undo", "undo_restore",
                     "drop_previous", "committed", "forget", "discard", "clear",
                     "aside", "restore", "sweep", "idle", "recover", "verify",
                     "leave"}

\* The release the target holds once recover_incomplete has dealt with attempt i.
Recovered(i) == IF Recovery(i) \in {"clear", "aside", "restore"} THEN previous[i]
                                                                ELSE target

\* The release that is, or will be recovered, in place.
Survivor == IF Open = {} THEN target ELSE Recovered(CHOOSE i \in Open : TRUE)

\* Should the process die now, the next attempt finds the release that was in
\* service before, or the new one from the moment its commit is journaled; and
\* never part of a release.  Holds between any two file-system calls, half-way
\* through copies and removals, and while an earlier recovery is under way.
KnownGoodRecoverable ==
  /\ Open = {} => target # Torn /\ (good # Absent => target = good)
  /\ \A i \in Open : Recovered(i) # Torn /\ (good # Absent => Recovered(i) = good)

\* A rollback copy left on disk is always named by a journal, so that the next
\* attempt restores or removes it ("a durable journal allows the next attempt to
\* recover an interrupted swap", transactional_install.py:45).
BackupsJournaled ==
  \A i \in Tx : previous[i] # Absent \/ staging[i] # Absent => journal[i] # "none"

\* New work starts from a recovered target: "A durable journal allows the next
\* attempt to recover an interrupted swap before new work begins."
RecoveredBeforeWork == At("mkdir") => Open = {} /\ target = good

\* When rollback returns True the release in service before the attempt is back,
\* as _transactional_tpa_update tells its caller: "previous runtime restored."
RolledBackMeansRestored == At("forget_rollback") => target = good

\* The whole of it implements a one-step replacement of the installed release.
Atomic == INSTANCE AtomicInstall WITH installed <- Survivor, adopted <- good # Absent
ImplementsAtomicInstall == Atomic!Spec
=============================================================================
