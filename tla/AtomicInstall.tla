--------------------------- MODULE AtomicInstall ---------------------------
(* What DirectoryReleaseTransaction promises: the installed runtime is at    *)
(* every moment one whole release, and only ever replaced by a newer one,    *)
(* whatever happens on the way.                                             *)
EXTENDS Integers

CONSTANTS
  Last,     \* releases are 0 (found at first) and 1 .. Last, in order of attempt
  Absent    \* nothing is installed

VARIABLES
  installed,  \* the release in place, or the one recovery will put in place
  adopted     \* whether there is a release to keep: installed first, or committed

vars == <<installed, adopted>>

Newer(v) == installed # Absent => v > installed

Init ==
  /\ installed \in {0, Absent}
  /\ adopted = (installed # Absent)

\* A new release passes its health check.
Upgrade ==
  /\ \E v \in 1 .. Last : Newer(v) /\ installed' = v
  /\ adopted' = TRUE

\* Where there is nothing to keep a release may be tried, dropped and kept.
Try ==
  /\ ~adopted /\ installed = Absent
  /\ \E v \in 1 .. Last : installed' = v
  /\ UNCHANGED adopted
Drop  == ~adopted /\ installed' = Absent /\ UNCHANGED adopted
Adopt == installed # Absent /\ adopted' = TRUE /\ UNCHANGED installed

Next == Upgrade \/ Try \/ Drop \/ Adopt

Spec == Init /\ [][Next]_vars
=============================================================================
