------------------------- MODULE MCServiceUpdates -------------------------
(* Instances of ServiceUpdates for TLC.                                      *)
EXTENDS ServiceUpdates

CONSTANTS arr, frontend, seerr, emby

MCFamily ==
  [s \in Services |-> IF s = arr THEN "arr" ELSE IF s = emby THEN "emby" ELSE "repo"]

\* With one service enabled nothing is waited for.
Nothing == [s \in Services |-> {}]
Latest == [kind |-> "latest", version |-> 0]
Release == [kind |-> "release", version |-> 1]
Prerelease == [kind |-> "prerelease", version |-> 0]
\* Of Emby's updates only one that follows no release selects one for a time.
MCChoices ==
  [s \in Services |-> IF s = emby THEN {None, Release}
                      ELSE IF s = seerr THEN {Latest, Prerelease} ELSE {Latest, Release}]
\* One service is enabled, and updated automatically until it is saved otherwise.
MCConfigured ==
  {[x \in {s} |-> [selection |-> IF s = emby THEN None ELSE Latest, auto |-> "install"]] :
     s \in Services}
=============================================================================
