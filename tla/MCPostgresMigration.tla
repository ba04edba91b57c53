------------------------ MODULE MCPostgresMigration ------------------------
(* Instances of PostgresMigration for TLC.                                  *)
EXTENDS PostgresMigration

\* Every step of a job and of the way back may raise; for InfiniDysk also the saves in
\* the handler itself, for Sonarr and its kin not the copy of config.xml in the way back.
StepFaults ==
  [k \in Kinds |-> CASE k = "infinidysk" -> PCs \ {"idle"}
                     [] k = "arr" -> Forward \cup (Restore \ {"r_config"})
                     [] OTHER -> Forward \cup Restore \cup {"resave"}]
=============================================================================
