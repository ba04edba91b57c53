------------------------ MODULE MCNamespaceMigration ------------------------
(* Instances of NamespaceMigration for TLC. *)
EXTENDS NamespaceMigration

\* Every control point of the worker may raise; the writes of the records do not.
StepFaults ==
  (EarlyPCs \cup ForwardPCs \cup RollbackPCs) \ {"rollback_save"}

=============================================================================
