------------------------ MODULE MCReleaseTransaction ------------------------
(* Constants for model checking ReleaseTransaction.                         *)
EXTENDS ReleaseTransaction

=============================================================================
