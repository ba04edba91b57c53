------------------------ MODULE MCProcessSupervisor ------------------------
(* Instances of ProcessSupervisor for TLC. *)
EXTENDS ProcessSupervisor, TLC

CONSTANTS n1, n2, p1, p2, p3, r1, r2

\* No service waits for a mount.
NoNeeds == [n \in Names |-> {}]
\* n1 waits for the mount that n2 provides.
ConsumerNeedsProvider == [n \in Names |-> IF n = n1 THEN {n2} ELSE {}]

\* Process and restart-thread identities are interchangeable (safety runs only).
Interchangeable == Permutations(Pids) \cup Permutations(RestartThreads)
=============================================================================
