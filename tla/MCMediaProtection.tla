------------------------- MODULE MCMediaProtection -------------------------
(* Instances of MediaProtection for TLC.                                    *)
EXTENDS MediaProtection, TLC

CONSTANTS s1, s2, m1

\* Both storage services serve every media server.
AllRead == [s \in Stores |-> Media]

\* Storage services with the same readers can be exchanged.
Interchangeable == Permutations(Stores)
=============================================================================
