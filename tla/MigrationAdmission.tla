------------------------ MODULE MigrationAdmission ------------------------
(* What utils/infinidysk_migration_admission.py and the admission of a      *)
(* namespace job (start_full_namespace_job) promise one another.  Whoever   *)
(* changes what a namespace migration needs to itself, a party, holds the   *)
(* admission lock while it does, or has a token in _EXTERNAL_MUTATIONS, and *)
(* begins only while no job blocks.  A job begins only while the lock is    *)
(* free and there is no token.  Nobody looks at what the others do.         *)
EXTENDS TLAPS

CONSTANTS
  Parties,     \* requests, workers and monitors that change managed state
  Nobody

VARIABLES
  lock,        \* owner of INFINIDYSK_MIGRATION_ADMISSION_LOCK
  reserved,    \* _EXTERNAL_MUTATIONS: the parties with a token
  blocking,    \* infinidysk_namespace_migration_active()
  working      \* the parties that are changing something

vars == <<lock, reserved, blocking, working>>

Init == lock = Nobody /\ reserved = {} /\ blocking \in BOOLEAN /\ working = {}

\* The lock is an RLock: its owner may take it again.
Open(p) == lock \in {Nobody, p}

\* with INFINIDYSK_MIGRATION_ADMISSION_LOCK: a migration does not matter yet.
Take(p) == lock = Nobody /\ lock' = p /\ UNCHANGED <<reserved, blocking, working>>

\* The owner of the lock finds that no job blocks.
Begin(p) ==
  /\ Open(p) /\ ~blocking
  /\ lock' = p /\ working' = working \cup {p}
  /\ UNCHANGED <<reserved, blocking>>

\* reserve_infinidysk_external_mutation: the token outlives the lock.
Reserve(p) ==
  /\ Open(p) /\ ~blocking
  /\ reserved' = reserved \cup {p} /\ working' \in {working, working \cup {p}}
  /\ UNCHANGED <<lock, blocking>>

\* assert_infinidysk_external_mutation_reserved.
Begin_reserved(p) ==
  /\ Open(p) /\ p \in reserved /\ ~blocking
  /\ working' = working \cup {p}
  /\ UNCHANGED <<lock, reserved, blocking>>

\* A party is done, and gives the lock or the token back, or keeps them for more:
\* the end of a with-block, release_infinidysk_external_mutation.
End(p) ==
  /\ working' = working \ {p}
  /\ lock' = lock \/ (lock = p /\ lock' = Nobody)
  /\ reserved' = reserved \/ (Open(p) /\ reserved' = reserved \ {p})
  /\ UNCHANGED blocking

\* start_full_namespace_job; infinidysk_external_mutation_active finds no token.
Admit_job ==
  /\ lock = Nobody /\ reserved = {}
  /\ blocking' = TRUE /\ UNCHANGED <<lock, reserved, working>>

\* Its worker, or who resolves it, records that it is over; without the lock.
End_job == blocking' = FALSE /\ UNCHANGED <<lock, reserved, working>>

\* DUMB dies: lock and tokens are in memory, the job is on disk.
Die == lock' = Nobody /\ reserved' = {} /\ working' = {} /\ UNCHANGED blocking

Next ==
  \/ \E p \in Parties : Take(p) \/ Begin(p) \/ Reserve(p) \/ Begin_reserved(p) \/ End(p)
  \/ Admit_job \/ End_job \/ Die

Spec == Init /\ [][Next]_vars

-----------------------------------------------------------------------------
\* While a job blocks, nobody is changing anything.
Undisturbed == blocking => working = {}

\* Nobody works but with the lock or a token, and beside a job nobody has a token.
Entitled ==
  /\ working \subseteq Parties
  /\ \A p \in working : p = lock \/ p \in reserved
  /\ blocking => reserved = {} /\ working = {}

\* Every step leaves the lock or a token with who works.
LEMMA EntitledStep == ASSUME Nobody \notin Parties, Entitled, [Next]_vars PROVE Entitled'
<1> USE DEF Entitled, Open
<1>1. ASSUME NEW p \in Parties, Take(p) PROVE Entitled'
  BY <1>1 DEF Take
<1>2. ASSUME NEW p \in Parties, Begin(p) PROVE Entitled'
  BY <1>2 DEF Begin
<1>3. ASSUME NEW p \in Parties, Reserve(p) PROVE Entitled'
  BY <1>3 DEF Reserve
<1>4. ASSUME NEW p \in Parties, Begin_reserved(p) PROVE Entitled'
  BY <1>4 DEF Begin_reserved
<1>5. ASSUME NEW p \in Parties, End(p) PROVE Entitled'
  BY <1>5 DEF End
<1>6. CASE Admit_job BY <1>6 DEF Admit_job
<1>7. CASE End_job BY <1>7 DEF End_job
<1>8. CASE Die BY <1>8 DEF Die
<1>9. CASE UNCHANGED vars BY <1>9 DEF vars
<1> QED BY <1>1, <1>2, <1>3, <1>4, <1>5, <1>6, <1>7, <1>8, <1>9 DEF Next

\* The lock and the tokens are enough: though no job asks what is going on and nobody
\* who is at work asks again, a job that blocks is alone.
THEOREM JobsUndisturbed == ASSUME Nobody \notin Parties PROVE Spec => []Undisturbed
<1>1. Init => Entitled BY DEF Init, Entitled
<1>2. Entitled /\ [Next]_vars => Entitled' BY EntitledStep
<1>3. Entitled => Undisturbed BY DEF Entitled, Undisturbed
<1> QED BY <1>1, <1>2, <1>3, PTL DEF Spec
=============================================================================
