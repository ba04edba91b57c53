------------------------ MODULE ServiceSetup_proofs ------------------------
(* Proofs about ServiceSetup.  A setup runs a program, and which program is  *)
(* data: the proofs take from it only that its nodes are charted, that is    *)
(* that some set of nodes holds those where setups start and those that      *)
(* follow, and that they are in order (SetupPaths), and about versions that  *)
(* the sights of its service are closed under what may be seen next          *)
(* (PinnedSetups).  TLC evaluates both for the programs of every service in  *)
(* MCServiceSetup; everything that depends on versions, files, faults and    *)
(* kills, and on how many there are, is proved: each step leads from a node  *)
(* to one that follows it, with the facts that node has, and from a sight to *)
(* one that follows it.                                                      *)
EXTENDS PinnedSetups, TLAPS

\* No patch has the name of another fact.
LEMMA Patches_are_no_facts ==
  ASSUME NEW s
  PROVE  Patches(s) \cap Fact_names = {} /\ "prebuilt" \notin Patches(s)
BY DEF Patches, Fact_names

\* What a directory, or one that was set aside, holds.
Files_typed(i) ==
  /\ i \in [src : Content, built : Content, marker : Version \cup {Nothing, Channel},
            patched : SUBSET Patches(service),
            made : (SUBSET Patches(service)) \cup {{"prebuilt"}}]
  /\ ~needs_patches => i.patched = {}

Typed ==
  /\ service \in Services /\ mode \in Modes(service)
  /\ {auto_update, clear_on_update, install_cache, needs_patches} \subseteq BOOLEAN
  /\ auto_update => mode = "release"
  /\ install_cache => clear_on_update
  /\ needs_patches => Patches(service) # {}
  /\ pin \in Version \cup {Channel} /\ upstream \in Version
  /\ phase \in Phases \cup {"idle", "failing"}
  /\ entry \in {"setup", "install", "configure"}
  /\ goal \in Version \cup {Nothing, Channel}
  /\ cache \in Version \cup {Nothing}
  /\ branch_state \in Version \cup {Nothing, Channel}
  /\ setup_tracker \in BOOLEAN /\ scarred \in BOOLEAN
  /\ faults \in Nat /\ kills \in Nat
  /\ Files_typed(Installed)

LEMMA Answers_are_Boolean ==
  ASSUME Typed, NEW c \in Tests, NEW b \in Answers(c)
  PROVE  b \in BOOLEAN
<1>1. CASE c \in Phases
  BY <1>1 DEF Answers, Phases
<1>2. CASE c \in {"none", "release", "branch", "commit"}
  BY <1>2 DEF Answers
<1>3. CASE c = "source build"
  <2>1. Of_sources(mode) \in BOOLEAN
    BY DEF Of_sources
  <2> QED
    BY <1>3, <2>1 DEF Answers
<1>4. CASE c = "latest"
  BY <1>4 DEF Answers
<1>5. CASE c = "named"
  BY <1>5 DEF Answers
<1>6. CASE c = "resolved"
  <2>1. Resolved \in BOOLEAN
    BY DEF Resolved
  <2> QED
    BY <1>6, <2>1 DEF Answers
<1>7. CASE c = "clears"
  BY <1>7 DEF Answers, Typed
<1>8. CASE c = "unpatched"
  BY <1>8 DEF Answers, Patch_needed, Typed
<1>9. CASE c = "source whole"
  <2>1. Whole(src) \in BOOLEAN
    BY DEF Whole
  <2> QED
    BY <1>9, <2>1 DEF Answers
<1>10. CASE c = "selected"
  BY <1>10 DEF Answers, Whole
<1>11. CASE c = "unmarked"
  BY <1>11 DEF Answers
<1>12. CASE c \in {"present", "source", "marked"}
  BY <1>12 DEF Answers, Found
<1>13. CASE c \in {"newest", "matches"}
  BY <1>13 DEF Answers, Reports
<1>14. CASE c = "outdated"
  BY <1>14 DEF Answers, Reports
<1>15. CASE c = "keeps channel"
  BY <1>15 DEF Answers, Found
<1>16. CASE c = "unchanged"
  BY <1>16 DEF Answers, Unchanged_commit, Found, Has_branch_runtime_artifacts
<1>17. CASE c = "prebuilt"
  BY <1>17 DEF Answers, Nzbdav_prebuilt_runtime_ready, Found
<1>18. CASE c \in {"option", "comparable"}
  BY <1>18 DEF Answers
<1>19. CASE c = "wanted"
  <2>1. Release_wanted \in BOOLEAN
    BY DEF Release_wanted
  <2> QED
    BY <1>19, <2>1 DEF Answers
<1> QED
  BY <1>19, <1>1, <1>2, <1>3, <1>4, <1>5, <1>6, <1>7, <1>8, <1>9, <1>10, <1>11, <1>12,
     <1>13, <1>14, <1>15, <1>16, <1>17, <1>18 DEF Tests

LEMMA Versions ==
  /\ Nothing \notin Version /\ Torn \notin Version /\ Channel \notin Version
  /\ Version \subseteq Nat
BY SetupAssumption DEF Version

\* The names of the patches a set of facts holds are those of patches made.
LEMMA Patched_names ==
  ASSUME NEW F, Hold(F), Patches(service) \subseteq F
  PROVE  needs_patches => Patches(service) \subseteq patched
BY Patches_are_no_facts DEF Hold

\* A known fact settles the test of it.
LEMMA Known ==
  ASSUME NEW F, Hold(F),
         NEW c \in F \cap {"clears", "source", "resolved", "prebuilt"}, NEW b \in Answers(c)
  PROVE  b = TRUE
<1>1. CASE c = "clears"
  BY <1>1 DEF Answers, Hold
<1>2. CASE c = "source"
  <2>1. Found(src) = {TRUE}
    BY <1>2, Versions, SetupAssumption DEF Hold, Found
  <2> QED
    BY <1>2, <2>1 DEF Answers
<1>3. CASE c = "resolved"
  <2>1. Resolved = TRUE
    BY <1>3 DEF Hold, Resolved
  <2> QED
    BY <1>3, <2>1 DEF Answers
<1>4. CASE c = "prebuilt"
  <2>1. Found(built) = {TRUE} /\ made = {"prebuilt"}
    BY <1>4, Versions, SetupAssumption DEF Hold, Found
  <2>2. b \in Nzbdav_prebuilt_runtime_ready
    BY <1>4 DEF Answers
  <2> QED
    BY <2>1, <2>2 DEF Nzbdav_prebuilt_runtime_ready
<1> QED
  BY <1>1, <1>2, <1>3, <1>4

LEMMA Possible_answer ==
  ASSUME Typed, NEW n, NEW ms, Is_at(n, ms), NEW c \in Tests, NEW b \in Answers(c)
  PROVE  b \in Possible(n, c)
<1> USE DEF Is_at
<1>1. ASSUME c \in n.facts \cap {"clears", "source", "resolved", "prebuilt"}
      PROVE  b
  BY <1>1, Known
<1>2. ASSUME c \in Phases
      PROVE  b <=> n.phase = c
  BY <1>2 DEF Answers, Phases
<1>3. ASSUME c \in {"none", "release", "branch", "commit"}
      PROVE  b <=> n.mode = c
  BY <1>3 DEF Answers
<1>4. ASSUME c = "source build"
      PROVE  b <=> Of_sources(n.mode)
  BY <1>4 DEF Answers
<1>5. ASSUME c = "unpatched", Patches(n.service) \subseteq n.facts
      PROVE  ~b
  <2>1. ~Patch_needed
    BY <1>5, Patched_names DEF Patch_needed
  <2>2. b = Patch_needed
    BY <1>5 DEF Answers
  <2> QED
    BY <2>1, <2>2 DEF Patch_needed
<1>6. b \in BOOLEAN
  BY Answers_are_Boolean
<1> QED
  BY <1>1, <1>2, <1>3, <1>4, <1>5, <1>6, Zenon DEF Possible

LEMMA Learning ==
  ASSUME Typed, NEW n, NEW ms, Is_at(n, ms), NEW c \in Tests, NEW b \in Answers(c)
  PROVE  Hold(n.facts \cup Learned(n, c, b))
<1> USE DEF Is_at
<1>1. \/ Learned(n, c, b) = {}
      \/ /\ Learned(n, c, b) = Patches(service)
         /\ needs_patches => Patches(service) \subseteq patched
  <2>1. CASE c = "unpatched" /\ ~b
    <3>1. b = Patch_needed
      BY <2>1 DEF Answers
    <3> QED
      BY <2>1, <3>1 DEF Learned, Patch_needed, Typed
  <2>2. CASE c = "source" /\ b /\ "dressed" \in n.facts
    <3>1. b \in Found(src)
      BY <2>2 DEF Answers
    <3>2. src # Nothing
      BY <2>2, <3>1, SetupAssumption DEF Found
    <3>3. Dressed(Installed)
      BY <2>2 DEF Hold
    <3>4. needs_patches => Patches(service) \subseteq patched
      BY <3>2, <3>3 DEF Dressed, Patched_whole, Installed
    <3>5. c = "source" /\ b = TRUE /\ "dressed" \in n.facts
      BY <2>2, Answers_are_Boolean
    <3>6. Learned(n, "source", TRUE) = Patches(n.service)
      BY <3>5 DEF Learned
    <3> QED
      BY <3>4, <3>5, <3>6
  <2>3. CASE ~((c = "unpatched" /\ ~b) \/ (c = "source" /\ b /\ "dressed" \in n.facts))
    BY <2>3 DEF Learned
  <2> QED
    BY <2>1, <2>2, <2>3
<1> QED
  BY ZenonT(60), <1>1, Patches_are_no_facts DEF Hold, Fact_names

-----------------------------------------------------------------------------
(* What a step leaves of the facts at the node it is taken from.             *)

Op_of(n) == n.todo[1].op
What_of(n) == n.todo[1].what

\* The hypotheses of the lemmas that follow: a setup at a node, about to take a step.
Stands(n, ms) ==
  Typed /\ Is_at(n, ms) /\ In_order(n) /\ phase \in Phases /\ todo # <<>>

\* A set of facts as it must be after a step, fact by fact.
LEMMA Holding ==
  ASSUME NEW F, UNCHANGED <<config, entry>>, Hold(F \cap {"clears", "in scope"}),
         "as before" \in F => Found_so(Installed)',
         "aside" \in F => aside' # Nothing,
         "source" \in F => src' \in Version,
         "resolved" \in F => goal' \in Version,
         "prebuilt" \in F => made' = {"prebuilt"} /\ built' \in Version,
         "agrees" \in F => Agrees(Installed)',
         "dressed" \in F => Dressed(Installed)',
         needs_patches => F \ Fact_names \subseteq patched'
  PROVE  Hold(F)'
BY DEF Hold, config, In_scope

\* Steps that change no file: all that was found there is there.
LEMMA Files_kept ==
  ASSUME UNCHANGED <<config, entry, before, disk>>
  PROVE  /\ Found_so(Installed)' <=> Found_so(Installed)
         /\ Agrees(Installed)' <=> Agrees(Installed)
         /\ Dressed(Installed)' <=> Dressed(Installed)
BY DEF config, disk, Found_so, Agrees, Dressed, Made_whole, Patched_whole, Installed,
       Environment_kept, Whole, Version

LEMMA Files_kept_made ==
  ASSUME UNCHANGED <<config, disk>>
  PROVE  Made_whole(Installed)' <=> Made_whole(Installed)
BY DEF config, disk, Made_whole, Installed, Whole, Version

LEMMA Files_kept_agreed ==
  ASSUME UNCHANGED <<config, disk>>
  PROVE  (Agrees(Installed)' <=> Agrees(Installed)) /\ (Dressed(Installed)' <=> Dressed(Installed))
<1>1. Patches(service)' = Patches(service)
  BY DEF config, Patches
<1> QED
  BY <1>1 DEF Agrees, Dressed, Patched_whole, Installed, Whole, Version, disk, config

LEMMA Quiet_holds ==
  ASSUME NEW n, NEW ms, Stands(n, ms),
         Op_of(n) \in {"call", "select", "resolve", "lookup", "head", "record"},
         UNCHANGED <<config, entry, before, disk, aside>>,
         Op_of(n) \in {"call", "record"} => UNCHANGED goal,
         Op_of(n) = "resolve" => goal' \in Version
  PROVE  Hold(After(n, Op_of(n), What_of(n)))'
<1> DEFINE F == After(n, Op_of(n), What_of(n))
<1>1. F \subseteq n.facts \cup {"resolved"}
  BY DEF After, Gains, Patch_ops
<1>2. "resolved" \in F =>
        Op_of(n) = "resolve" \/ ("resolved" \in n.facts /\ Op_of(n) \in {"call", "record"})
  BY DEF After, Gains, Loses, Patch_ops
<1>3. Hold(n.facts) /\ Typed
  BY DEF Stands, Is_at
<1>4. Hold(F \cap {"clears", "in scope"})
  BY <1>1, <1>3 DEF Hold, Fact_names
<1>5. /\ "as before" \in F => Found_so(Installed)'
      /\ "agrees" \in F => Agrees(Installed)'
      /\ "dressed" \in F => Dressed(Installed)'
  BY <1>1, <1>3, Files_kept DEF Hold
<1>6. /\ "aside" \in F => aside' # Nothing
      /\ "source" \in F => src' \in Version
      /\ "prebuilt" \in F => made' = {"prebuilt"} /\ built' \in Version
      /\ "resolved" \in F => goal' \in Version
  BY <1>1, <1>2, <1>3 DEF Hold, disk
<1>7. needs_patches => F \ Fact_names \subseteq patched'
  BY <1>1, <1>3 DEF Hold, disk, Fact_names
<1> QED
  BY <1>4, <1>5, <1>6, <1>7, Holding

\* The other steps: what is left to show of each is about the files it writes.
LEMMA Work_holds ==
  ASSUME NEW n, NEW ms, Stands(n, ms),
         NEW F, F = After(n, Op_of(n), What_of(n)),
         Op_of(n) \in {"mark", "clear", "tidy", "unpack"} \cup Patch_ops \cup Runtime_ops,
         UNCHANGED <<config, entry, before, goal>>,
         aside # Nothing => aside' # Nothing,
         Op_of(n) = "clear" /\ In_scope => aside' # Nothing,
         Op_of(n) = "unpack" => src' \in Version,
         Op_of(n) \in {"mark"} \cup Patch_ops \cup Runtime_ops => UNCHANGED src,
         Op_of(n) \in Runtime_ops => UNCHANGED <<marker, patched>>,
         "prebuilt" \in F => made' = {"prebuilt"} /\ built' \in Version,
         "agrees" \in F => Agrees(Installed)',
         "dressed" \in F => Dressed(Installed)',
         needs_patches => F \ Fact_names \subseteq patched'
  PROVE  Hold(F)'
<1>1. Hold(n.facts)
  BY DEF Stands, Is_at
<1>2. Hold(F \cap {"clears", "in scope"})
  BY <1>1, Patches_are_no_facts DEF After, Gains, Hold, Fact_names, Patch_ops
<1>3. ASSUME "as before" \in F
      PROVE  Found_so(Installed)'
  <2>1. "as before" \in n.facts /\ Op_of(n) \in Harmless(n.service)
    BY <1>3, Patches_are_no_facts DEF After, Gains, Loses, Fact_names
  <2>2. Found_so(Installed) /\ n.service = service
    BY <1>1, <2>1 DEF Hold, Stands, Is_at
  <2>3. Op_of(n) \in Runtime_ops /\ Environment_kept
    BY <2>1, <2>2 DEF Harmless, Environment_kept, Runtime_ops, Patch_ops
  <2> QED
    BY <2>2, <2>3 DEF Found_so, Installed, Environment_kept, config, Runtime_ops
<1>4. "aside" \in F => aside' # Nothing
  BY <1>1, Patches_are_no_facts DEF After, Gains, Fact_names, Hold
<1>5. "source" \in F => src' \in Version
  BY <1>1, Patches_are_no_facts DEF After, Gains, Loses, Fact_names, Hold, Version
<1>6. "resolved" \in F => goal' \in Version
  BY <1>1, Patches_are_no_facts
  DEF After, Gains, Loses, Fact_names, Hold, Runtime_ops, Patch_ops, Version
<1> QED
  BY <1>2, <1>3, <1>4, <1>5, <1>6, Holding

\* Where nothing is patched, the patches known to be made are those of before.
LEMMA Patches_kept ==
  ASSUME NEW n, NEW ms, Stands(n, ms), Op_of(n) \notin Patch_ops,
         Op_of(n) \in {"clear", "tidy", "unpack"} \/ UNCHANGED patched
  PROVE  needs_patches =>
           After(n, Op_of(n), What_of(n)) \ Fact_names \subseteq patched'
<1>1. Hold(n.facts) /\ n.service = service /\ patched \subseteq Patches(service)
  BY DEF Stands, Is_at, Typed, Files_typed, Installed
<1>2. \A f \in After(n, Op_of(n), What_of(n)) \ Fact_names :
        f \in n.facts /\ ~Loses(n, Op_of(n), f)
  BY Patches_are_no_facts DEF After, Gains, Fact_names
<1> QED
  BY <1>1, <1>2 DEF Loses, Hold

LEMMA After_about_files ==
  ASSUME NEW n, NEW o, NEW w
  PROVE  /\ "prebuilt" \in After(n, o, w) =>
              \/ "prebuilt" \in n.facts /\ o \notin {"clear", "unpack"} \cup (Runtime_ops \ {"refresh"})
              \/ o = "activate" /\ w = "prebuilt" /\ "resolved" \in n.facts
         /\ "agrees" \in After(n, o, w) =>
              \/ o \in {"clear", "tidy", "unpack", "write", "attempt", "build", "activate"}
              \/ "agrees" \in n.facts /\ o \notin Patch_ops \cup {"swap"}
         /\ "dressed" \in After(n, o, w) =>
              \/ o \in {"clear", "tidy"}
              \/ o \in Patch_ops /\ Patches(n.service) \subseteq n.facts \cup {w}
              \/ "dressed" \in n.facts /\ o # "unpack"
BY Patches_are_no_facts DEF After, Gains, Loses, Fact_names

LEMMA At_facts ==
  ASSUME NEW n, NEW ms, Stands(n, ms)
  PROVE  /\ n.service = service
         /\ "prebuilt" \in n.facts => made = {"prebuilt"} /\ built \in Version
         /\ "resolved" \in n.facts => goal \in Version
         /\ "agrees" \in n.facts => Agrees(Installed)
         /\ "dressed" \in n.facts => Dressed(Installed)
         /\ needs_patches => n.facts \ Fact_names \subseteq patched
         /\ Op_of(n) = todo[1].op /\ What_of(n) = What
BY DEF Stands, Is_at, Hold, Op_of, What_of, What

LEMMA Mark_holds ==
  ASSUME NEW n, NEW ms, Stands(n, ms), Mark_step, Advance
  PROVE  Hold(After(n, Op_of(n), What_of(n)))'
<1>1. /\ Op_of(n) = "mark" /\ UNCHANGED <<config, entry, before, goal, aside>>
      /\ UNCHANGED <<src, built, patched, made>>
  BY At_facts DEF Mark_step, Op_is, Steady, Advance, Proceed
<1>2. "agrees" \in n.facts => Agrees(Installed)'
  BY <1>1, At_facts DEF Agrees, Installed, Whole, Version
<1>3. "dressed" \in n.facts => Dressed(Installed)'
  BY <1>1, At_facts DEF Dressed, Patched_whole, Installed, config
<1> QED
  BY <1>1, <1>2, <1>3, At_facts, After_about_files, Patches_kept, Work_holds
  DEF Patch_ops, Runtime_ops, Version

\* What was set aside is never mistaken for nothing.
LEMMA Something_installed ==
  ASSUME Typed
  PROVE  Installed # Nothing
<1>1. Patches(service) \subseteq Patch_names
  BY DEF Typed, Patch_names
<1>2. /\ src \in Content /\ built \in Content /\ marker \in Version \cup {Nothing, Channel}
      /\ patched \subseteq Patches(service) /\ made \in (SUBSET Patches(service)) \cup {{"prebuilt"}}
  BY DEF Typed, Files_typed, Installed
<1>3. made \subseteq Patch_names \cup {"prebuilt"}
  BY <1>1, <1>2
<1>4. Installed \in Files
  BY <1>1, <1>2, <1>3 DEF Installed, Files
<1> QED
  BY <1>4, NothingAssumption

\* Without sources, or with sources that are not patched, nothing is out of date.
LEMMA Nothing_outdated ==
  ASSUME patched' = {}
  PROVE  Agrees(Installed)'
BY DEF Agrees, Installed

LEMMA Clear_holds ==
  ASSUME NEW n, NEW ms, Stands(n, ms), Clear_step, Proceed
  PROVE  Hold(After(n, Op_of(n), What_of(n)))'
<1>1. /\ Op_of(n) = "clear" /\ UNCHANGED <<config, entry, before, goal>>
      /\ aside' = Moved_aside /\ src' = Nothing /\ patched' = {}
  BY At_facts, SetupAssumption DEF Clear_step, Op_is, Steady, Advance, Proceed, Stop, Break, Phases
<1>2. (aside # Nothing => aside' # Nothing) /\ (In_scope => aside' # Nothing)
  BY <1>1, Something_installed DEF Moved_aside, Stands
<1>3. Dressed(Installed)' /\ Agrees(Installed)'
  BY <1>1, Nothing_outdated DEF Dressed, Installed
<1> QED
  BY <1>1, <1>2, <1>3, After_about_files, Patches_kept, Work_holds
  DEF Patch_ops, Runtime_ops

LEMMA Tidy_holds ==
  ASSUME NEW n, NEW ms, Stands(n, ms), Tidy_step, Proceed
  PROVE  Hold(After(n, Op_of(n), What_of(n)))'
<1>1. /\ Op_of(n) = "tidy" /\ UNCHANGED <<config, entry, before, goal, aside, built, made>>
      /\ src' = Nothing /\ patched' = {}
  BY At_facts, SetupAssumption DEF Tidy_step, Op_is, Steady, Advance, Proceed, Stop, Break, Phases
<1>3. Dressed(Installed)' /\ Agrees(Installed)'
  BY <1>1, Nothing_outdated DEF Dressed, Installed
<1> QED
  BY <1>1, <1>3, At_facts, After_about_files, Patches_kept, Work_holds
  DEF Patch_ops, Runtime_ops, Version

\* An archive of a version: what upstream has, or the cached one.
LEMMA Versions_fetched ==
  ASSUME Typed
  PROVE  Fetched \in Version /\ (cache # Nothing => cache \in Version)
BY DEF Typed, Fetched

LEMMA Unpack_holds ==
  ASSUME NEW n, NEW ms, Stands(n, ms), Unpack_step, Advance
  PROVE  Hold(After(n, Op_of(n), What_of(n)))'
<1>1. /\ Op_of(n) = "unpack" /\ UNCHANGED <<config, entry, before, goal, aside>>
      /\ src' \in Version /\ patched' = {}
  BY At_facts, SetupAssumption, Versions_fetched
  DEF Stands, Unpack_step, Unpack_cached, Unpack_failed, Unpack_this, Op_is, Steady, Advance, Proceed, Stop, Break, Phases
<1>2. Agrees(Installed)'
  BY <1>1, Nothing_outdated
<1> QED
  BY <1>1, <1>2, At_facts, After_about_files, Patches_kept, Work_holds
  DEF Patch_ops, Runtime_ops

LEMMA Patch_holds ==
  ASSUME NEW n, NEW ms, Stands(n, ms), Patch_step, Proceed
  PROVE  Hold(After(n, Op_of(n), What_of(n)))'
<1>1. /\ Op_of(n) \in Patch_ops
      /\ UNCHANGED <<config, entry, before, goal, aside, src, built, made, marker>>
  BY At_facts DEF Patch_step, Op_is, Steady, Advance, Proceed, Patch_ops
<1>2. patched' = IF needs_patches THEN patched \cup {What_of(n)} ELSE patched
  <2>1. faults' # faults + 1
    BY DEF Proceed, Stands, Typed
  <2> QED
    BY <2>1, At_facts DEF Patch_step, Fault
<1>3. "dressed" \in After(n, Op_of(n), What_of(n)) => Dressed(Installed)'
  <2>1. ASSUME needs_patches, "dressed" \in After(n, Op_of(n), What_of(n)), src # Nothing
        PROVE  Patches(service) \subseteq patched'
    BY <1>1, <1>2, <2>1, At_facts, After_about_files, Patches_are_no_facts
    DEF Patch_ops, Dressed, Patched_whole, Installed
  <2> QED
    BY <1>1, <2>1 DEF Dressed, Patched_whole, Installed, config
<1>4. needs_patches => After(n, Op_of(n), What_of(n)) \ Fact_names \subseteq patched'
  BY <1>2, At_facts DEF After, Gains, Fact_names
<1> QED
  BY <1>1, <1>3, <1>4, At_facts, After_about_files, Work_holds
  DEF Patch_ops, Runtime_ops, Version

\* A setup whose files stay as they are keeps its facts.
LEMMA Same_facts ==
  ASSUME NEW F, Hold(F), UNCHANGED <<config, entry, before, disk, aside, goal>>
  PROVE  Hold(F)'
<1>1. Hold(F \cap {"clears", "in scope"})
  BY DEF Hold, Fact_names
<1> QED
  BY ZenonT(60), <1>1, Files_kept, Holding DEF Hold, disk, Version

\* What the steps that write the runtime leave of it, when they succeed.
LEMMA Runtime_written ==
  ASSUME NEW n, NEW ms, Stands(n, ms), Proceed,
         Write_step \/ Build_step \/ Refresh_step \/ Activate_step \/ Swap_step
  PROVE  /\ UNCHANGED <<config, entry, before, goal, aside, src, marker, patched>>
         /\ \/ Op_of(n) \in {"write", "attempt"} /\ built' = Torn /\ UNCHANGED made
            \/ Op_of(n) = "build" /\ built' = src /\ made' = patched
            \/ Op_of(n) = "refresh" /\ UNCHANGED <<built, made>>
            \/ /\ Op_of(n) = "activate"
               /\ built' = (IF What_of(n) = "prebuilt" THEN goal ELSE src)
               /\ made' = (IF What_of(n) = "prebuilt" THEN {"prebuilt"} ELSE patched)
            \/ Op_of(n) = "swap" /\ built' = goal /\ UNCHANGED made
<1>1. phase' = phase /\ phase # "failing"
  BY DEF Proceed, Advance, Stands, Phases
<1> USE <1>1, At_facts DEF Op_is, Runtime_only, Steady, Proceed, Advance, Break, Stop
<1>2. CASE Write_step
  BY <1>2 DEF Write_step
<1>3. CASE Build_step
  BY <1>3 DEF Build_step
<1>4. CASE Refresh_step
  BY <1>4 DEF Refresh_step
<1>5. CASE Activate_step
  BY <1>5 DEF Activate_step
<1>6. CASE Swap_step
  BY <1>6 DEF Swap_step
<1> QED
  BY <1>2, <1>3, <1>4, <1>5, <1>6

LEMMA Runtime_holds ==
  ASSUME NEW n, NEW ms, Stands(n, ms), Proceed,
         Write_step \/ Build_step \/ Refresh_step \/ Activate_step \/ Swap_step
  PROVE  Hold(After(n, Op_of(n), What_of(n)))'
<1>1. Op_of(n) \in Runtime_ops
  BY Runtime_written DEF Runtime_ops
<1>2. UNCHANGED <<config, entry, before, goal, aside, src, marker, patched>>
  BY Runtime_written
<1>3. "agrees" \in After(n, Op_of(n), What_of(n)) => Agrees(Installed)'
  <2>1. \/ Op_of(n) \in {"write", "attempt", "build", "activate"}
        \/ Op_of(n) = "refresh" /\ "agrees" \in n.facts
        \/ "agrees" \notin After(n, Op_of(n), What_of(n))
    BY <1>1, After_about_files DEF Runtime_ops
  <2>2. CASE Op_of(n) \in {"write", "attempt"}
    BY <2>2, Runtime_written, Versions DEF Agrees, Installed, Whole
  <2>3. CASE Op_of(n) \in {"build", "activate"}
    BY <2>3, Runtime_written DEF Agrees, Installed
  <2>4. CASE Op_of(n) = "refresh" /\ "agrees" \in n.facts
    BY <2>4, Runtime_written, At_facts DEF Agrees, Installed, Whole, Version
  <2> QED
    BY <2>1, <2>2, <2>3, <2>4
<1>4. "dressed" \in After(n, Op_of(n), What_of(n)) => Dressed(Installed)'
  BY <1>1, <1>2, After_about_files, At_facts
  DEF Runtime_ops, Patch_ops, Dressed, Patched_whole, Installed, config
<1>5. "prebuilt" \in After(n, Op_of(n), What_of(n)) => made' = {"prebuilt"} /\ built' \in Version
  <2>1. \/ Op_of(n) = "refresh" /\ "prebuilt" \in n.facts
        \/ Op_of(n) = "activate" /\ What_of(n) = "prebuilt" /\ "resolved" \in n.facts
        \/ "prebuilt" \notin After(n, Op_of(n), What_of(n))
    BY <1>1, After_about_files DEF Runtime_ops
  <2> QED
    BY <2>1, Runtime_written, At_facts DEF Version
<1> QED
  BY <1>1, <1>2, <1>3, <1>4, <1>5, Patches_kept, Work_holds DEF Runtime_ops, Patch_ops

-----------------------------------------------------------------------------
(* A setup at a node goes to one that follows it.                            *)

LEMMA Advancing ==
  ASSUME NEW n, NEW ms, Stands(n, ms), Op_of(n) \notin {"if", "fail"}, Advance,
         UNCHANGED config, Hold(After(n, Op_of(n), What_of(n)))'
  PROVE  \E m \in Following(n) : Is_at(m, ms)'
<1> DEFINE m == Moved(n, n.phase, Tail(n.todo), After(n, Op_of(n), What_of(n)))
<1>1. m \in Following(n)
  BY DEF Following, Op_of, What_of, Stands, Is_at
<1>2. In_scope' => "in scope" \in n.facts /\ ~Loses(n, Op_of(n), "in scope")
  BY Patches_are_no_facts
  DEF Stands, Is_at, In_scope, Advance, config, Loses, Fact_names
<1>3. In_scope' => "in scope" \in m.facts
  BY <1>2 DEF After, Moved
<1>4. Is_at(m, ms)'
  BY <1>3 DEF Is_at, Stands, Moved, Advance, config
<1> QED
  BY <1>1, <1>4

LEMMA Trying ==
  ASSUME NEW n, NEW ms, Stands(n, ms), Op_of(n) = "try patch", "fault" \in ms, Advance,
         UNCHANGED config, Hold(n.facts)'
  PROVE  \E m \in Following(n) : Is_at(m, ms)'
<1> DEFINE m == Moved(n, n.phase, Tail(n.todo), n.facts)
<1>1. m \in Following(n)
  BY DEF Following, Op_of, What_of, Stands, Is_at
<1>2. Is_at(m, ms)'
  BY DEF Is_at, Stands, Moved, Advance, config, In_scope
<1> QED
  BY <1>1, <1>2

LEMMA Branching ==
  ASSUME NEW n, NEW ms, Stands(n, ms), Choose
  PROVE  \E m \in Following(n) : Is_at(m, ms)'
<1>1. Op_of(n) = "if" /\ What_of(n) = What /\ What \in Tests /\ todo = n.todo
  BY At_facts DEF Choose, Op_is, Stands, In_order, Tests_known, At, What, Is_at
<1>2. PICK b \in Answers(What) : todo' = (IF b THEN todo[1].then ELSE todo[1].else) \o Tail(todo)
  BY DEF Choose, Branches
<1>3. b \in Possible(n, What)
  BY <1>1, Possible_answer DEF Stands
<1> DEFINE rest == (IF b THEN n.todo[1].then ELSE n.todo[1].else) \o Tail(n.todo)
           m == Moved(n, n.phase, rest, n.facts \cup Learned(n, What_of(n), b))
<1>4. m \in Following(n)
  BY <1>1, <1>3 DEF Following, Op_of, What_of, Stands, Is_at
<1>5. UNCHANGED <<config, entry, before, disk, aside, goal, phase>>
  BY DEF Choose, Read_only, Steady
<1>6. Hold(n.facts \cup Learned(n, What_of(n), b))'
  BY <1>1, <1>5, Learning, Same_facts DEF Stands
<1>7. Is_at(m, ms)'
  BY <1>1, <1>2, <1>5, <1>6 DEF Is_at, Stands, Moved, config, In_scope
<1> QED
  BY <1>4, <1>7

\* Every step of a program that does not end the setup.
Steps ==
  \/ Choose \/ Call_step \/ Fail_step
  \/ Select_step \/ Resolve_step \/ Lookup_step \/ Head_step
  \/ Clear_step \/ Tidy_step \/ Unpack_step \/ Patch_step
  \/ Write_step \/ Build_step \/ Refresh_step \/ Activate_step \/ Swap_step
  \/ Mark_step \/ Record_step

LEMMA Quiet_follows ==
  ASSUME NEW n, NEW ms, Stands(n, ms), phase' \in Phases,
         Call_step \/ Select_step \/ Resolve_step \/ Lookup_step \/ Head_step \/ Record_step
  PROVE  \E m \in Following(n) : Is_at(m, ms)'
<1>1. /\ Op_of(n) \in {"call", "select", "resolve", "lookup", "head", "record"} /\ Advance
      /\ UNCHANGED <<config, entry, before, disk, aside>>
  BY At_facts DEF Call_step, Select_step, Resolve_step, Lookup_step, Head_step, Record_step,
     Op_is, Steady, Read_only, Proceed, Advance, Break, Stop, Choose_version, Phases, ghosts
<1>2. Op_of(n) \in {"call", "record"} => UNCHANGED goal
  BY <1>1, At_facts
  DEF Call_step, Select_step, Resolve_step, Lookup_step, Head_step, Record_step, Op_is, Proceed,
      Break, Stop
<1>3. Op_of(n) = "resolve" => goal' \in Version
  <2>1. Newest \in Version
    BY DEF Newest, Asked, Stands, Typed
  <2>2. phase' # "failing"
    BY DEF Phases
  <2> QED
    BY <2>1, <2>2, At_facts
    DEF Call_step, Select_step, Resolve_step, Lookup_step, Head_step, Record_step, Op_is,
        Choose_version, Break, Stop
<1> QED
  BY <1>1, <1>2, <1>3, Quiet_holds, Advancing

LEMMA Work_follows ==
  ASSUME NEW n, NEW ms, Stands(n, ms), phase' \in Phases,
         \/ Mark_step \/ Clear_step \/ Tidy_step \/ Unpack_step
         \/ Write_step \/ Build_step \/ Refresh_step \/ Activate_step \/ Swap_step
  PROVE  \E m \in Following(n) : Is_at(m, ms)'
<1>1. Advance /\ UNCHANGED config /\ Op_of(n) \notin {"if", "fail"}
  BY At_facts
  DEF Mark_step, Clear_step, Tidy_step, Unpack_step, Unpack_cached, Unpack_failed, Write_step,
      Build_step, Refresh_step, Activate_step, Swap_step, Op_is, Runtime_only, Steady, Proceed,
      Advance, Break, Stop, Phases
<1>2. Clear_step \/ Tidy_step \/ Write_step \/ Build_step \/ Refresh_step \/ Activate_step
      \/ Swap_step => Proceed
  BY DEF Clear_step, Tidy_step, Write_step, Build_step, Refresh_step, Activate_step, Swap_step,
      Proceed, Break, Stop, Phases
<1>3. Hold(After(n, Op_of(n), What_of(n)))'
  BY <1>1, <1>2, Mark_holds, Clear_holds, Tidy_holds, Unpack_holds, Runtime_holds
<1> QED
  BY <1>1, <1>3, Advancing

LEMMA Patch_follows ==
  ASSUME NEW n, NEW ms, Stands(n, ms), phase' \in Phases, Mishaps' \subseteq ms, Patch_step
  PROVE  \E m \in Following(n) : Is_at(m, ms)'
<1>1. Advance /\ UNCHANGED config /\ Op_of(n) \in {"patch", "try patch"}
  BY At_facts DEF Patch_step, Op_is, Steady, Proceed, Advance, Stop, Phases
<1>2. CASE Proceed
  BY <1>1, <1>2, Patch_holds, Advancing
<1>3. CASE ~Proceed
  <2>1. /\ Op_of(n) = "try patch" /\ faults' = faults + 1
        /\ UNCHANGED <<config, entry, before, disk, aside, goal>>
    BY <1>1, <1>3, At_facts
    DEF Patch_step, Op_is, Steady, Fault, Stop, Advance, Phases, disk
  <2>2. "fault" \in ms
    <3>0. faults \in Nat /\ faults' = faults + 1
      BY <2>1 DEF Stands, Typed
    <3>1. faults' > 0
      BY <3>0
    <3>2. "fault" \in Mishaps'
      BY <3>1 DEF Mishaps
    <3> QED
      BY <3>2
  <2> QED
    BY <1>1, <2>1, <2>2, Trying, Same_facts, ZenonT(60) DEF Stands, Is_at
<1> QED
  BY <1>2, <1>3

LEMMA Going_on ==
  ASSUME NEW n, NEW ms, Stands(n, ms), phase' \in Phases, Mishaps' \subseteq ms, Steps
  PROVE  \E m \in Following(n) : Is_at(m, ms)'
<1>1. CASE Fail_step
  BY <1>1 DEF Fail_step, Stop, Phases
<1> QED
  BY <1>1, Branching, Quiet_follows, Work_follows, Patch_follows DEF Steps

-----------------------------------------------------------------------------
(* What the files may hold.                                                  *)

Made_sets == (SUBSET Patches(service)) \cup {{"prebuilt"}}
Markers == Version \cup {Nothing, Channel}

LEMMA Files_now ==
  ASSUME Typed
  PROVE  /\ src \in Content /\ built \in Content /\ marker \in Markers
         /\ patched \subseteq Patches(service) /\ made \in Made_sets
         /\ ~needs_patches => patched = {}
         /\ Half(src) \in Content /\ Half(built) \in Content
BY DEF Typed, Files_typed, Installed, Made_sets, Markers, Half, Content

LEMMA Files_next ==
  ASSUME UNCHANGED config, src' \in Content, built' \in Content, marker' \in Markers,
         patched' \subseteq Patches(service), made' \in Made_sets, ~needs_patches => patched' = {}
  PROVE  Files_typed(Installed)'
<1>1. UNCHANGED <<service, needs_patches>> /\ Content' = Content /\ Markers' = Markers
  BY DEF config, Content, Version, Markers
<1>2. Patches(service)' = Patches(service) /\ Made_sets' = Made_sets
  BY <1>1 DEF Made_sets, Patches
<1>3. Installed' = [src |-> src', built |-> built', marker |-> marker', patched |-> patched',
                    made |-> made']
  BY DEF Installed
<1> QED
  BY <1>1, <1>2, <1>3 DEF Files_typed, Made_sets, Markers, Content, Version

LEMMA Quiet_files ==
  ASSUME Typed, UNCHANGED <<config, disk>>
  PROVE  Files_typed(Installed)'
BY Files_now, Files_next DEF disk, Content, Version, Markers, Made_sets, config

LEMMA Clear_files ==
  ASSUME Typed, Clear_step \/ Tidy_step
  PROVE  Files_typed(Installed)'
<1>1. UNCHANGED config
  BY DEF Clear_step, Tidy_step, Steady
<1>2. src' \in {src, Half(src), Nothing} /\ built' \in {built, Half(built), Nothing}
      /\ marker' \in {marker, Nothing} /\ patched' \in {patched, {}} /\ made' \in {made, {}}
  BY DEF Clear_step, Tidy_step
<1> QED
  BY <1>1, <1>2, Files_now, Files_next DEF Content, Markers, Made_sets

LEMMA Unpack_files ==
  ASSUME Typed, Unpack_step
  PROVE  Files_typed(Installed)' /\ cache' \in Version \cup {Nothing}
<1>1. UNCHANGED <<config, marker, made>>
  BY DEF Unpack_step, Steady
<1>2. src' \in Version \cup {src} /\ built' \in Version \cup {built}
      /\ patched' \in {patched, {}}
  BY Versions_fetched DEF Unpack_step, Unpack_this, Unpack_cached, Unpack_failed
<1>3. cache' \in Version \cup {Nothing}
  BY Versions_fetched DEF Unpack_step, Unpack_this, Unpack_cached, Unpack_failed, Typed
<1> QED
  BY <1>1, <1>2, <1>3, Files_now, Files_next DEF Content, Markers, Made_sets, Version, config

LEMMA Patch_files ==
  ASSUME NEW n, NEW ms, Stands(n, ms), Patch_step
  PROVE  Files_typed(Installed)'
<1>1. UNCHANGED <<config, src, built, marker, made>> /\ Op_of(n) \in Patch_ops
  BY At_facts DEF Patch_step, Steady, Op_is, Patch_ops
<1>2. needs_patches => What_of(n) \in Patches(service)
  BY <1>1, At_facts
  DEF Stands, In_order, Patches_sources, At, Is_at, Typed, Op_of, What_of, Patch_ops
<1>3. patched' = patched \/ (needs_patches /\ patched' = patched \cup {What_of(n)})
  BY At_facts DEF Patch_step
<1> QED
  BY <1>1, <1>2, <1>3, Files_now, Files_next DEF Stands, Content, Markers, Made_sets, Version, config

LEMMA Runtime_files ==
  ASSUME NEW n, NEW ms, Stands(n, ms),
         Write_step \/ Build_step \/ Refresh_step \/ Activate_step \/ Swap_step
  PROVE  Files_typed(Installed)'
<1>1. UNCHANGED <<config, src, marker, patched>>
  BY DEF Write_step, Build_step, Refresh_step, Activate_step, Swap_step, Runtime_only, Steady
<1>2. Swap_step \/ (Activate_step /\ What = "prebuilt") => goal \in Version
  BY At_facts
  DEF Stands, In_order, Resolves_first, At, Is_at, Op_of, What_of, Swap_step, Activate_step, Op_is
<1>3. built' \in Content
  BY <1>2, Files_now
  DEF Stands, Write_step, Build_step, Refresh_step, Activate_step, Swap_step, Content
<1>4. made' \in {made, patched, {"prebuilt"}}
  BY DEF Write_step, Build_step, Refresh_step, Activate_step, Swap_step
<1> QED
  BY <1>1, <1>3, <1>4, Files_now, Files_next DEF Stands, Content, Markers, Made_sets, Version, config

LEMMA Mark_files ==
  ASSUME Typed, Mark_step
  PROVE  Files_typed(Installed)'
<1>1. UNCHANGED <<config, src, built, patched, made>>
  BY DEF Mark_step, Steady
<1>2. Marks \subseteq Markers
  BY Files_now DEF Marks, Typed, Markers, Content
<1>3. marker' \in Markers
  BY <1>2, Files_now DEF Mark_step
<1> QED
  BY <1>1, <1>3, Files_now, Files_next DEF Content, Markers, Made_sets, Version, config

LEMMA Steps_files ==
  ASSUME NEW n, NEW ms, Stands(n, ms), Steps
  PROVE  Files_typed(Installed)'
<1>1. CASE Choose \/ Call_step \/ Fail_step \/ Select_step \/ Resolve_step \/ Lookup_step
           \/ Head_step \/ Record_step
  <2>1. UNCHANGED <<config, disk>>
    BY <1>1 DEF Choose, Call_step, Fail_step, Select_step, Resolve_step, Lookup_step, Head_step,
                Record_step, Read_only, Steady
  <2> QED
    BY <2>1, Quiet_files DEF Stands
<1> QED
  BY <1>1, Clear_files, Unpack_files, Patch_files, Runtime_files, Mark_files DEF Steps, Stands

LEMMA Steps_typed ==
  ASSUME NEW n, NEW ms, Stands(n, ms), Steps
  PROVE  Typed'
<1> USE DEF Stands
<1>1. Files_typed(Installed)'
  BY Steps_files
<1>2. UNCHANGED <<config, pin, upstream, setup_tracker, kills, entry>>
  BY DEF Steps, Choose, Call_step, Fail_step, Select_step, Resolve_step, Lookup_step, Head_step,
     Clear_step, Tidy_step, Unpack_step, Unpack_cached, Unpack_failed, Patch_step, Write_step,
     Build_step, Refresh_step, Activate_step, Swap_step, Mark_step, Record_step, Read_only, Steady,
     Runtime_only, Proceed, Advance, Break, Stop, Choose_version
<1>3. phase' \in {phase, "failing"}
  BY DEF Steps, Choose, Call_step, Fail_step, Select_step, Resolve_step, Lookup_step, Head_step,
     Clear_step, Tidy_step, Unpack_step, Unpack_cached, Unpack_failed, Patch_step, Write_step,
     Build_step, Refresh_step, Activate_step, Swap_step, Mark_step, Record_step, Proceed, Advance,
     Break, Stop, Choose_version
<1>4. faults' \in {faults, faults + 1}
  BY DEF Steps, Choose, Call_step, Fail_step, Select_step, Resolve_step, Lookup_step, Head_step,
     Clear_step, Tidy_step, Unpack_step, Unpack_cached, Unpack_failed, Patch_step, Write_step,
     Build_step, Refresh_step, Activate_step, Swap_step, Mark_step, Record_step, Proceed, Break,
     Fault
<1>5. goal' \in Version \cup {Nothing, Channel}
  <2>1. {goal, Asked, Newest, Channel, Nothing, upstream} \subseteq Version \cup {Nothing, Channel}
    BY DEF Typed, Asked, Newest
  <2>2. mode = "commit" => pin \in Version \cup {Nothing, Channel}
    BY DEF Typed
  <2> QED
    BY <2>1, <2>2
    DEF Steps, Choose, Call_step, Fail_step, Select_step, Resolve_step, Lookup_step, Head_step,
      Clear_step, Tidy_step, Unpack_step, Unpack_cached, Unpack_failed, Patch_step, Write_step,
      Build_step, Refresh_step, Activate_step, Swap_step, Mark_step, Record_step, Proceed, Break,
      Stop, Choose_version
<1>6. cache' \in Version \cup {Nothing}
  <2>1. ~Unpack_step => cache' = cache
    BY DEF Steps, Choose, Call_step, Fail_step, Select_step, Resolve_step, Lookup_step, Head_step,
       Clear_step, Tidy_step, Patch_step, Write_step, Build_step, Refresh_step, Activate_step,
       Swap_step, Mark_step, Record_step, Read_only, Runtime_only
  <2> QED
    BY <2>1, Unpack_files DEF Typed
<1>7. branch_state' \in Version \cup {Nothing, Channel}
  <2>1. branch_state' \in {branch_state, upstream, goal}
    BY DEF Steps, Choose, Call_step, Fail_step, Select_step, Resolve_step, Lookup_step, Head_step,
       Clear_step, Tidy_step, Unpack_step, Patch_step, Write_step, Build_step, Refresh_step,
       Activate_step, Swap_step, Mark_step, Record_step, Read_only, Steady, Runtime_only
  <2> QED
    BY <2>1 DEF Typed
<1>8. scarred' \in BOOLEAN
  BY DEF Steps, Choose, Call_step, Fail_step, Select_step, Resolve_step, Lookup_step, Head_step,
     Clear_step, Tidy_step, Unpack_step, Patch_step, Write_step, Build_step, Refresh_step,
     Activate_step, Swap_step, Mark_step, Record_step, Read_only, Runtime_only, Scar, Typed, ghosts
<1> QED
  BY <1>1, <1>2, <1>3, <1>4, <1>5, <1>6, <1>7, <1>8 DEF Typed, config, Version

-----------------------------------------------------------------------------
(* What a step of a program does to what was set aside, and to the runtime.  *)

LEMMA Setting_aside ==
  ASSUME NEW n, NEW ms, Stands(n, ms), Steps
  PROVE  \/ aside' = aside
         \/ aside = Nothing /\ aside' = Installed /\ Found_so(Installed) /\ At(n, {"clear"})
<1>1. CASE Clear_step
  <2>1. aside' = aside \/ aside' = Moved_aside
    BY <1>1 DEF Clear_step
  <2>2. At(n, {"clear"})
    BY <1>1, At_facts DEF Clear_step, Op_is, At, Stands, Is_at, Op_of
  <2>3. ASSUME In_scope, aside = Nothing
        PROVE  Found_so(Installed)
    BY <2>2, <2>3 DEF Stands, In_order, Clears_first, Is_at, Hold
  <2> QED
    BY <2>1, <2>2, <2>3 DEF Moved_aside
<1>2. CASE ~Clear_step
  BY <1>2
  DEF Steps, Choose, Call_step, Fail_step, Select_step, Resolve_step, Lookup_step, Head_step,
      Tidy_step, Unpack_step, Patch_step, Write_step, Build_step, Refresh_step, Activate_step,
      Swap_step, Mark_step, Record_step, Read_only, Runtime_only
<1> QED
  BY <1>1, <1>2

\* A step that ends the setup spoils what it was writing, and changes nothing else.
LEMMA Breaking ==
  ASSUME Steps, phase' \notin Phases, phase \in Phases
  PROVE  /\ src' \in {src, Half(src)} /\ built' \in {built, Half(built), Torn}
         /\ UNCHANGED <<marker, patched, made>>
         /\ ~Choose /\ (Write_step => built' = Torn)
         /\ (~Fail_step => faults' = faults + 1)
<1>1. phase' # phase
  OBVIOUS
<1> USE <1>1 DEF Read_only, Steady, Runtime_only, Proceed, Advance, Choose_version, Break, Fault, disk
<1>2. CASE Choose \/ Call_step \/ Fail_step \/ Select_step \/ Resolve_step \/ Lookup_step
           \/ Head_step \/ Record_step
  BY <1>2 DEF Choose, Call_step, Fail_step, Select_step, Resolve_step, Lookup_step, Head_step,
              Record_step, Write_step, Op_is
<1>3. CASE Clear_step \/ Tidy_step \/ Unpack_step
  BY <1>3 DEF Clear_step, Tidy_step, Unpack_step, Unpack_cached, Unpack_failed, Choose, Write_step,
              Op_is
<1>4. CASE Patch_step \/ Mark_step
  BY <1>4 DEF Patch_step, Mark_step, Choose, Write_step, Op_is
<1>5. CASE Write_step \/ Build_step \/ Refresh_step \/ Activate_step \/ Swap_step
  BY <1>5 DEF Write_step, Build_step, Refresh_step, Activate_step, Swap_step, Choose, Op_is
<1> QED
  BY <1>2, <1>3, <1>4, <1>5 DEF Steps

LEMMA Halves ==
  ASSUME NEW c
  PROVE  Half(c) \notin Version
BY Versions DEF Half

LEMMA Broken_agrees ==
  ASSUME UNCHANGED <<patched, made>>, src' \in {src, Half(src)}, built' \in {built, Half(built), Torn},
         Agrees(Installed)
  PROVE  Agrees(Installed)'
BY Halves, Versions DEF Agrees, Installed, Whole, Version

\* InfiniDysk is never given up between a patch and the build it calls for.
LEMMA Steps_agree ==
  ASSUME NEW n, NEW ms, Stands(n, ms), Steps, phase' \notin Phases,
         service = "infinidysk", "kill" \notin ms
  PROVE  Agrees(Installed)'
<1>1. /\ src' \in {src, Half(src)} /\ built' \in {built, Half(built), Torn}
      /\ UNCHANGED <<patched, made>> /\ ~Choose /\ (Write_step => built' = Torn)
  BY Breaking DEF Stands
<1>2. CASE Write_step
  BY <1>1, <1>2, Versions DEF Agrees, Installed, Whole
<1>3. CASE ~Write_step
  <2>1. Op_of(n) \notin {"if", "write", "attempt"}
    BY <1>1, <1>3, At_facts
    DEF Steps, Choose, Call_step, Fail_step, Select_step, Resolve_step, Lookup_step, Head_step,
        Clear_step, Tidy_step, Unpack_step, Patch_step, Write_step, Build_step, Refresh_step,
        Activate_step, Swap_step, Mark_step, Record_step, Op_is
  <2>2. Op_of(n) # "try patch"
    BY <1>1, <1>3, At_facts
    DEF Steps, Choose, Call_step, Fail_step, Select_step, Resolve_step, Lookup_step, Head_step,
        Clear_step, Tidy_step, Unpack_step, Patch_step, Write_step, Build_step, Refresh_step,
        Activate_step, Swap_step, Mark_step, Record_step, Op_is, Proceed, Advance, Stands, Phases
  <2>3. "agrees" \in n.facts
    <3>1. Builds_again(n) /\ n.mishaps = ms /\ n.service = service
      BY DEF Stands, In_order, Is_at
    <3>2. ~At(n, {"if", "try patch", "write", "attempt"})
      BY <2>1, <2>2 DEF At, Op_of
    <3> QED
      BY <3>1, <3>2 DEF Builds_again
  <2> QED
    BY <1>1, <2>3, At_facts, Broken_agrees
<1> QED
  BY <1>2, <1>3

\* Nor is traefik_proxy_admin, unless something fails.
LEMMA Failing_agrees ==
  ASSUME NEW n, NEW ms, Stands(n, ms), Steps, phase' \notin Phases,
         service = "traefik_proxy_admin", ms = {}, faults' = 0
  PROVE  Agrees(Installed)' /\ Dressed(Installed)'
<1>1. Fail_step
  <2>1. faults \in Nat
    BY DEF Stands, Typed
  <2> QED
    BY <2>1, Breaking DEF Stands
<1>2. UNCHANGED <<config, entry, before, disk>>
  BY <1>1 DEF Fail_step, Read_only, Steady, Stop
<1>3. /\ "agrees" \in n.facts
      /\ "dressed" \in n.facts \/ Patches(service) \subseteq n.facts
  BY <1>1, At_facts
  DEF Fail_step, Op_is, Stands, In_order, Builds_again, At, Op_of, Is_at
<1>4. Agrees(Installed) /\ Dressed(Installed)
  BY <1>3, At_facts, Patched_names DEF Dressed, Patched_whole, Installed, Stands, Is_at
<1> QED
  BY <1>2, <1>4, Files_kept

\* These are never built, or activated, without every patch there is.
LEMMA Steps_whole ==
  ASSUME NEW n, NEW ms, Stands(n, ms), Steps, Made_whole(Installed),
         \/ service \in {"riven_backend", "riven_frontend"}
         \/ service = "infinidysk" /\ "fault" \notin ms
  PROVE  Made_whole(Installed)'
<1>1. Steady \/ Record_step
  BY DEF Steps, Choose, Call_step, Fail_step, Select_step, Resolve_step, Lookup_step, Head_step,
     Clear_step, Tidy_step, Unpack_step, Patch_step, Write_step, Build_step, Refresh_step,
     Activate_step, Swap_step, Mark_step, Read_only, Runtime_only
<1>2. UNCHANGED config
  BY <1>1 DEF Steady, Record_step
<1>3. Patches(service)' = Patches(service)
  BY <1>2 DEF config, Patches
<1>4. CASE UNCHANGED <<built, made>>
  BY <1>2, <1>3, <1>4 DEF Made_whole, Installed, Whole, Version, config
<1>5. CASE built' \notin Version
  BY <1>5 DEF Made_whole, Installed, Whole, Version
<1>6. ASSUME needs_patches, Build_step \/ (Activate_step /\ What # "prebuilt")
      PROVE  Patches(service) \subseteq patched
  <2>1. At(n, {"build"}) \/ (At(n, {"activate"}) /\ n.todo[1].what # "prebuilt")
    BY <1>6, At_facts DEF Build_step, Activate_step, Op_is, At, Op_of, What_of, Stands, Is_at
  <2>2. Builds_patched(n) /\ n.mishaps = ms /\ n.service = service
    BY DEF Stands, In_order, Is_at
  <2>3. Patches(service) \subseteq n.facts
    BY <2>1, <2>2 DEF Builds_patched
  <2> QED
    BY <1>6, <2>3, Patched_names DEF Stands, Is_at
<1>7. CASE Build_step \/ Activate_step
  <2>1. CASE UNCHANGED <<built, made>> \/ built' = Torn
    BY <2>1, <1>4, <1>5, Versions
  <2>2. CASE Activate_step /\ What = "prebuilt" /\ made' = {"prebuilt"}
    BY <2>2 DEF Made_whole, Installed
  <2>3. CASE made' = patched /\ (Build_step \/ (Activate_step /\ What # "prebuilt"))
    BY <2>3, <1>2, <1>3, <1>6 DEF Made_whole, Installed, config
  <2> QED
    BY <1>7, <2>1, <2>2, <2>3 DEF Build_step, Activate_step
<1>8. CASE Swap_step \/ Unpack_step
  <2>1. Patches_sources(n) /\ n.service = service
    BY DEF Stands, In_order, Is_at
  <2>2. Op_of(n) = "swap" => At(n, {"swap"})
    BY DEF At, Op_of, Stands, Is_at
  <2>3. Op_of(n) = "unpack" => At(n, {"unpack"})
    BY DEF At, Op_of, Stands, Is_at
  <2>4. ASSUME needs_patches
        PROVE  Unpack_step /\ What = "source"
    <3>1. Patches(service) # {}
      BY <2>4 DEF Stands, Typed
    <3> QED
      BY <1>8, <2>1, <2>2, <2>3, <3>1, At_facts
      DEF Patches_sources, Swap_step, Unpack_step, Op_is, What_of
  <2>5. CASE needs_patches
    <3>1. UNCHANGED <<built, made>>
      BY <2>4, <2>5 DEF Unpack_step, Unpack_this, Unpack_cached, Unpack_failed
    <3> QED
      BY <3>1, <1>4
  <2> QED
    BY <1>2, <2>5 DEF Made_whole, config
<1>9. CASE Clear_step \/ Tidy_step
  <2>1. UNCHANGED <<built, made>> \/ built' \in {Nothing, Half(built)}
    BY <1>9 DEF Clear_step, Tidy_step
  <2> QED
    BY <2>1, <1>4, <1>5, Versions, Halves
<1>10. CASE Refresh_step \/ Write_step
  <2>1. UNCHANGED <<built, made>> \/ built' \in {Torn, Half(built)}
    BY <1>10 DEF Refresh_step, Write_step, Runtime_only
  <2> QED
    BY <2>1, <1>4, <1>5, Versions, Halves
<1>11. CASE Choose \/ Call_step \/ Fail_step \/ Select_step \/ Resolve_step \/ Lookup_step
            \/ Head_step \/ Patch_step \/ Mark_step \/ Record_step
  BY <1>11, <1>4
  DEF Choose, Call_step, Fail_step, Select_step, Resolve_step, Lookup_step, Head_step, Patch_step,
      Mark_step, Record_step, Read_only, disk
<1> QED
  BY <1>7, <1>8, <1>9, <1>10, <1>11 DEF Steps

-----------------------------------------------------------------------------
(* The inductive invariant.                                                  *)

Mishap_sets == SUBSET {"fault", "kill"}

\* A setup under way is at a node, whatever is said to be possible to happen to it.
Followed(Nodes) ==
  phase \in Phases =>
    \A ms \in Mishap_sets : Mishaps \subseteq ms => \E n \in Nodes : Is_at(n, ms)

\* What is set aside is what the setup under way found.
Asides == aside # Nothing => phase # "idle" /\ Files_typed(aside) /\ Found_so(aside)
Restored == result = "restored" => phase = "idle" /\ Found_so(Installed)

\* What is installed between two setups, and what is set aside, agrees ...
Builds_in_time ==
  \/ service = "infinidysk" /\ kills = 0
  \/ service = "traefik_proxy_admin" /\ faults = 0 /\ kills = 0
Agreeing ==
  Builds_in_time =>
    (phase \notin Phases => Agrees(Installed)) /\ (aside # Nothing => Agrees(aside))
Dressing ==
  service = "traefik_proxy_admin" /\ faults = 0 /\ kills = 0 =>
    (phase \notin Phases => Dressed(Installed)) /\ (aside # Nothing => Dressed(aside))

\* ... or else was made with every patch.
Builds_whole ==
  service \in {"riven_backend", "riven_frontend"} \/ (service = "infinidysk" /\ faults = 0)
Making ==
  Builds_whole => Made_whole(Installed) /\ (aside # Nothing => Made_whole(aside))

IInv(Nodes) ==
  Typed /\ Followed(Nodes) /\ Asides /\ Restored /\ Agreeing /\ Dressing /\ Making

\* A setup under way stands at a node.
LEMMA Standing ==
  ASSUME NEW Nodes, Charted(Services, Nodes), IInv(Nodes), phase \in Phases, todo # <<>>,
         NEW ms \in Mishap_sets, Mishaps \subseteq ms
  PROVE  \E n \in Nodes : Stands(n, ms)
<1>1. PICK n \in Nodes : Is_at(n, ms)
  BY DEF IInv, Followed
<1> QED
  BY <1>1 DEF Charted, Stands, IInv

LEMMA Mishaps_remain ==
  ASSUME Typed, faults' \in {faults, faults + 1}, kills' \in {kills, kills + 1}
  PROVE  /\ Mishaps \subseteq Mishaps'
         /\ (faults' = 0 => faults = 0) /\ (kills' = 0 => kills = 0)
<1>1. faults \in Nat /\ kills \in Nat
  BY DEF Typed
<1>2. (faults > 0 => faults' > 0) /\ (kills > 0 => kills' > 0)
  BY <1>1
<1> QED
  BY <1>1, <1>2 DEF Mishaps

\* What the mishaps are when none of a kind has happened.
LEMMA Spared ==
  ASSUME Typed
  PROVE  /\ Mishaps \in Mishap_sets
         /\ Mishaps \subseteq {"fault", "kill"}
         /\ (kills = 0 => Mishaps \subseteq {"fault"})
         /\ (faults = 0 => Mishaps \subseteq {"kill"})
         /\ (faults = 0 /\ kills = 0 => Mishaps = {})
BY DEF Mishaps, Mishap_sets, Typed

LEMMA Steps_frame ==
  ASSUME Steps
  PROVE  /\ UNCHANGED <<config, result, before, kills>> /\ phase \in Phases /\ todo # <<>>
         /\ phase' \in {phase, "failing"} /\ faults' \in {faults, faults + 1}
<1>1. UNCHANGED <<config, result, before, kills>>
  BY DEF Steps, Choose, Call_step, Fail_step, Select_step, Resolve_step, Lookup_step, Head_step,
     Clear_step, Tidy_step, Unpack_step, Patch_step, Write_step, Build_step, Refresh_step,
     Activate_step, Swap_step, Mark_step, Record_step, Read_only, Runtime_only, Steady, ghosts
<1>2. phase \in Phases /\ todo # <<>>
  BY DEF Steps, Choose, Call_step, Fail_step, Select_step, Resolve_step, Lookup_step, Head_step,
     Clear_step, Tidy_step, Unpack_step, Patch_step, Write_step, Build_step, Refresh_step,
     Activate_step, Swap_step, Mark_step, Record_step, Op_is, Phases
<1>3. phase' \in {phase, "failing"}
  BY DEF Steps, Choose, Call_step, Fail_step, Select_step, Resolve_step, Lookup_step, Head_step,
     Clear_step, Tidy_step, Unpack_step, Unpack_cached, Unpack_failed, Patch_step, Write_step,
     Build_step, Refresh_step, Activate_step, Swap_step, Mark_step, Record_step, Proceed, Advance,
     Break, Stop, Choose_version
<1>4. faults' \in {faults, faults + 1}
  BY DEF Steps, Choose, Call_step, Fail_step, Select_step, Resolve_step, Lookup_step, Head_step,
     Clear_step, Tidy_step, Unpack_step, Unpack_cached, Unpack_failed, Patch_step, Write_step,
     Build_step, Refresh_step, Activate_step, Swap_step, Mark_step, Record_step, Proceed, Break,
     Fault
<1> QED
  BY <1>1, <1>2, <1>3, <1>4

\* Nothing about what was found, set aside or made changes with anything but them.
LEMMA Judged_alike ==
  ASSUME UNCHANGED <<config, before>>
  PROVE  /\ aside' = aside /\ Found_so(aside) => Found_so(aside)'
         /\ aside' = aside /\ Files_typed(aside) => Files_typed(aside)'
         /\ aside' = aside /\ Agrees(aside) => Agrees(aside)'
         /\ aside' = aside /\ Dressed(aside) => Dressed(aside)'
         /\ aside' = aside /\ Made_whole(aside) => Made_whole(aside)'
         /\ aside' = Installed /\ Found_so(Installed) => Found_so(aside)'
         /\ aside' = Installed /\ Files_typed(Installed) => Files_typed(aside)'
         /\ aside' = Installed /\ Agrees(Installed) => Agrees(aside)'
         /\ aside' = Installed /\ Dressed(Installed) => Dressed(aside)'
         /\ aside' = Installed /\ Made_whole(Installed) => Made_whole(aside)'
         /\ Installed' = aside /\ Files_typed(aside) => Files_typed(Installed)'
<1>1. UNCHANGED <<service, needs_patches>> /\ Patches(service)' = Patches(service)
  BY DEF config, Patches
<1> QED
  BY <1>1 DEF Found_so, Files_typed, Agrees, Dressed, Made_whole, Patched_whole, Environment_kept,
     Whole, Version, Content

LEMMA Steps_followed ==
  ASSUME NEW Nodes, Charted(Services, Nodes), IInv(Nodes), Steps
  PROVE  Followed(Nodes)' /\ Typed'
<1>1. Typed
  BY DEF IInv
<1>2. ASSUME NEW ms \in Mishap_sets, Mishaps \subseteq ms
      PROVE  \E n \in Nodes : Stands(n, ms)
  BY <1>2, Standing, Steps_frame
<1>3. Typed'
  BY <1>1, <1>2, Spared, Steps_typed
<1>4. ASSUME phase' \in Phases, NEW ms \in Mishap_sets, Mishaps' \subseteq ms
      PROVE  \E m \in Nodes : Is_at(m, ms)'
  <2>1. Mishaps \subseteq ms
    BY <1>1, <1>4, Steps_frame, Mishaps_remain
  <2>2. PICK n \in Nodes : Stands(n, ms)
    BY <1>2, <2>1
  <2>3. PICK m \in Following(n) : Is_at(m, ms)'
    BY <1>4, <2>2, Going_on
  <2> QED
    BY <2>2, <2>3 DEF Charted
<1> QED
  BY <1>3, <1>4 DEF Followed

LEMMA Steps_kept ==
  ASSUME NEW Nodes, Charted(Services, Nodes), IInv(Nodes), Steps
  PROVE  IInv(Nodes)'
<1>1. /\ Typed /\ UNCHANGED <<config, result, before, kills>> /\ phase \in Phases
      /\ phase' \in {phase, "failing"} /\ faults' \in {faults, faults + 1}
  BY Steps_frame DEF IInv
<1>2. ASSUME NEW ms \in Mishap_sets, Mishaps \subseteq ms
      PROVE  \E n \in Nodes : Stands(n, ms)
  BY <1>2, Standing, Steps_frame
<1>3. /\ faults \in Nat /\ kills \in Nat
      /\ (faults' = 0 => faults = 0) /\ (kills' = 0 => kills = 0)
      /\ service' = service
  BY <1>1, Mishaps_remain DEF Typed, config
<1>4. Asides'
  <2>1. PICK n \in Nodes : Stands(n, Mishaps)
    BY <1>1, <1>2, Spared
  <2>2. \/ aside' = aside
        \/ aside' = Installed /\ Found_so(Installed)
    BY <2>1, Setting_aside
  <2>3. Files_typed(Installed)
    BY <1>1 DEF Typed
  <2> QED
    BY <1>1, <2>2, <2>3, Judged_alike DEF Asides, IInv, Phases
<1>5. Restored'
  BY <1>1 DEF IInv, Restored, Phases
<1>6. Agreeing'
  <2>1. CASE service = "infinidysk" /\ kills = 0
    <3>1. PICK n \in Nodes : Stands(n, {"fault"})
      BY <1>1, <1>2, <2>1, Spared DEF Mishap_sets
    <3>2. phase' \notin Phases => Agrees(Installed)'
      BY <2>1, <3>1, Steps_agree
    <3>3. aside' # aside => aside' = Installed /\ Agrees(Installed)
      <4>1. At(n, {"clear"}) => "agrees" \in n.facts
        BY <2>1, <3>1 DEF Stands, In_order, Builds_again, At, Is_at
      <4> QED
        BY <3>1, <4>1, Setting_aside, At_facts
    <3>4. aside # Nothing => Agrees(aside)
      BY <2>1 DEF IInv, Agreeing, Builds_in_time
    <3> QED
      BY <1>1, <3>2, <3>3, <3>4, Judged_alike DEF Agreeing
  <2>2. CASE service = "traefik_proxy_admin" /\ faults' = 0 /\ kills = 0
    <3>1. PICK n \in Nodes : Stands(n, {})
      BY <1>1, <1>2, <1>3, <2>2, Spared DEF Mishap_sets
    <3>2. phase' \notin Phases => Agrees(Installed)'
      BY <2>2, <3>1, Failing_agrees
    <3>3. aside' # aside => aside' = Installed /\ Agrees(Installed)
      <4>1. At(n, {"clear"}) => "agrees" \in n.facts
        BY <2>2, <3>1 DEF Stands, In_order, Builds_again, At, Is_at
      <4> QED
        BY <3>1, <4>1, Setting_aside, At_facts
    <3>4. aside # Nothing => Agrees(aside)
      BY <1>3, <2>2 DEF IInv, Agreeing, Builds_in_time
    <3> QED
      BY <1>1, <3>2, <3>3, <3>4, Judged_alike DEF Agreeing
  <2> QED
    BY <1>1, <1>3, <2>1, <2>2 DEF Agreeing, Builds_in_time
<1>7. Dressing'
  <2>1. CASE service = "traefik_proxy_admin" /\ faults' = 0 /\ kills = 0
    <3>1. PICK n \in Nodes : Stands(n, {})
      BY <1>1, <1>2, <1>3, <2>1, Spared DEF Mishap_sets
    <3>2. phase' \notin Phases => Dressed(Installed)'
      BY <2>1, <3>1, Failing_agrees
    <3>3. aside' # aside => aside' = Installed /\ Dressed(Installed)
      <4>1. At(n, {"clear"}) => "dressed" \in n.facts \/ Patches(service) \subseteq n.facts
        BY <2>1, <3>1 DEF Stands, In_order, Builds_again, At, Is_at
      <4>2. Patches(service) \subseteq n.facts => Dressed(Installed)
        BY <3>1, Patched_names DEF Dressed, Patched_whole, Installed, Stands, Is_at
      <4> QED
        BY <3>1, <4>1, <4>2, Setting_aside, At_facts
    <3>4. aside # Nothing => Dressed(aside)
      BY <1>3, <2>1 DEF IInv, Dressing
    <3> QED
      BY <1>1, <3>2, <3>3, <3>4, Judged_alike DEF Dressing
  <2> QED
    BY <1>1, <1>3, <2>1 DEF Dressing
<1>8. Making'
  <2>1. CASE Builds_whole
    <3> DEFINE ms == IF service = "infinidysk" THEN {"kill"} ELSE {"fault", "kill"}
    <3>1. PICK n \in Nodes : Stands(n, ms)
      BY <1>1, <1>2, <2>1, Spared DEF Mishap_sets, Builds_whole
    <3>2. Made_whole(Installed) /\ (aside # Nothing => Made_whole(aside))
      BY <2>1 DEF IInv, Making
    <3>3. Made_whole(Installed)'
      BY <2>1, <3>1, <3>2, Steps_whole DEF Builds_whole
    <3>4. aside' # aside => aside' = Installed
      BY <3>1, Setting_aside
    <3> QED
      BY <1>1, <3>2, <3>3, <3>4, Judged_alike DEF Making
  <2> QED
    BY <1>3, <2>1 DEF Making, Builds_whole
<1> QED
  BY <1>4, <1>5, <1>6, <1>7, <1>8, Steps_followed DEF IInv

-----------------------------------------------------------------------------
(* The beginning of a setup, its end, and what happens around it.            *)

LEMMA Starting ==
  ASSUME NEW s \in Services, NEW m \in Modes(s), NEW ms \in Mishap_sets, NEW p \in Phases,
         NEW t \in {Setup_project_inner(s)} \cup (IF p = "configure" THEN {<<>>} ELSE {}),
         NEW c \in {{}, {"clears"}} \cup (IF p = "install" THEN {{"clears", "in scope"}} ELSE {})
  PROVE  [service |-> s, mode |-> m, mishaps |-> ms, phase |-> p, todo |-> t,
          facts |-> {"as before"} \cup Trusts(s, ms) \cup c] \in Starts(Services)
<1> DEFINE todos == {Setup_project_inner(s)} \cup (IF p = "configure" THEN {<<>>} ELSE {})
           facts(x) == {"as before"} \cup Trusts(s, ms) \cup x
           known == {{}, {"clears"}}
                    \cup (IF p = "install" THEN {{"clears", "in scope"}} ELSE {})
<1>1. facts(c) \in {facts(x) : x \in known}
  OBVIOUS
<1>2. t \in todos
  OBVIOUS
<1>3. Starts_of(s, ms, p) = [service : {s}, mode : Modes(s), mishaps : {ms}, phase : {p},
                             todo : todos, facts : {facts(x) : x \in known}]
  BY Zenon DEF Starts_of
<1> HIDE DEF facts, todos, known
<1>4. [service |-> s, mode |-> m, mishaps |-> ms, phase |-> p, todo |-> t, facts |-> facts(c)]
        \in Starts_of(s, ms, p)
  BY <1>1, <1>2, <1>3
<1> DEFINE at(a, x) == Starts_of(a, x, "install") \cup Starts_of(a, x, "configure")
           of(a) == UNION {at(a, x) : x \in SUBSET {"fault", "kill"}}
<1>5. Starts_of(s, ms, p) \subseteq at(s, ms)
  BY DEF Phases
<1>6. at(s, ms) \subseteq of(s)
  BY DEF Mishap_sets
<1>7. Starts(Services) = UNION {of(a) : a \in Services}
  BY DEF Starts
<1> HIDE DEF at, of
<1>8. of(s) \subseteq Starts(Services)
  BY <1>7
<1> QED
  BY <1>4, <1>5, <1>6, <1>8 DEF facts

LEMMA Ask_kept ==
  ASSUME NEW Nodes, Charted(Services, Nodes), IInv(Nodes),
         NEW e \in {"setup", "install", "configure"}, Ask(e)
  PROVE  IInv(Nodes)'
<1>1. /\ UNCHANGED <<config, disk, aside, faults, kills, pin, upstream, branch_state, cache, scarred>>
      /\ phase = "idle" /\ entry' = e /\ before' = Installed /\ result' = "none"
      /\ goal' = Nothing /\ setup_tracker' \in BOOLEAN
  BY DEF Ask, Begin, IInv, Typed
<1>2. /\ phase' \in Phases /\ (e # "configure" => phase' = "install")
      /\ todo' \in {Setup_project_inner(service)}
                   \cup (IF phase' = "configure" THEN {<<>>} ELSE {})
  BY DEF Ask, Begin, Program, Phases, IInv, Typed
<1>3. Typed
  BY DEF IInv
<1>4. Typed'
  <2>1. Files_typed(Installed)'
    BY <1>1, <1>3, Quiet_files
  <2> QED
    BY <1>1, <1>2, <1>3, <2>1 DEF Typed, config, Version
<1>5. Found_so(Installed)'
  BY <1>1 DEF Found_so, Installed, disk
<1>6. aside = Nothing
  BY <1>1 DEF IInv, Asides
<1>7. ASSUME NEW ms \in Mishap_sets, Mishaps' \subseteq ms
      PROVE  \E n \in Nodes : Is_at(n, ms)'
  <2> DEFINE c == IF In_scope' THEN {"clears", "in scope"}
                  ELSE IF clear_on_update THEN {"clears"} ELSE {}
  <2>1. In_scope' => clear_on_update /\ phase' = "install"
    BY <1>1, <1>2, <1>3 DEF In_scope, Typed, config
  <2>2. PICK n \in Nodes :
               /\ n.service = service /\ n.mode = mode /\ n.mishaps = ms
               /\ n.phase = phase' /\ n.todo = todo'
               /\ n.facts = {"as before"} \cup Trusts(service, ms) \cup c
    <3> DEFINE m == [service |-> service, mode |-> mode, mishaps |-> ms, phase |-> phase',
                     todo |-> todo', facts |-> {"as before"} \cup Trusts(service, ms) \cup c]
    <3>1. c \in {{}, {"clears"}} \cup (IF phase' = "install" THEN {{"clears", "in scope"}} ELSE {})
      BY <2>1
    <3>2. service \in Services /\ mode \in Modes(service)
      BY <1>3 DEF Typed
    <3> HIDE DEF c
    <3>3. m \in Starts(Services)
      BY <1>2, <1>7, <3>1, <3>2, Starting
    <3>4. m \in Nodes
      BY <3>3 DEF Charted
    <3> QED
      BY <3>4
  <2>3. Mishaps \subseteq ms
    BY <1>1, <1>7 DEF Mishaps
  <2>4. "agrees" \in Trusts(service, ms) => Agrees(Installed)
    <3>1. "kill" \notin ms => kills = 0
      BY <1>3, <2>3 DEF Mishaps, Typed
    <3>2. ms = {} => faults = 0 /\ kills = 0
      BY <1>3, <2>3 DEF Mishaps, Typed
    <3> QED
      BY <1>1, <3>1, <3>2 DEF Trusts, IInv, Agreeing, Builds_in_time, Phases
  <2>5. "dressed" \in Trusts(service, ms) => Dressed(Installed)
    <3>1. ms = {} => faults = 0 /\ kills = 0
      BY <1>3, <2>3 DEF Mishaps, Typed
    <3> QED
      BY <1>1, <3>1 DEF Trusts, IInv, Dressing, Phases
  <2>6. Agrees(Installed)' <=> Agrees(Installed)
    BY <1>1 DEF Agrees, Installed, Whole, Version, disk
  <2>7. Dressed(Installed)' <=> Dressed(Installed)
    <3>1. Patches(service)' = Patches(service)
      BY <1>1 DEF config, Patches
    <3> QED
      BY <1>1, <3>1 DEF Dressed, Patched_whole, Installed, disk, config
  <2>8. Trusts(service, ms) \subseteq {"agrees", "dressed"}
    BY DEF Trusts
  <2>9. n.facts \subseteq Fact_names /\ n.facts \cap {"aside", "source", "resolved", "prebuilt"} = {}
    BY <2>2, <2>8 DEF Fact_names
  <2>10. /\ "agrees" \in n.facts => "agrees" \in Trusts(service, ms)
         /\ "dressed" \in n.facts => "dressed" \in Trusts(service, ms)
         /\ "clears" \in n.facts => clear_on_update
         /\ "in scope" \in n.facts <=> In_scope'
    BY <2>1, <2>2, <2>8
  <2>11. Hold(n.facts)'
    BY <1>1, <1>5, <2>4, <2>5, <2>6, <2>7, <2>9, <2>10 DEF Hold, config
  <2>12. Is_at(n, ms)'
    BY <1>1, <2>2, <2>10, <2>11 DEF Is_at, config
  <2> QED
    BY <2>12
<1>8. Making'
  BY <1>1, <1>6, Files_kept_made DEF IInv, Making, Builds_whole, config
<1> QED
  BY <1>1, <1>2, <1>4, <1>6, <1>7, <1>8
  DEF IInv, Followed, Asides, Restored, Agreeing, Dressing

LEMMA Configuring_kept ==
  ASSUME NEW Nodes, Charted(Services, Nodes), IInv(Nodes), Then_configure
  PROVE  IInv(Nodes)'
<1>1. /\ UNCHANGED <<config, disk, aside, before, result, faults, kills, pin, upstream,
                     branch_state, cache, scarred, entry, setup_tracker>>
      /\ phase = "install" /\ todo = <<>> /\ phase' = "configure" /\ goal' = Nothing
      /\ todo' = Program[service]
  BY DEF Then_configure, Begin, Read_only, Steady
<1>2. Typed /\ todo' = Setup_project_inner(service)
  BY <1>1 DEF IInv, Program, Typed
<1>3. Typed'
  <2>1. Files_typed(Installed)'
    BY <1>1, <1>2, Quiet_files
  <2> QED
    BY <1>1, <1>2, <2>1 DEF Typed, config, Version, Phases
<1>4. ASSUME NEW ms \in Mishap_sets, Mishaps' \subseteq ms
      PROVE  \E n \in Nodes : Is_at(n, ms)'
  <2>1. Mishaps \subseteq ms
    BY <1>1, <1>4 DEF Mishaps
  <2>2. PICK n \in Nodes : Is_at(n, ms)
    BY <1>1, <2>1 DEF IInv, Followed, Phases
  <2> DEFINE m == Moved(n, "configure", Setup_project_inner(n.service), n.facts \ {"resolved"})
  <2>3. m \in Nodes
    <3>1. m \in Following(n)
      BY <1>1, <2>2 DEF Following, Is_at
    <3> QED
      BY <3>1 DEF Charted
  <2>4. Hold(n.facts \ {"resolved"})'
    <3> DEFINE F == n.facts \ {"resolved"}
    <3>1. Hold(n.facts)
      BY <2>2 DEF Is_at
    <3>2. Hold(F \cap {"clears", "in scope"})
      BY <3>1 DEF Hold, Fact_names
    <3>3. needs_patches => F \ Fact_names \subseteq patched'
      BY <1>1, <3>1 DEF Hold, Fact_names, disk
    <3>4. /\ "as before" \in F => Found_so(Installed)'
          /\ "agrees" \in F => Agrees(Installed)'
          /\ "dressed" \in F => Dressed(Installed)'
      BY <1>1, <3>1, Files_kept DEF Hold
    <3>5. /\ "aside" \in F => aside' # Nothing
          /\ "source" \in F => src' \in Version
          /\ "prebuilt" \in F => made' = {"prebuilt"} /\ built' \in Version
      BY <1>1, <3>1 DEF Hold, disk
    <3> QED
      BY <1>1, <3>2, <3>3, <3>4, <3>5, Holding
  <2>5. Is_at(m, ms)'
    <3>1. m.facts = n.facts \ {"resolved"} /\ m.service = n.service /\ m.mode = n.mode
          /\ m.mishaps = n.mishaps /\ m.phase = "configure"
          /\ m.todo = Setup_project_inner(n.service)
      BY DEF Moved
    <3>2. In_scope' => "in scope" \in m.facts
      BY <1>1, <2>2, <3>1 DEF Is_at, In_scope, config
    <3> QED
      BY <1>1, <1>2, <2>2, <2>4, <3>1, <3>2 DEF Is_at, config
  <2> QED
    BY <2>3, <2>5
<1>5. Asides' /\ Restored'
  BY <1>1, Judged_alike DEF IInv, Asides, Restored
<1>6. Agreeing' /\ Dressing'
  BY <1>1, Judged_alike DEF IInv, Agreeing, Dressing, Builds_in_time, Phases, config
<1>7. Making'
  BY <1>1, Judged_alike, Files_kept_made DEF IInv, Making, Builds_whole, config
<1> QED
  BY <1>3, <1>4, <1>5, <1>6, <1>7 DEF IInv, Followed

LEMMA Succeed_kept ==
  ASSUME NEW Nodes, Charted(Services, Nodes), IInv(Nodes), Succeed
  PROVE  IInv(Nodes)'
<1>1. /\ UNCHANGED <<config, disk, before, faults, kills, pin, upstream, branch_state, cache,
                     scarred, entry, goal>>
      /\ phase \in Phases /\ todo = <<>> /\ phase' = "idle" /\ result' = "ok"
      /\ aside' = Nothing /\ setup_tracker' = (setup_tracker \/ phase = "configure")
  BY DEF Succeed, Phases, ghosts, bounds
<1>2. Typed
  BY DEF IInv
<1>3. Typed'
  <2>1. Files_typed(Installed)'
    BY <1>1, <1>2, Quiet_files
  <2>2. setup_tracker' \in BOOLEAN
    BY <1>1
  <2> QED
    BY <1>1, <1>2, <2>1, <2>2 DEF Typed, config, Version
<1>4. ASSUME NEW ms \in Mishap_sets, Mishaps \subseteq ms
      PROVE  \E n \in Nodes : Is_at(n, ms) /\ n.todo = <<>> /\ Builds_again(n) /\ Hold(n.facts)
  <2>1. PICK n \in Nodes : Is_at(n, ms)
    BY <1>1, <1>4 DEF IInv, Followed
  <2> QED
    BY <1>1, <2>1 DEF Is_at, Charted, In_order
<1>5. Agreeing'
  <2>1. ASSUME Builds_in_time
        PROVE  Agrees(Installed)
    <3> DEFINE ms == IF service = "infinidysk" THEN {"fault"} ELSE {}
    <3>1. Mishaps \subseteq ms /\ ms \in Mishap_sets
      BY <1>2, <2>1, Spared DEF Builds_in_time, Mishap_sets
    <3>2. PICK n \in Nodes : Is_at(n, ms) /\ n.todo = <<>> /\ Builds_again(n) /\ Hold(n.facts)
      BY <1>4, <3>1
    <3>3. "agrees" \in n.facts
      <4>1. n.service = service /\ n.mishaps = ms /\ n.todo = <<>> /\ Builds_again(n)
        BY <3>2 DEF Is_at
      <4>2. CASE service = "infinidysk"
        BY <4>1, <4>2 DEF Builds_again, At
      <4>3. CASE service = "traefik_proxy_admin"
        BY <4>1, <4>3 DEF Builds_again
      <4> QED
        BY <2>1, <4>2, <4>3 DEF Builds_in_time
    <3> QED
      BY <3>2, <3>3 DEF Hold
  <2> QED
    BY <1>1, <2>1, Files_kept_agreed DEF Agreeing, Builds_in_time, config
<1>6. Dressing'
  <2>1. ASSUME service = "traefik_proxy_admin", faults = 0, kills = 0
        PROVE  Dressed(Installed)
    <3>1. PICK n \in Nodes : Is_at(n, {}) /\ n.todo = <<>> /\ Builds_again(n) /\ Hold(n.facts)
      BY <1>2, <1>4, <2>1, Spared DEF Mishap_sets
    <3>2. "dressed" \in n.facts \/ Patches(service) \subseteq n.facts
      BY <2>1, <3>1 DEF Builds_again, At, Is_at
    <3> QED
      BY <3>1, <3>2, Patched_names DEF Hold, Dressed, Patched_whole, Installed
  <2> QED
    BY <1>1, <2>1, Files_kept_agreed DEF Dressing, config
<1>7. Making'
  BY <1>1, Files_kept_made DEF IInv, Making, Builds_whole, config
<1> QED
  BY <1>1, <1>3, <1>5, <1>6, <1>7 DEF IInv, Followed, Asides, Restored, Phases

LEMMA Given_back ==
  ASSUME Typed, Asides, Give_up
  PROVE  /\ Files_typed(Installed)'
         /\ result' = "restored" => Found_so(Installed)'
<1>1. UNCHANGED <<config, before>>
  BY DEF Give_up
<1>2. CASE aside = Nothing
  BY <1>1, <1>2, Quiet_files DEF Give_up
<1>3. CASE aside # Nothing /\ Give_back
  <2>1. /\ aside.src \in Content /\ aside.built \in Content /\ aside.marker \in Markers
        /\ aside.patched \subseteq Patches(service) /\ aside.made \in Made_sets
        /\ ~needs_patches => aside.patched = {}
    BY <1>3 DEF Asides, Files_typed, Made_sets, Markers
  <2>2. Files_typed(Installed)'
    BY <1>1, <1>3, <2>1, Files_now, Files_next DEF Give_back
  <2>3. Found_so(aside)
    BY <1>3 DEF Asides
  <2>4. Found_so(Installed)'
    BY <1>1, <1>3, <2>3 DEF Found_so, Give_back, Installed, Environment_kept, config
  <2> QED
    BY <2>2, <2>4
<1>4. CASE aside # Nothing /\ Half_restored /\ result' = "restore failed"
  <2>1. /\ src' \in {Half(src), Torn} /\ built' \in {built, Half(built), Torn}
        /\ UNCHANGED <<marker, patched, made>>
    BY <1>4 DEF Half_restored
  <2>2. Files_typed(Installed)'
    BY <1>1, <2>1, Files_now, Files_next DEF Content, Markers, Made_sets, Version, config
  <2> QED
    BY <1>4, <2>2
<1> QED
  BY <1>2, <1>3, <1>4 DEF Give_up

LEMMA Give_up_kept ==
  ASSUME NEW Nodes, IInv(Nodes), Give_up
  PROVE  IInv(Nodes)'
<1>1. /\ UNCHANGED <<config, before, kills, pin, upstream, branch_state, cache, entry, goal,
                     setup_tracker>>
      /\ phase = "failing" /\ phase' = "idle" /\ aside' = Nothing
      /\ faults' \in {faults, faults + 1}
  BY DEF Give_up, Give_back, Fault
<1>2. Typed /\ Asides
  BY DEF IInv
<1>3. (faults' = 0 => faults = 0) /\ faults' \in Nat
  BY <1>1, <1>2, Mishaps_remain DEF Typed
<1>4. Typed'
  <2>1. Files_typed(Installed)'
    BY <1>2, Given_back
  <2>2. scarred' \in BOOLEAN
    BY <1>2 DEF Give_up, Scar, Typed
  <2> QED
    BY <1>1, <1>2, <1>3, <2>1, <2>2 DEF Typed, config, Version
<1>5. Restored'
  BY <1>1, <1>2, Given_back DEF Restored
<1>6. Agreeing'
  <2>1. ASSUME Builds_in_time
        PROVE  Agrees(Installed)'
    <3>1. Agrees(Installed) /\ (aside # Nothing => Agrees(aside))
      BY <1>1, <2>1 DEF IInv, Agreeing, Phases
    <3>2. CASE UNCHANGED disk
      BY <1>1, <3>1, <3>2, Files_kept_agreed
    <3>3. CASE aside # Nothing /\ Give_back
      <4>1. ~Environment_kept
        BY <2>1 DEF Builds_in_time, Environment_kept, Keeps_environment
      <4> QED
        BY <3>1, <3>3, <4>1 DEF Give_back, Agrees, Installed, Whole, Version
    <3>4. CASE Half_restored
      BY <3>4, Halves, Versions DEF Half_restored, Agrees, Installed, Whole, Half
    <3> QED
      BY <3>2, <3>3, <3>4 DEF Give_up
  <2> QED
    BY <1>1, <1>3, <2>1 DEF Agreeing, Builds_in_time, config
<1>7. Dressing'
  <2>1. ASSUME service = "traefik_proxy_admin", faults' = 0, kills = 0
        PROVE  Dressed(Installed)'
    <3>1. Dressed(Installed) /\ (aside # Nothing => Dressed(aside))
      BY <1>1, <1>3, <2>1 DEF IInv, Dressing, Phases
    <3>2. faults' # faults + 1
      BY <1>2, <2>1 DEF Typed
    <3>3. CASE UNCHANGED disk
      BY <1>1, <3>1, <3>3, Files_kept_agreed
    <3>4. CASE aside # Nothing /\ Give_back
      <4>1. Patches(service)' = Patches(service) /\ needs_patches' = needs_patches
        BY <1>1 DEF config, Patches
      <4> QED
        BY <3>1, <3>4, <4>1 DEF Give_back, Dressed, Patched_whole, Installed
    <3> QED
      BY <3>2, <3>3, <3>4 DEF Give_up, Fault
  <2> QED
    BY <1>1, <2>1 DEF Dressing, config
<1>8. Making'
  <2>1. ASSUME Builds_whole
        PROVE  Made_whole(Installed)'
    <3>1. Made_whole(Installed) /\ (aside # Nothing => Made_whole(aside))
      BY <2>1 DEF IInv, Making
    <3>2. Patches(service)' = Patches(service) /\ needs_patches' = needs_patches
      BY <1>1 DEF config, Patches
    <3>3. CASE UNCHANGED <<built, made>>
      BY <3>1, <3>2, <3>3 DEF Made_whole, Installed, Whole, Version
    <3>4. CASE aside # Nothing /\ built' = aside.built /\ made' = aside.made
      BY <3>1, <3>2, <3>4 DEF Made_whole, Installed, Whole, Version
    <3>5. CASE built' \in {Half(built), Torn}
      BY <3>5, Halves, Versions DEF Made_whole, Installed, Whole, Version
    <3> QED
      BY <3>3, <3>4, <3>5 DEF Give_up, Give_back, Half_restored, disk
  <2> QED
    BY <1>1, <1>3, <2>1 DEF Making, Builds_whole, config
<1> QED
  BY <1>1, <1>4, <1>5, <1>6, <1>7, <1>8 DEF IInv, Followed, Asides, Phases

\* A kill spoils what was being written, and leaves the rest.
LEMMA Killed_files ==
  ASSUME Half_done \/ UNCHANGED disk
  PROVE  /\ src' \in {src, Half(src), Torn} /\ built' \in {built, Half(built), Torn, Nothing}
         /\ UNCHANGED <<marker, made>> /\ patched' \in {patched, {}}
<1>1. CASE UNCHANGED disk
  BY <1>1 DEF disk
<1>2. CASE Half_done
  <2>1. CASE phase = "failing" /\ aside # Nothing
    BY <1>2, <2>1 DEF Half_done, Half_restored, Op_is
  <2>2. CASE ~(phase = "failing" /\ aside # Nothing)
    BY <1>2, <2>2 DEF Half_done, Op_is, Unpack_this, disk
  <2> QED
    BY <2>1, <2>2
<1> QED
  BY <1>1, <1>2

LEMMA Kill_kept ==
  ASSUME NEW Nodes, IInv(Nodes), Kill
  PROVE  IInv(Nodes)'
<1>1. /\ UNCHANGED <<config, before, faults, pin, upstream, branch_state, cache, entry, goal>>
      /\ phase' = "idle" /\ aside' = Nothing /\ kills' = kills + 1 /\ result' = "killed"
      /\ setup_tracker' = FALSE
  BY DEF Kill
<1>2. Typed
  BY DEF IInv
<1>3. /\ src' \in {src, Half(src), Torn} /\ built' \in {built, Half(built), Torn, Nothing}
      /\ UNCHANGED <<marker, made>> /\ patched' \in {patched, {}}
  BY Killed_files DEF Kill
<1>4. kills' # 0 /\ kills' \in Nat
  BY <1>1, <1>2 DEF Typed
<1>5. Typed'
  <2>1. Files_typed(Installed)'
    BY <1>1, <1>2, <1>3, Files_now, Files_next DEF Content, Markers, Made_sets, Version, config
  <2>2. scarred' \in BOOLEAN
    BY <1>2 DEF Kill, Scar, Typed
  <2> QED
    BY <1>1, <1>2, <1>4, <2>1, <2>2 DEF Typed, config, Version
<1>6. Making'
  <2>1. ASSUME Builds_whole
        PROVE  Made_whole(Installed)'
    <3>1. Made_whole(Installed)
      BY <2>1 DEF IInv, Making
    <3>2. Patches(service)' = Patches(service) /\ needs_patches' = needs_patches
      BY <1>1 DEF config, Patches
    <3> QED
      BY <1>3, <3>1, <3>2, Halves, Versions DEF Made_whole, Installed, Whole, Version
  <2> QED
    BY <1>1, <2>1 DEF Making, Builds_whole, config
<1> QED
  BY <1>1, <1>4, <1>5, <1>6
  DEF IInv, Followed, Asides, Restored, Agreeing, Dressing, Builds_in_time, Phases

\* What upstream publishes, and the version asked for, are no part of it.
LEMMA Around_kept ==
  ASSUME NEW Nodes, IInv(Nodes), Publish \/ Repin \/ UNCHANGED vars
  PROVE  IInv(Nodes)'
<1>1. UNCHANGED <<config, run, setup_tracker, disk, branch_state, cache, aside, result, before,
                  scarred, faults, kills>>
  BY DEF Publish, Repin, vars, ghosts, bounds
<1>2. UNCHANGED <<service, mode, clear_on_update, install_cache, needs_patches, phase, todo, entry,
                  goal>>
  BY <1>1 DEF config, run
<1>3. Typed'
  <2>1. upstream' \in Version
    BY SetupAssumption DEF IInv, Typed, Publish, Repin, vars, Version
  <2>2. pin' \in Version \cup {Channel}
    BY SetupAssumption DEF IInv, Typed, Publish, Repin, vars, Version
  <2>3. Files_typed(Installed)'
    BY <1>1, Quiet_files DEF IInv
  <2> QED
    BY <1>1, <1>2, <2>1, <2>2, <2>3 DEF IInv, Typed, config, Version
<1>4. Followed(Nodes)'
  <2>1. \A ms \in Mishap_sets : Mishaps' \subseteq ms => Mishaps \subseteq ms
    BY <1>1 DEF Mishaps
  <2>2. ASSUME NEW n, NEW ms, Is_at(n, ms)
        PROVE  Is_at(n, ms)'
    <3>1. Hold(n.facts)'
      BY <1>1, <1>2, <2>2, Same_facts DEF Is_at, config
    <3> QED
      BY <1>1, <1>2, <2>2, <3>1 DEF Is_at, In_scope
  <2> QED
    BY <1>2, <2>1, <2>2 DEF IInv, Followed
<1>5. Asides' /\ Restored'
  <2>1. Found_so(Installed)' <=> Found_so(Installed)
    BY <1>1, <1>2 DEF Found_so, Installed, Environment_kept, disk
  <2> QED
    BY <1>1, <1>2, <2>1, Judged_alike DEF IInv, Asides, Restored
<1>6. Agreeing' /\ Dressing' /\ Making'
  BY <1>1, <1>2, Judged_alike, Files_kept_agreed, Files_kept_made
  DEF IInv, Agreeing, Dressing, Making, Builds_in_time, Builds_whole
<1> QED
  BY <1>3, <1>4, <1>5, <1>6 DEF IInv

-----------------------------------------------------------------------------
(* The theorems.                                                             *)

LEMMA Initially ==
  ASSUME NEW Nodes, Init
  PROVE  IInv(Nodes)
<1>1. Typed
  <2>1. 1 \in Version
    BY SetupAssumption DEF Version
  <2>2. Files_typed(Installed)
    BY DEF Init, Installed, Files_typed, Content
  <2> QED
    BY <2>1, <2>2 DEF Init, Typed
<1>2. Agrees(Installed) /\ Dressed(Installed) /\ Made_whole(Installed)
  BY Versions DEF Init, Agrees, Dressed, Made_whole, Installed, Whole
<1> QED
  BY <1>1, <1>2
  DEF Init, IInv, Followed, Asides, Restored, Agreeing, Dressing, Making, Phases

LEMMA Inductive ==
  ASSUME NEW Nodes, Charted(Services, Nodes), IInv(Nodes), [Next]_vars
  PROVE  IInv(Nodes)'
BY Steps_kept, Ask_kept, Configuring_kept, Succeed_kept, Give_up_kept, Kill_kept, Around_kept
DEF Next, Steps

\* The charts of the services, one by one, make up a chart of all of them, which
\* is what the theorems ask for.
LEMMA Charts_together ==
  ASSUME NEW Nodes, \A s \in Services : Charted({s}, Nodes[s])
  PROVE  Charted(Services, UNION {Nodes[s] : s \in Services})
<1> DEFINE starts(s) ==
             UNION {Starts_of(s, ms, "install") \cup Starts_of(s, ms, "configure")
                    : ms \in SUBSET {"fault", "kill"}}
           all == UNION {Nodes[s] : s \in Services}
<1>1. \A S : Starts(S) = UNION {starts(s) : s \in S}
  BY DEF Starts
<1> HIDE DEF starts
<1>2. \A s \in Services : starts(s) \subseteq Nodes[s]
  BY <1>1 DEF Charted
<1>3. Starts(Services) \subseteq all
  BY <1>1, <1>2
<1>4. ASSUME NEW n \in all
      PROVE  Following(n) \subseteq all /\ In_order(n)
  <2>1. PICK s \in Services : n \in Nodes[s]
    OBVIOUS
  <2> QED
    BY <2>1 DEF Charted
<1> QED
  BY <1>3, <1>4 DEF Charted

\* Every state of every setup is one the inductive invariant describes: a setup
\* under way is at a node of the chart of its service's program, with the facts of
\* that node; what it set aside is what it found (clear_directory).
THEOREM Invariance ==
  ASSUME NEW CONSTANT Nodes, Charted(Services, Nodes)
  PROVE  Spec => []IInv(Nodes)
<1>1. Init => IInv(Nodes)
  BY Initially
<1>2. IInv(Nodes) /\ [Next]_vars => IInv(Nodes)'
  BY Inductive
<1> QED
  BY <1>1, <1>2, PTL DEF Spec

\* The configuration, the files and the records of a setup have their types: what is
\* moved into place is a version that was looked up, never the word "latest"
\* (setup_mediastorm, _install_nzbdav_prebuilt_release).
THEOREM Typing ==
  ASSUME NEW CONSTANT Nodes, Charted(Services, Nodes)
  PROVE  Spec => []TypeOK
<1>1. IInv(Nodes) => TypeOK
  BY DEF IInv, Typed, TypeOK, Files_typed, Installed, Phases
<1> QED
  BY <1>1, Invariance, PTL

\* A setup that failed and put back what it had cleared left the files as they were
\* (_finish_deferred_clears), whatever it did in between and however often it cleared.
THEOREM Restoring ==
  ASSUME NEW CONSTANT Nodes, Charted(Services, Nodes)
  PROVE  Spec => []RestoredIsBefore
<1>1. IInv(Nodes) => RestoredIsBefore
  BY DEF IInv, Restored, RestoredIsBefore, Found_so, Installed
<1> QED
  BY <1>1, Invariance, PTL

\* A setup that succeeds leaves no runtime made of sources that were patched since
\* (_setup_nzbdav_build, setup_traefik_proxy_admin and the installers of Riven).
LEMMA Built_as_patched ==
  ASSUME NEW Nodes, Charted(Services, Nodes), IInv(Nodes)
  PROVE  PatchesAreBuilt
<1> SUFFICES ASSUME Succeeding, made # {"prebuilt"}, Whole(built), built = src,
                    faults + kills > 0 => service # "traefik_proxy_admin",
                    faults > 0 /\ kills > 0 => service # "infinidysk"
             PROVE  patched \subseteq made
  BY DEF PatchesAreBuilt
<1>1. Typed /\ phase \in Phases /\ todo = <<>> /\ faults \in Nat /\ kills \in Nat
  BY DEF IInv, Succeeding, Phases, Typed
<1>2. patched \subseteq Patches(service) /\ (~needs_patches => patched = {})
  BY <1>1, Files_now
<1>3. Agrees(Installed) => patched \subseteq made
  BY DEF Agrees, Installed
<1>4. Made_whole(Installed) => patched \subseteq made
  BY <1>2 DEF Made_whole, Installed
<1>5. ASSUME NEW ms \in Mishap_sets, Mishaps \subseteq ms
      PROVE  \E n \in Nodes : Is_at(n, ms) /\ n.todo = <<>> /\ Builds_again(n) /\ Hold(n.facts)
  <2>1. PICK n \in Nodes : Is_at(n, ms)
    BY <1>1, <1>5 DEF IInv, Followed
  <2> QED
    BY <1>1, <2>1 DEF Is_at, Charted, In_order
<1>6. CASE service \in {"riven_backend", "riven_frontend"}
  BY <1>4, <1>6 DEF IInv, Making, Builds_whole
<1>7. CASE service = "infinidysk"
  <2>1. CASE faults = 0
    BY <1>4, <1>7, <2>1 DEF IInv, Making, Builds_whole
  <2>2. CASE kills = 0
    <3>1. PICK n \in Nodes : /\ Is_at(n, {"fault"}) /\ n.todo = <<>>
                             /\ Builds_again(n) /\ Hold(n.facts)
      BY <1>1, <1>5, <2>2, Spared DEF Mishap_sets
    <3>2. "agrees" \in n.facts
      BY <1>7, <3>1 DEF Builds_again, At, Is_at
    <3> QED
      BY <1>3, <3>1, <3>2 DEF Hold
  <2> QED
    BY <1>1, <1>7, <2>1, <2>2
<1>8. CASE service = "traefik_proxy_admin"
  <2>1. PICK n \in Nodes : Is_at(n, {}) /\ n.todo = <<>> /\ Builds_again(n) /\ Hold(n.facts)
    <3>1. faults = 0 /\ kills = 0
      BY <1>1, <1>8
    <3> QED
      BY <1>1, <1>5, <3>1, Spared DEF Mishap_sets
  <2>2. "agrees" \in n.facts
    BY <1>8, <2>1 DEF Builds_again, Is_at
  <2> QED
    BY <1>3, <2>1, <2>2 DEF Hold
<1>9. CASE service \notin {"riven_backend", "riven_frontend", "infinidysk", "traefik_proxy_admin"}
  BY <1>2, <1>9 DEF Patches
<1> QED
  BY <1>6, <1>7, <1>8, <1>9

THEOREM Building ==
  ASSUME NEW CONSTANT Nodes, Charted(Services, Nodes)
  PROVE  Spec => []PatchesAreBuilt
<1>1. IInv(Nodes) => PatchesAreBuilt
  BY Built_as_patched
<1> QED
  BY <1>1, Invariance, PTL

-----------------------------------------------------------------------------
(* What can be seen of a setup with a version pinned.                        *)

Expected ==
  clear_on_update /\ install_cache /\ mode \in Pin_modes /\ ~auto_update /\ Recovers

\* The hypotheses of the lemmas that follow: a setup as it looks to somebody who
\* knows version V, and one that is about to take a step.
Looking(n, V) == Typed /\ Asides /\ Expected /\ V \in Version /\ n = Sight(V)
Running(n, V) == Looking(n, V) /\ phase \in Phases /\ todo # <<>>

Contents == Version \cup {Nothing, Torn, Channel}

LEMMA Looks ==
  ASSUME NEW V \in Version, NEW c \in Contents
  PROVE  /\ As(c, V) \in Versions_seen <=> c \in Version
         /\ As(c, V) = "it" <=> c = V
         /\ As(c, V) = "torn" <=> c = Torn
         /\ As(c, V) = "channel" <=> c = Channel
         /\ As(c, V) = "none" <=> c = Nothing
         /\ As(c, V) \in Versions_seen \cup {"torn", "channel", "none"}
<1>1. CASE c = V
  BY <1>1, Versions DEF As, Versions_seen
<1>2. CASE c \in Version \ {V}
  BY <1>2, Versions DEF As, Versions_seen
<1>3. CASE c = Torn
  BY <1>3, Versions, SetupAssumption DEF As, Versions_seen
<1>4. CASE c = Channel
  BY <1>4, Versions, SetupAssumption DEF As, Versions_seen
<1>5. CASE c = Nothing
  BY <1>5, Versions, SetupAssumption DEF As, Versions_seen
<1> QED
  BY <1>1, <1>2, <1>3, <1>4, <1>5 DEF Contents

LEMMA Same_looks ==
  ASSUME NEW V \in Version, NEW a \in Contents, NEW b \in Contents
  PROVE  (a = b) \in Same(As(a, V), As(b, V))
<1>1. CASE As(a, V) # As(b, V)
  <2>1. (a = b) = FALSE
    BY <1>1
  <2> QED
    BY <1>1, <2>1 DEF Same
<1>2. CASE As(a, V) = As(b, V) /\ As(a, V) = "other"
  BY <1>2 DEF Same
<1>3. CASE As(a, V) = As(b, V) /\ As(a, V) # "other"
  <2>1. (a = b) = TRUE
    BY <1>3, Looks DEF Versions_seen
  <2> QED
    BY <1>3, <2>1 DEF Same
<1> QED
  BY <1>1, <1>2, <1>3

LEMMA Found_looks ==
  ASSUME NEW V \in Version, NEW c \in Contents
  PROVE  Found(c) = There(As(c, V))
<1>1. CASE c = Torn
  BY <1>1, Looks DEF Found, There
<1>2. CASE c = Nothing
  BY <1>2, Looks, SetupAssumption DEF Found, There
<1>3. CASE c # Torn /\ c # Nothing
  BY <1>3, Looks DEF Found, There
<1> QED
  BY <1>1, <1>2, <1>3

LEMMA Contents_now ==
  ASSUME Typed
  PROVE  /\ {src, built, marker, pin, goal, branch_state, cache, upstream} \subseteq Contents
         /\ Torn \notin {marker, pin, goal, branch_state}
BY Files_now, Versions, SetupAssumption DEF Typed, Contents, Content, Markers

LEMMA Seen_fields ==
  ASSUME NEW V, NEW n, Looking(n, V)
  PROVE  /\ n.service = service /\ n.mode = mode /\ n.phase = phase /\ n.todo = todo
         /\ n.pin = As(pin, V) /\ n.recorded = As(branch_state, V)
         /\ n.files = Files_as(Installed, V) /\ n.aside = Aside_as(V)
         /\ n.files.src = As(src, V) /\ n.files.built = As(built, V)
         /\ n.files.marker = As(marker, V)
         /\ n.files.prebuilt = (made = {"prebuilt"})
         /\ phase \in Phases => n.goal = As(goal, V)
         /\ n.scoped = (phase \in Phases => entry # "configure")
<1>1. In_scope = (entry # "configure")
  BY DEF Looking, Expected, In_scope, Typed
<1> QED
  BY <1>1 DEF Looking, Sight, Files_as, Installed

\* What may be answered is what can be seen.
LEMMA Reporting ==
  ASSUME NEW V, NEW n, Looking(n, V)
  PROVE  Reported \in Contents /\ Report_seen(n) = As(Reported, V)
<1>1. n.service = service
  BY Seen_fields
<1> QED
  BY <1>1, Seen_fields, Contents_now DEF Looking, Reported, Report_seen

LEMMA Reports_looks ==
  ASSUME NEW V, NEW n, Looking(n, V), NEW v \in Contents
  PROVE  Reports(v) \subseteq Reports_seen(n, As(v, V))
<1>1. Reported \in Contents /\ Report_seen(n) = As(Reported, V) /\ V \in Version
  BY Reporting DEF Looking
<1>2. CASE Reported = Torn
  BY <1>1, <1>2, Looks DEF Reports, Reports_seen
<1>3. CASE Reported # Torn
  <2>1. Reports(v) = {Reported = v}
    BY <1>3 DEF Reports
  <2>2. Reports_seen(n, As(v, V)) = Same(As(Reported, V), As(v, V))
    BY <1>1, <1>3, Looks DEF Reports_seen
  <2> QED
    BY <1>1, <2>1, <2>2, Same_looks
<1> QED
  BY <1>2, <1>3

LEMMA Both_hold ==
  ASSUME NEW S, NEW T, NEW a \in S, NEW b \in T, a \in BOOLEAN, b \in BOOLEAN
  PROVE  (a /\ b) \in Both(S, T)
<1>1. CASE a = TRUE /\ b = TRUE
  BY <1>1 DEF Both
<1>2. CASE a = FALSE
  BY <1>2 DEF Both
<1>3. CASE b = FALSE
  BY <1>3 DEF Both
<1> QED
  BY <1>1, <1>2, <1>3

LEMMA Unchanged_looks ==
  ASSUME NEW V, NEW n, Running(n, V), mode = "commit"
  PROVE  Unchanged_commit \subseteq Unchanged_seen(n)
<1> DEFINE Marked == service \in {"infinidysk", "decypharr", "maintainerr"} => marker # Nothing
           Written == mode = "commit" => service \notin Unwritable /\ marker = goal
<1>1. /\ n.service = service /\ n.recorded = As(branch_state, V) /\ n.goal = As(goal, V)
      /\ n.files.src = As(src, V) /\ n.files.built = As(built, V)
      /\ n.files.marker = As(marker, V) /\ V \in Version
  BY Seen_fields DEF Running, Looking
<1>2. {src, built, marker, pin, goal, branch_state, cache, upstream} \subseteq Contents
  BY Contents_now DEF Running, Looking
<1>3. Has_branch_runtime_artifacts = Artifacts_seen(n)
  BY <1>1, <1>2, Found_looks DEF Has_branch_runtime_artifacts, Artifacts_seen
<1>4. SUFFICES ASSUME NEW there \in Artifacts_seen(n)
               PROVE  (there /\ goal \in Version /\ branch_state = goal /\ Marked /\ Written)
                        \in Unchanged_seen(n)
  <2>1. ASSUME NEW x \in Unchanged_commit
        PROVE  \E there \in Artifacts_seen(n) :
                 x = (there /\ goal \in Version /\ branch_state = goal /\ Marked /\ Written)
    BY <1>3, <2>1 DEF Unchanged_commit
  <2> QED
    BY <2>1
<1>5. there \in BOOLEAN
  BY <1>4 DEF There, Artifacts_seen
<1>6. (goal \in Version) = (n.goal \in Versions_seen)
  BY <1>1, <1>2, Looks
<1>7. (branch_state = goal) \in Same(n.recorded, n.goal)
      /\ (marker = goal) \in Same(n.files.marker, n.goal)
  BY <1>1, <1>2, Same_looks
<1>8. (there /\ goal \in Version /\ branch_state = goal /\ Marked /\ Written)
        = ((goal \in Version /\ service \notin Unwritable)
            /\ (((branch_state = goal) /\ (marker = goal)) /\ there))
  BY <1>5, Versions
<1>9. (goal \in Version /\ service \notin Unwritable)
        = (n.goal \in Versions_seen /\ n.service \notin Unwritable)
  BY <1>1, <1>6
<1>10. ((branch_state = goal) /\ (marker = goal))
         \in Both(Same(n.recorded, n.goal), Same(n.files.marker, n.goal))
  BY <1>7, Both_hold
<1>11. (((branch_state = goal) /\ (marker = goal)) /\ there)
         \in Both(Both(Same(n.recorded, n.goal), Same(n.files.marker, n.goal)), Artifacts_seen(n))
  BY <1>4, <1>5, <1>10, Both_hold
<1>12. ((n.goal \in Versions_seen /\ n.service \notin Unwritable)
         /\ (((branch_state = goal) /\ (marker = goal)) /\ there)) \in Unchanged_seen(n)
  BY <1>5, <1>11, Both_hold, Zenon DEF Unchanged_seen
<1> QED
  BY <1>8, <1>9, <1>12

LEMMA Answers_look ==
  ASSUME NEW V, NEW n, Running(n, V), NEW c \in Tests
  PROVE  Answers(c) \subseteq Answers_seen(n, c)
<1> DEFINE Same_fields ==
      /\ n.service = service /\ n.mode = mode /\ n.phase = phase
      /\ n.pin = As(pin, V) /\ n.recorded = As(branch_state, V) /\ n.goal = As(goal, V)
      /\ n.files.src = As(src, V) /\ n.files.built = As(built, V)
      /\ n.files.marker = As(marker, V) /\ n.files.prebuilt = (made = {"prebuilt"})
<1>1. Same_fields /\ Looking(n, V) /\ V \in Version
  BY Seen_fields DEF Running, Looking
<1>2. Asked = pin /\ mode \in Pin_modes /\ clear_on_update = TRUE
  BY DEF Running, Looking, Expected, Asked, Pin_modes, Typed
<1>3. {src, built, marker, pin, goal, branch_state, cache, upstream} \subseteq Contents
  BY Contents_now DEF Running, Looking
<1>4. CASE c \in Phases
  <2>1. Answers(c) = {phase = c}
    BY <1>4, Zenon DEF Answers, Phases
  <2>2. Answers_seen(n, c) = {n.phase = c}
    BY <1>4, Zenon DEF Answers_seen, Phases
  <2> QED
    BY <1>1, <2>1, <2>2
<1>5. CASE c \in {"none", "release", "branch", "commit"}
  <2>1. Answers(c) = {mode = c}
    BY <1>5, Zenon DEF Answers
  <2>2. Answers_seen(n, c) = {n.mode = c}
    BY <1>5, Zenon DEF Answers_seen, Phases
  <2> QED
    BY <1>1, <2>1, <2>2
<1>6. CASE c = "clears"
  BY <1>2, <1>6, Zenon DEF Answers, Answers_seen, Phases
<1>23. CASE c = "source build"
  BY <1>1, <1>23, Zenon DEF Answers, Answers_seen, Phases
<1>24. CASE c = "wanted"
  <2>1. Release_wanted = TRUE
    BY DEF Running, Looking, Expected, Release_wanted
  <2>2. Answers_seen(n, c) = {TRUE}
    BY <1>24, Zenon DEF Answers_seen, Phases
  <2>3. Answers(c) = {Release_wanted}
    BY <1>24, Zenon DEF Answers, Phases
  <2> QED
    BY <2>1, <2>2, <2>3
<1>7. CASE c = "latest"
  BY <1>1, <1>2, <1>3, <1>7, Looks DEF Answers, Answers_seen, Phases
<1>8. CASE c = "named"
  BY <1>1, <1>2, <1>3, <1>8, Looks DEF Answers, Answers_seen, Phases
<1>9. CASE c = "resolved"
  BY <1>1, <1>2, <1>3, <1>9, Looks DEF Answers, Answers_seen, Phases, Resolved
<1>10. CASE c = "present"
  BY <1>1, <1>3, <1>10, Found_looks DEF Answers, Answers_seen, Phases
<1>11. CASE c = "source"
  BY <1>1, <1>3, <1>11, Found_looks DEF Answers, Answers_seen, Phases
<1>12. CASE c = "source whole"
  <2>1. Whole(src) = (n.files.src \in Versions_seen)
    BY <1>1, <1>3, Looks DEF Whole
  <2> QED
    BY <1>12, <2>1, Zenon DEF Answers, Answers_seen, Phases
<1>13. CASE c = "prebuilt"
  <2>1. Found(built) = There(n.files.built)
    BY <1>1, <1>3, Found_looks
  <2> QED
    <3>1. Answers_seen(n, c) = Both({n.files.prebuilt}, There(n.files.built))
      BY <1>13, Zenon DEF Answers_seen, Phases
    <3>2. Answers(c) = {made = {"prebuilt"} /\ there : there \in There(n.files.built)}
      BY <1>13, <2>1, Zenon DEF Answers, Phases, Nzbdav_prebuilt_runtime_ready
    <3>3. ASSUME NEW there \in There(n.files.built)
          PROVE  (made = {"prebuilt"} /\ there) \in Answers_seen(n, c)
      <4> DEFINE fetched == made = {"prebuilt"}
                 S == {n.files.prebuilt}
                 T == There(n.files.built)
      <4>1. there \in BOOLEAN /\ there \in T
        BY <3>3 DEF There
      <4>2. fetched \in S /\ fetched \in BOOLEAN
        BY <1>1
      <4>3. (fetched /\ there) \in Both(S, T)
        <5> HIDE DEF fetched, S, T
        <5> QED
          BY <4>1, <4>2, Both_hold
      <4> QED
        BY <3>1, <4>3
    <3> QED
      BY <3>2, <3>3
<1>14. CASE c = "selected"
  <2> DEFINE found == IF n.pin = "channel" THEN {TRUE} ELSE Same(n.pin, n.files.built)
  <2>1. Whole(built) = (n.files.built \in Versions_seen)
    BY <1>1, <1>3, Looks DEF Whole
  <2>2. (Asked \in {built, Channel}) \in found
    <3>1. CASE pin = Channel
      BY <1>1, <1>2, <1>3, <3>1, Looks
    <3>2. CASE pin # Channel
      <4>1. n.pin # "channel" /\ (pin = built) \in Same(n.pin, n.files.built)
        BY <1>1, <1>3, <3>2, Looks, Same_looks
      <4>2. (Asked \in {built, Channel}) = (pin = built)
        BY <1>2, <3>2
      <4> QED
        BY <4>1, <4>2
    <3> QED
      BY <3>1, <3>2
  <2>3. (Whole(built) /\ Asked \in {built, Channel}) \in Both({n.files.built \in Versions_seen}, found)
    <3>1. (Asked \in {built, Channel}) \in BOOLEAN /\ Whole(built) \in BOOLEAN
      BY DEF Whole
    <3>2. Whole(built) \in {n.files.built \in Versions_seen}
      BY <2>1
    <3> HIDE DEF found
    <3> QED
      BY <2>2, <3>1, <3>2, Both_hold
  <2> QED
    BY <1>14, <2>3 DEF Answers, Answers_seen, Phases
<1>15. CASE c = "newest"
  <2>1. Reports(upstream) \subseteq Reports_seen(n, As(upstream, V))
    BY <1>1, <1>3, Reports_looks
  <2>2. As(upstream, V) \in Versions_seen
    BY <1>1, <1>3, Looks DEF Looking, Typed
  <2> QED
    BY <1>15, <2>1, <2>2 DEF Answers, Answers_seen, Phases
<1>16. CASE c = "matches"
  <2>1. Reports(Asked) \subseteq Reports_seen(n, n.pin)
    BY <1>1, <1>2, <1>3, Reports_looks
  <2> QED
    BY <1>16, <2>1 DEF Answers, Answers_seen, Phases
<1>17. CASE c = "outdated"
  <2>1. Reports(goal) \subseteq Reports_seen(n, n.goal)
    BY <1>1, <1>3, Reports_looks
  <2> QED
    BY <1>17, <2>1 DEF Answers, Answers_seen, Phases
<1>18. CASE c = "marked"
  <2>1. Found(Reported) = There(Report_seen(n))
    BY <1>1, Reporting, Found_looks
  <2> QED
    BY <1>18, <2>1 DEF Answers, Answers_seen, Phases
<1>19. CASE c = "unmarked"
  BY <1>1, <1>3, <1>19, Looks DEF Answers, Answers_seen, Phases
<1>20. CASE c = "keeps channel"
  <2>1. Answers(c) \subseteq BOOLEAN
    BY <1>1, Answers_are_Boolean DEF Looking
  <2>2. pin # Channel => Answers(c) = {FALSE}
    BY <1>20, Zenon DEF Answers, Phases
  <2>3. Answers_seen(n, c) = IF n.pin = "channel" THEN BOOLEAN ELSE {FALSE}
    BY <1>20, Zenon DEF Answers_seen, Phases
  <2> QED
    BY <1>1, <1>3, <2>1, <2>2, <2>3, Looks
<1>21. CASE c = "unchanged"
  <2>1. CASE mode = "commit"
    BY <1>1, <1>21, <2>1, Unchanged_looks DEF Answers, Answers_seen, Phases, Running
  <2>2. CASE mode # "commit"
    BY <1>1, <1>21, <2>2, Answers_are_Boolean DEF Answers_seen, Phases, Looking
  <2> QED
    BY <2>1, <2>2
<1>22. CASE c \in {"option", "comparable", "unpatched"}
  <2>1. Answers_seen(n, c) = BOOLEAN
    BY <1>22, Zenon DEF Answers_seen, Phases
  <2> QED
    BY <1>1, <2>1, Answers_are_Boolean DEF Looking
<1> QED
  BY <1>4, <1>5, <1>6, <1>7, <1>8, <1>9, <1>10, <1>11, <1>12, <1>13, <1>14, <1>15, <1>16,
     <1>17, <1>18, <1>19, <1>20, <1>21, <1>22, <1>23, <1>24, Zenon DEF Tests

-----------------------------------------------------------------------------
(* A step leads to a sight that follows.                                     *)

Now(V) ==
  [goal |-> As(goal, V), recorded |-> As(branch_state, V), files |-> Files_as(Installed, V),
   aside |-> Aside_as(V)]

LEMMA Under_way ==
  ASSUME NEW V, NEW n, Running(n, V)
  PROVE  /\ todo[1].op = "if" => Chosen(n) \subseteq After_sight(n)
         /\ todo[1].op # "if" => Worked(n, todo[1].op, What) \subseteq After_sight(n)
<1>1. n.phase = phase /\ n.todo = todo /\ phase \notin {"idle", "failing"} /\ todo # <<>>
  BY Seen_fields DEF Running, Phases
<1> QED
  BY <1>1 DEF After_sight, What, Phases, Running

LEMMA Went_on ==
  ASSUME NEW V, NEW n, Running(n, V), todo[1].op # "if", Advance, UNCHANGED <<config, pin>>,
         Now(V)' \in Goes(n, todo[1].op, What)
  PROVE  Sight(V)' \in After_sight(n)
<1>1. /\ n.service = service /\ n.mode = mode /\ n.phase = phase /\ n.todo = todo
      /\ n.pin = As(pin, V) /\ n.scoped = (entry # "configure")
  BY Seen_fields DEF Running
<1>2. /\ UNCHANGED <<service, mode, clear_on_update, install_cache, phase, entry, pin>>
      /\ todo' = Tail(todo) /\ install_cache /\ phase \in Phases
  BY DEF config, Advance, Running, Looking, Expected
<1>3. In_scope' = (entry # "configure")
  BY <1>2 DEF In_scope, Running, Looking, Typed
<1>4. Sight(V)' = Advanced(n, Now(V)')
  BY <1>1, <1>2, <1>3 DEF Sight, Advanced, Now
<1>5. Advanced(n, Now(V)') \in Worked(n, todo[1].op, What)
  BY DEF Worked
<1> QED
  BY <1>4, <1>5, Under_way

LEMMA Failed ==
  ASSUME NEW V, NEW n, Running(n, V), todo[1].op # "if", Stop,
         UNCHANGED <<config, pin, branch_state, aside>>,
         Files_as(Installed, V)' \in Fails(n, todo[1].op),
         todo[1].op = "fail" \/ "fault" \in Survives(service)
  PROVE  Sight(V)' \in After_sight(n)
<1>1. /\ n.service = service /\ n.mode = mode /\ n.recorded = As(branch_state, V)
      /\ n.pin = As(pin, V) /\ n.aside = Aside_as(V)
  BY Seen_fields DEF Running
<1>2. /\ UNCHANGED <<service, mode, branch_state, pin, aside>>
      /\ todo' = <<>> /\ phase' = "failing"
  BY DEF config, Stop
<1>3. Aside_as(V)' = Aside_as(V)
  BY <1>2 DEF Aside_as, Files_as
<1>4. Sight(V)' = Outside(n, "failing", Files_as(Installed, V)', n.aside)
  BY <1>1, <1>2, <1>3 DEF Sight, Outside, Phases
<1>5. Outside(n, "failing", Files_as(Installed, V)', n.aside) \in Worked(n, todo[1].op, What)
  BY <1>1 DEF Worked, If_survived
<1> QED
  BY <1>4, <1>5, Under_way

LEMMA Chose ==
  ASSUME NEW V, NEW n, Running(n, V), todo[1].op = "if", What \in Tests, Choose
  PROVE  Sight(V)' \in After_sight(n)
<1>1. /\ n.service = service /\ n.mode = mode /\ n.phase = phase /\ n.todo = todo
      /\ n.pin = As(pin, V) /\ n.scoped = (entry # "configure") /\ n.goal = As(goal, V)
      /\ n.recorded = As(branch_state, V) /\ n.files = Files_as(Installed, V)
      /\ n.aside = Aside_as(V)
  BY Seen_fields DEF Running
<1>2. /\ UNCHANGED <<service, mode, clear_on_update, install_cache, phase, entry, pin, goal,
                     branch_state, aside, disk>>
      /\ install_cache /\ phase \in Phases
  BY DEF Choose, Steady, Read_only, config, Running, Looking, Expected
<1>3. In_scope' = (entry # "configure")
  BY <1>2 DEF In_scope, Running, Looking, Typed
<1>4. Files_as(Installed, V)' = Files_as(Installed, V) /\ Aside_as(V)' = Aside_as(V)
  BY <1>2 DEF Files_as, Aside_as, Installed, disk
<1>5. Sight(V)' = Branched(n, todo')
  BY <1>1, <1>2, <1>3, <1>4 DEF Sight, Branched
<1>6. PICK b \in Answers(What) :
        todo' = (IF b THEN todo[1].then ELSE todo[1].else) \o Tail(todo)
  BY DEF Choose, Branches
<1>7. b \in Answers_seen(n, n.todo[1].what)
  BY <1>1, Answers_look DEF What
<1>8. Branched(n, todo') \in Chosen(n)
  BY <1>1, <1>6, <1>7 DEF Chosen
<1> QED
  BY <1>5, <1>8, Under_way

-----------------------------------------------------------------------------
(* Each step of a program.                                                   *)

LEMMA Survived ==
  ASSUME Recovers', UNCHANGED config
  PROVE  /\ faults' > 0 => "fault" \in Survives(service)
         /\ kills' > 0 => "kill" \in Survives(service)
         /\ scarred' => "scar" \in Survives(service)
BY DEF Recovers, Survives, config

LEMMA Faulty ==
  ASSUME Typed, Fault, Recovers', UNCHANGED config
  PROVE  "fault" \in Survives(service)
BY Survived DEF Typed, Fault

\* What is torn is there to be seen, but where a runtime is replaced as a whole.
LEMMA Scars ==
  ASSUME NEW V, NEW n, Looking(n, V), Recovers', UNCHANGED config,
         scarred' = (scarred \/ Torn \in {src', built'}), {src', built'} \subseteq Contents,
         NEW F, Files_as(Installed, V)' \in F
  PROVE  Files_as(Installed, V)' \in Unscarred(n, F)
<1>1. n.service = service /\ V \in Version
  BY Seen_fields DEF Looking
<1>2. Files_as(Installed, V)'.src = As(src', V) /\ Files_as(Installed, V)'.built = As(built', V)
  BY DEF Files_as, Installed
<1>3. CASE scarred'
  BY <1>1, <1>3, Survived DEF Unscarred
<1>4. CASE ~scarred'
  <2>1. src' # Torn /\ built' # Torn
    BY <1>4
  <2>2. "torn" \notin {As(src', V), As(built', V)}
    BY <1>1, <2>1, Looks
  <2> QED
    BY <1>2, <2>2 DEF Unscarred
<1> QED
  BY <1>3, <1>4

LEMMA Going ==
  ASSUME NEW n, NEW w
  PROVE  /\ \A o \in {"call", "patch"} : Goes(n, o, w) = {Effect(n)}
         /\ Goes(n, "select", w) = Aims(n, {n.pin})
         /\ Goes(n, "head", w) = Aims(n, IF n.mode = "commit" THEN {n.pin} ELSE Versions_seen)
         /\ Goes(n, "resolve", w) = Aims(n, Newest_seen(n))
         /\ Goes(n, "clear", w) =
              {[goal |-> n.goal, recorded |-> n.recorded, files |-> f, aside |-> Set_aside(n)]
                 : f \in Unscarred(n, {Cleared(n)})}
         /\ Goes(n, "tidy", w) = Puts(n, Unscarred(n, {[n.files EXCEPT !.src = "none"]}))
         /\ Goes(n, "refresh", w) = Puts(n, Unscarred(n, {n.files}))
         /\ Goes(n, "mark", w) =
              Puts(n, {[n.files EXCEPT !.marker = v]
                         : v \in Marks_seen(n, w) \cup If_survived(n, "fault", {n.files.marker})})
         /\ Goes(n, "record", w) =
              {[Effect(n) EXCEPT !.recorded = v]
                 : v \in {n.goal} \cup If_survived(n, "fault", {n.recorded})}
BY DEF Goes

LEMMA Unpacking_goes ==
  ASSUME NEW n, NEW w
  PROVE  Goes(n, "unpack", w) = Puts(n, {Unpacked(n.files, v, w) : v \in Fetched_seen(n)})
BY DEF Goes

LEMMA Building_goes ==
  ASSUME NEW n, NEW w, NEW o \in {"write", "attempt", "build", "activate", "swap"}
  PROVE  Goes(n, o, w) = Puts(n, {Build_seen(n, o, w)})
BY Zenon DEF Goes

LEMMA Trying_goes ==
  ASSUME NEW n, NEW w
  PROVE  Goes(n, "try patch", w) = {Effect(n)}
BY DEF Goes

LEMMA Looking_up_goes ==
  ASSUME NEW n, NEW w, w = "version marker" => "scar" \in Survives(n.service)
  PROVE  Goes(n, "lookup", w) = Aims(n, Newest_seen(n) \cup If_survived(n, "fault", {"channel"}))
BY Zenon DEF Goes

LEMMA Failing ==
  ASSUME NEW n
  PROVE  /\ \A o \in {"call", "fail", "resolve", "unpack", "patch", "activate", "swap", "mark"} :
              Fails(n, o) = {n.files}
         /\ Fails(n, "clear") = Unscarred(n, {f \in {n.files} : n.scoped} \cup {Half_cleared(n)})
         /\ Fails(n, "tidy") = Unscarred(n, {[n.files EXCEPT !.src = Halved(@)]})
         /\ \A o \in {"write", "build"} : Fails(n, o) = {Broken_runtime(n.files)}
         /\ Fails(n, "refresh") =
              Unscarred(n, {Rebuilt(n.files, Halved(n.files.built), n.files.prebuilt)})
BY DEF Fails

LEMMA Effect_now ==
  ASSUME NEW V, NEW n, Running(n, V)
  PROVE  Effect(n) = Now(V)
<1>1. /\ n.goal = As(goal, V) /\ n.recorded = As(branch_state, V)
      /\ n.files = Files_as(Installed, V) /\ n.aside = Aside_as(V)
  BY Seen_fields DEF Running
<1> QED
  BY <1>1 DEF Effect, Now

LEMMA Disk_kept ==
  ASSUME NEW V, NEW n, Running(n, V), UNCHANGED <<src, built, marker, made>>
  PROVE  Files_as(Installed, V)' = n.files
<1>1. n.files = Files_as(Installed, V)
  BY Seen_fields DEF Running
<1> QED
  BY <1>1 DEF Files_as, Installed

LEMMA Nothing_lost ==
  ASSUME NEW V, NEW n, Running(n, V), UNCHANGED <<src, built, marker, made>>,
         NEW o \in {"call", "fail", "resolve", "unpack", "patch", "activate", "swap", "mark"}
  PROVE  Files_as(Installed, V)' \in Fails(n, o)
<1>1. Fails(n, o) = {n.files}
  BY Failing
<1> QED
  BY <1>1, Disk_kept

LEMMA Aside_kept ==
  ASSUME NEW V, UNCHANGED aside
  PROVE  Aside_as(V)' = Aside_as(V)
BY DEF Aside_as, Files_as

LEMMA Nothing_new ==
  ASSUME NEW V, NEW n, Running(n, V), UNCHANGED <<goal, disk, aside, branch_state>>
  PROVE  Now(V)' \in {Effect(n)}
<1>1. n.files = Files_as(Installed, V)
  BY Seen_fields DEF Running
<1> QED
  BY <1>1, Effect_now, Disk_kept, Aside_kept DEF Now, disk

LEMMA Aiming ==
  ASSUME NEW V, NEW n, Running(n, V), UNCHANGED <<disk, aside, branch_state>>,
         NEW W, As(goal', V) \in W
  PROVE  Now(V)' \in Aims(n, W)
<1>1. n.files = Files_as(Installed, V)
  BY Seen_fields DEF Running
<1>2. Now(V)' = [Effect(n) EXCEPT !.goal = As(goal', V)]
  BY <1>1, Effect_now, Disk_kept, Aside_kept DEF Now, disk
<1> QED
  BY <1>2 DEF Aims

LEMMA Putting ==
  ASSUME NEW V, NEW n, Running(n, V), UNCHANGED <<goal, aside, branch_state>>,
         NEW F, Files_as(Installed, V)' \in F
  PROVE  Now(V)' \in Puts(n, F)
<1>1. Now(V)' = [Effect(n) EXCEPT !.files = Files_as(Installed, V)']
  BY Effect_now, Aside_kept DEF Now
<1> QED
  BY <1>1 DEF Puts

LEMMA Call_seen ==
  ASSUME NEW V, NEW n, Running(n, V), Call_step \/ Fail_step, Recovers'
  PROVE  Sight(V)' \in After_sight(n)
<1>1. /\ UNCHANGED <<config, pin, disk, aside, branch_state, goal>>
      /\ todo[1].op \in {"call", "fail"} /\ Typed
  BY DEF Call_step, Fail_step, Read_only, Steady, Op_is, Proceed, Break, Stop, Running, Looking
<1>2. CASE Proceed /\ todo[1].op = "call"
  <2>1. Now(V)' \in {Effect(n)}
    BY <1>1, Nothing_new
  <2>2. Now(V)' \in Goes(n, todo[1].op, What)
    BY <1>2, <2>1, Going
  <2> QED
    BY <1>1, <1>2, <2>2, Went_on DEF Proceed
<1>3. CASE Stop /\ (Fault \/ todo[1].op = "fail")
  <2>1. Files_as(Installed, V)' \in Fails(n, todo[1].op)
    BY <1>1, Nothing_lost DEF disk
  <2>2. todo[1].op = "fail" \/ "fault" \in Survives(service)
    BY <1>1, <1>3, Faulty
  <2> QED
    BY <1>1, <1>3, <2>1, <2>2, Failed
<1> QED
  BY <1>2, <1>3 DEF Call_step, Fail_step, Op_is, Break

\* The version chosen is the one asked for, or the newest, or none in particular.
LEMMA Newest_looks ==
  ASSUME NEW V, NEW n, Running(n, V)
  PROVE  As(Asked, V) = n.pin /\ As(Newest, V) \in Newest_seen(n)
<1>1. n.pin = As(pin, V) /\ Asked = pin /\ V \in Version
  BY Seen_fields DEF Running, Looking, Expected, Pin_modes, Asked
<1>2. pin \in Contents /\ upstream \in Contents /\ upstream \in Version
  BY Contents_now DEF Running, Looking, Typed
<1> QED
  BY <1>1, <1>2, Looks DEF Newest, Newest_seen

LEMMA Choice_seen ==
  ASSUME NEW V, NEW n, Running(n, V), Select_step \/ Resolve_step \/ Lookup_step \/ Head_step,
         Recovers'
  PROVE  Sight(V)' \in After_sight(n)
<1> DEFINE o == todo[1].op
<1>1. /\ UNCHANGED <<config, pin, disk, aside, branch_state>> /\ Typed
      /\ o \in {"select", "resolve", "lookup", "head"} /\ mode \in Pin_modes
  BY Zenon DEF Select_step, Resolve_step, Lookup_step, Head_step, Read_only, Steady, Op_is,
                Running, Looking, Expected
<1>2. ASSUME NEW W, As(goal', V) \in W, Goes(n, o, What) = Aims(n, W), Advance
      PROVE  Sight(V)' \in After_sight(n)
  BY <1>1, <1>2, Aiming, Went_on
<1>3. n.service = service /\ n.pin = As(pin, V) /\ n.mode = mode /\ V \in Version
  BY Seen_fields DEF Running, Looking
<1>4. CASE Select_step
  <2>1. Advance /\ As(goal', V) \in {n.pin} /\ o = "select"
    BY <1>4, Newest_looks DEF Select_step, Choose_version, Op_is
  <2> QED
    BY <1>2, <2>1, Going
<1>5. CASE Resolve_step
  <2>1. CASE Choose_version(Newest)
    <3>1. Advance /\ As(goal', V) \in Newest_seen(n) /\ o = "resolve"
      BY <1>5, <2>1, Newest_looks DEF Resolve_step, Choose_version, Op_is
    <3> QED
      BY <1>2, <3>1, Going
  <2>2. CASE Break
    <3>1. Files_as(Installed, V)' \in Fails(n, o) /\ "fault" \in Survives(service)
      BY <1>1, <1>5, <2>2, Nothing_lost, Faulty DEF Break, Resolve_step, Op_is, disk
    <3> QED
      BY <1>1, <2>2, <3>1, Failed DEF Break
  <2> QED
    BY <1>5, <2>1, <2>2 DEF Resolve_step
<1>6. CASE Lookup_step
  <2> DEFINE W == Newest_seen(n) \cup If_survived(n, "fault", {"channel"})
  <2>1. o = "lookup"
    BY <1>6, Zenon DEF Lookup_step, Op_is
  <2>2. Goes(n, o, What) = Aims(n, W)
    <3>1. What = "version marker" => "scar" \in Survives(service)
      BY <1>1, <1>6, Survived, Zenon DEF Lookup_step
    <3> QED
      BY <1>3, <2>1, <3>1, Looking_up_goes, Zenon
  <2>3. CASE Choose_version(Newest)
    <3>1. Advance /\ As(goal', V) \in W
      BY <2>3, Newest_looks DEF Choose_version
    <3> QED
      BY <1>2, <2>2, <3>1
  <2>4. CASE Choose_version(Channel) /\ Fault
    <3>1. As(goal', V) = "channel" /\ "fault" \in Survives(n.service)
      BY <1>1, <1>3, <2>4, Faulty, Looks DEF Choose_version, Contents
    <3>2. Advance /\ As(goal', V) \in W
      BY <2>4, <3>1 DEF Choose_version, If_survived
    <3> QED
      BY <1>2, <2>2, <3>2
  <2> QED
    BY <1>6, <2>3, <2>4, Zenon DEF Lookup_step
<1>7. CASE Head_step
  <2> DEFINE W == IF n.mode = "commit" THEN {n.pin} ELSE Versions_seen
  <2>1. o = "head" /\ mode # "branch"
    BY <1>1, <1>7 DEF Head_step, Op_is, Pin_modes
  <2>2. Advance /\ goal' = IF mode = "commit" THEN pin ELSE upstream
    BY <1>7, <2>1 DEF Head_step, Choose_version
  <2>3. As(upstream, V) \in Versions_seen
    BY <1>1, <1>3, Contents_now, Looks DEF Typed
  <2>4. As(goal', V) \in W
    BY <1>3, <2>2, <2>3
  <2> QED
    BY <1>2, <2>1, <2>2, <2>4, Going
<1> QED
  BY <1>4, <1>5, <1>6, <1>7

LEMMA Half_looks ==
  ASSUME NEW V \in Version, NEW c \in Contents
  PROVE  Half(c) \in Contents /\ As(Half(c), V) = Halved(As(c, V))
         /\ As(Torn, V) = "torn" /\ As(Nothing, V) = "none"
BY Looks DEF Half, Halved, Contents

\* What the lemmas about the files take for granted.
LEMMA Files_seen ==
  ASSUME NEW V, NEW n, Running(n, V)
  PROVE  /\ V \in Version /\ Typed /\ Looking(n, V)
         /\ n.service = service /\ n.mode = mode /\ n.goal = As(goal, V)
         /\ n.scoped = (entry # "configure") /\ In_scope = (entry # "configure")
         /\ n.files = [src |-> As(src, V), built |-> As(built, V), marker |-> As(marker, V),
                       prebuilt |-> (made = {"prebuilt"})]
         /\ Files_as(Installed, V)' = [src |-> As(src', V), built |-> As(built', V),
                                       marker |-> As(marker', V), prebuilt |-> (made' = {"prebuilt"})]
         /\ {src, built, marker, goal, upstream} \subseteq Contents /\ {Torn, Nothing} \subseteq Contents
         /\ mode \in Pin_modes
<1>1. /\ n.service = service /\ n.mode = mode /\ n.goal = As(goal, V)
      /\ n.scoped = (entry # "configure") /\ n.files = Files_as(Installed, V)
  BY Seen_fields DEF Running
<1>2. In_scope = (entry # "configure") /\ mode \in Pin_modes /\ V \in Version
  BY DEF In_scope, Running, Looking, Expected, Typed
<1>3. {src, built, marker, goal, upstream} \subseteq Contents
  BY Contents_now DEF Running, Looking
<1> QED
  BY <1>1, <1>2, <1>3 DEF Files_as, Installed, Running, Looking, Contents

LEMMA Kept_seen ==
  ASSUME NEW V, NEW n, Running(n, V)
  PROVE  Kept(n) = Environment_kept
<1>1. n.service = service
  BY Files_seen
<1> QED
  BY <1>1 DEF Kept, Environment_kept

LEMMA Tidy_seen ==
  ASSUME NEW V, NEW n, Running(n, V), Tidy_step, Recovers'
  PROVE  Sight(V)' \in After_sight(n)
<1>0. /\ n.scoped = (entry # "configure") /\ In_scope = (entry # "configure")
      /\ n.files = [src |-> As(src, V), built |-> As(built, V), marker |-> As(marker, V),
                    prebuilt |-> (made = {"prebuilt"})]
      /\ Files_as(Installed, V)' = [src |-> As(src', V), built |-> As(built', V),
                                    marker |-> As(marker', V), prebuilt |-> (made' = {"prebuilt"})]
      /\ {src, built} \subseteq Contents /\ {Torn, Nothing} \subseteq Contents
      /\ V \in Version /\ Typed /\ Looking(n, V)
  BY Files_seen
<1>9. /\ As(Nothing, V) = "none" /\ As(Half(src), V) = Halved(As(src, V))
      /\ As(Half(built), V) = Halved(As(built, V)) /\ {Half(src), Half(built)} \subseteq Contents
      /\ Kept(n) = Environment_kept
  BY <1>0, Half_looks, Kept_seen
<1>1. /\ UNCHANGED <<config, pin, aside, branch_state, built, marker, made>> /\ todo[1].op = "tidy"
      /\ scarred' = (scarred \/ Torn \in {src', built'})
  BY DEF Tidy_step, Op_is, Steady, Scar
<1>2. CASE src' = Nothing /\ Proceed
  <2>1. Files_as(Installed, V)' \in {[n.files EXCEPT !.src = "none"]}
    BY <1>0, <1>1, <1>2, <1>9
  <2>2. Files_as(Installed, V)' \in Unscarred(n, {[n.files EXCEPT !.src = "none"]})
    BY <1>0, <1>1, <1>2, <2>1, Scars
  <2>3. Now(V)' \in Puts(n, Unscarred(n, {[n.files EXCEPT !.src = "none"]}))
    BY <1>1, <1>2, <2>2, Putting DEF Proceed
  <2>4. Now(V)' \in Goes(n, "tidy", What)
    BY <2>3, Going
  <2> QED
    BY <1>1, <1>2, <2>4, Went_on DEF Proceed
<1>3. CASE src' = Half(src) /\ Break
  <2>1. Files_as(Installed, V)' \in {[n.files EXCEPT !.src = Halved(@)]}
    BY <1>0, <1>1, <1>3, <1>9
  <2>2. Files_as(Installed, V)' \in Unscarred(n, {[n.files EXCEPT !.src = Halved(@)]})
    BY <1>0, <1>1, <1>3, <1>9, <2>1, Scars
  <2>3. Files_as(Installed, V)' \in Fails(n, todo[1].op) /\ "fault" \in Survives(service)
    BY <1>0, <1>1, <1>3, <2>2, Failing, Faulty DEF Break
  <2> QED
    BY <1>1, <1>3, <2>3, Failed DEF Break
<1> QED
  BY <1>2, <1>3 DEF Tidy_step

LEMMA Clear_seen ==
  ASSUME NEW V, NEW n, Running(n, V), Clear_step, Recovers'
  PROVE  Sight(V)' \in After_sight(n)
<1>0. /\ n.scoped = (entry # "configure") /\ In_scope = (entry # "configure")
      /\ n.files = [src |-> As(src, V), built |-> As(built, V), marker |-> As(marker, V),
                    prebuilt |-> (made = {"prebuilt"})]
      /\ Files_as(Installed, V)' = [src |-> As(src', V), built |-> As(built', V),
                                    marker |-> As(marker', V), prebuilt |-> (made' = {"prebuilt"})]
      /\ {src, built} \subseteq Contents /\ {Torn, Nothing} \subseteq Contents
      /\ V \in Version /\ Typed /\ Looking(n, V)
  BY Files_seen
<1>9. /\ As(Nothing, V) = "none" /\ As(Half(src), V) = Halved(As(src, V))
      /\ As(Half(built), V) = Halved(As(built, V)) /\ {Half(src), Half(built)} \subseteq Contents
      /\ Kept(n) = Environment_kept
  BY <1>0, Half_looks, Kept_seen
<1>1. /\ UNCHANGED <<config, pin, branch_state>> /\ todo[1].op = "clear"
      /\ scarred' = (scarred \/ Torn \in {src', built'})
  BY DEF Clear_step, Op_is, Steady, Scar
<1>2. CASE /\ aside' = Moved_aside /\ Proceed
           /\ src' = Nothing /\ marker' = Nothing /\ patched' = {}
           /\ IF Environment_kept THEN UNCHANGED <<built, made>>
              ELSE built' = Nothing /\ made' = {}
  <2>1. Files_as(Installed, V)' \in {Cleared(n)}
    <3>1. CASE Environment_kept
      <4>1. (Kept(n) /\ n.files.prebuilt) = (made' = {"prebuilt"})
        <5>1. n.files.prebuilt = (made = {"prebuilt"})
          BY Seen_fields DEF Running
        <5>2. Kept(n) = TRUE /\ made' = made
          BY <1>2, <1>9, <3>1
        <5> QED
          BY <5>1, <5>2
      <4>2. (IF Kept(n) THEN n.files.built ELSE "none") = As(built', V)
        BY <1>0, <1>2, <1>9, <3>1
      <4>3. As(src', V) = "none" /\ As(marker', V) = "none"
        BY <1>2, <1>9
      <4> QED
        BY <1>0, <4>1, <4>2, <4>3 DEF Cleared
    <3>2. CASE ~Environment_kept
      BY <1>0, <1>2, <1>9, <3>2 DEF Cleared
    <3> QED
      BY <3>1, <3>2
  <2>2. Files_as(Installed, V)' \in Unscarred(n, {Cleared(n)})
    BY <1>0, <1>1, <1>2, <2>1, Scars
  <2>3. Aside_as(V)' = Set_aside(n)
    <3>1. n.aside = Aside_as(V) /\ n.files = Files_as(Installed, V)
      BY Seen_fields DEF Running
    <3>2. aside # Nothing => Aside_as(V) # No_files
      <4>1. aside # Nothing => aside.marker \in Contents
        BY Versions DEF Running, Looking, Asides, Files_typed, Contents
      <4>2. aside # Nothing => As(aside.marker, V) # "absent"
        BY <1>0, <4>1, Looks DEF Versions_seen
      <4> QED
        BY <4>2 DEF Aside_as, Files_as, No_files
    <3>3. CASE In_scope /\ aside = Nothing
      <4>1. aside' = Installed /\ Installed # Nothing
        BY <1>0, <1>2, <3>3, Something_installed DEF Moved_aside
      <4>2. Aside_as(V)' = Files_as(Installed, V)
        BY <4>1 DEF Aside_as, Files_as, Installed
      <4>3. n.scoped /\ n.aside = No_files
        BY <1>0, <3>1, <3>3 DEF Aside_as
      <4> QED
        BY <3>1, <4>2, <4>3 DEF Set_aside
    <3>4. CASE ~(In_scope /\ aside = Nothing)
      <4>1. aside' = aside
        BY <1>2, <3>4 DEF Moved_aside
      <4>2. ~(n.scoped /\ n.aside = No_files)
        BY <1>0, <3>1, <3>2, <3>4 DEF Aside_as
      <4> QED
        BY <3>1, <4>1, <4>2, Aside_kept DEF Set_aside
    <3> QED
      BY <3>3, <3>4
  <2>4. Now(V)' = [goal |-> n.goal, recorded |-> n.recorded, files |-> Files_as(Installed, V)',
                   aside |-> Set_aside(n)]
    <3>1. n.recorded = As(branch_state, V) /\ n.goal = As(goal, V)
          /\ UNCHANGED <<goal, branch_state>>
      BY <1>1, <1>2, Seen_fields DEF Proceed, Running
    <3> QED
      BY <2>3, <3>1 DEF Now
  <2>5. Now(V)' \in Goes(n, "clear", What)
    <3>1. Goes(n, "clear", What) =
            {[goal |-> n.goal, recorded |-> n.recorded, files |-> f, aside |-> Set_aside(n)]
               : f \in Unscarred(n, {Cleared(n)})}
      BY Going
    <3> QED
      BY <2>2, <2>4, <3>1
  <2> QED
    BY <1>1, <1>2, <2>5, Went_on DEF Proceed
<1>3. CASE /\ Break /\ UNCHANGED <<aside, marker, patched, made>>
           /\ \/ In_scope /\ UNCHANGED <<src, built>>
              \/ src' = Half(src) /\ built' = IF Environment_kept THEN built ELSE Half(built)
  <2> DEFINE Left == {f \in {n.files} : n.scoped} \cup {Half_cleared(n)}
  <2>1. Files_as(Installed, V)' \in Left
    <3>1. CASE In_scope /\ UNCHANGED <<src, built>>
      BY <1>0, <1>3, <3>1
    <3>2. CASE src' = Half(src) /\ built' = IF Environment_kept THEN built ELSE Half(built)
      <4>1. /\ n.files.src = As(src, V) /\ n.files.built = As(built, V)
            /\ n.files.marker = As(marker, V) /\ n.files.prebuilt = (made = {"prebuilt"})
        BY Seen_fields DEF Running
      <4>2. /\ As(src', V) = Halved(n.files.src)
            /\ As(built', V) = IF Kept(n) THEN n.files.built ELSE Halved(n.files.built)
        BY <1>3, <1>9, <3>2, <4>1
      <4>3. Files_as(Installed, V)' = Half_cleared(n)
        BY <1>0, <1>3, <4>1, <4>2 DEF Half_cleared
      <4> QED
        BY <1>0, <3>2, <4>3
    <3> QED
      BY <1>3, <3>1, <3>2
  <2>2. {src', built'} \subseteq Contents
    BY <1>0, <1>1, <1>3, <1>9
  <2>3. Files_as(Installed, V)' \in Fails(n, todo[1].op)
    <3>1. Files_as(Installed, V)' \in Unscarred(n, Left)
      BY <1>0, <1>1, <2>1, <2>2, Scars
    <3> QED
      BY <1>1, <3>1, Failing
  <2>4. "fault" \in Survives(service)
    BY <1>0, <1>1, <1>3, Faulty DEF Break
  <2> QED
    BY <1>1, <1>3, <2>3, <2>4, Failed DEF Break
<1> QED
  BY <1>2, <1>3 DEF Clear_step

LEMMA Unpacking ==
  ASSUME NEW V, NEW n, Running(n, V), NEW v, Unpack_this(v), UNCHANGED <<marker, made>>
  PROVE  Files_as(Installed, V)' = Unpacked(n.files, As(v, V), What)
<1>1. /\ Files_as(Installed, V)' = [src |-> As(src', V), built |-> As(built', V),
                                    marker |-> As(marker', V), prebuilt |-> (made' = {"prebuilt"})]
      /\ n.files.built = As(built, V) /\ n.files.marker = As(marker, V)
      /\ n.files.prebuilt = (made = {"prebuilt"})
  BY Files_seen, Seen_fields DEF Running
<1>2. src' = v /\ built' = (IF What = "runtime" THEN v ELSE built)
  BY DEF Unpack_this
<1>3. As(built', V) = IF What = "runtime" THEN As(v, V) ELSE As(built, V)
  BY <1>2
<1> QED
  BY <1>1, <1>2, <1>3 DEF Unpacked

LEMMA Fetched_looks ==
  ASSUME NEW V, NEW n, Running(n, V)
  PROVE  Fetched \in Version /\ As(Fetched, V) \in Fetched_seen(n)
<1>1. /\ n.goal = As(goal, V) /\ goal \in Contents /\ upstream \in Contents /\ V \in Version
      /\ mode \in Pin_modes /\ Typed
  BY Files_seen
<1>2. upstream \in Version /\ goal \in Version \cup {Nothing, Channel} /\ mode # "branch"
  BY <1>1 DEF Typed, Pin_modes
<1>3. CASE goal \in Version
  <2>1. Fetched = goal
    BY <1>2, <1>3, Versions DEF Fetched
  <2> QED
    BY <1>1, <1>3, <2>1, Looks DEF Fetched_seen
<1>4. CASE goal \notin Version
  <2>1. Fetched = upstream
    BY <1>2, <1>4 DEF Fetched
  <2>2. n.goal \notin Versions_seen /\ As(upstream, V) \in Versions_seen
    BY <1>1, <1>2, <1>4, Looks
  <2> QED
    BY <1>2, <2>1, <2>2 DEF Fetched_seen
<1> QED
  BY <1>3, <1>4

LEMMA Unpack_seen ==
  ASSUME NEW V, NEW n, Running(n, V), Unpack_step, Recovers'
  PROVE  Sight(V)' \in After_sight(n)
<1>1. /\ UNCHANGED <<config, pin, branch_state, marker, made, aside>> /\ todo[1].op = "unpack"
      /\ Typed /\ mode # "branch"
  BY Files_seen DEF Unpack_step, Op_is, Steady, Pin_modes
<1>2. CASE Unpack_this(Fetched) /\ Proceed
  <2>1. Files_as(Installed, V)' = Unpacked(n.files, As(Fetched, V), What)
    BY <1>1, <1>2, Fetched_looks, Unpacking DEF Contents
  <2>2. Files_as(Installed, V)' \in {Unpacked(n.files, v, What) : v \in Fetched_seen(n)}
    BY <2>1, Fetched_looks
  <2>3. Now(V)' \in Puts(n, {Unpacked(n.files, v, What) : v \in Fetched_seen(n)})
    BY <1>1, <1>2, <2>2, Putting DEF Proceed
  <2>4. Now(V)' \in Goes(n, "unpack", What)
    BY <2>3, Unpacking_goes
  <2> QED
    BY <1>1, <1>2, <2>4, Went_on DEF Proceed
<1>3. CASE Unpack_failed
  <2>1. Files_as(Installed, V)' \in Fails(n, todo[1].op) /\ "fault" \in Survives(service)
    BY <1>1, <1>3, Nothing_lost, Faulty DEF Unpack_failed, Break
  <2> QED
    BY <1>1, <1>3, <2>1, Failed DEF Unpack_failed, Break
<1> QED
  BY <1>1, <1>2, <1>3 DEF Unpack_step, Unpack_cached

LEMMA Patch_seen ==
  ASSUME NEW V, NEW n, Running(n, V), Patch_step, Recovers'
  PROVE  Sight(V)' \in After_sight(n)
<1>1. /\ UNCHANGED <<config, pin, branch_state, src, built, marker, made, aside, goal>>
      /\ todo[1].op \in Patch_ops /\ Typed
  BY Files_seen, Zenon DEF Patch_step, Op_is, Steady, Patch_ops, Proceed, Stop
<1>2. CASE Advance
  <2>1. Now(V)' = Effect(n)
    <3>1. n.files = Files_as(Installed, V)
      BY Seen_fields DEF Running
    <3> QED
      BY <1>1, <3>1, Effect_now, Disk_kept, Aside_kept DEF Now
  <2>2. Goes(n, todo[1].op, What) = {Effect(n)} /\ todo[1].op # "if"
    BY <1>1, Going, Trying_goes, Zenon DEF Patch_ops
  <2> QED
    BY <1>1, <1>2, <2>1, <2>2, Went_on
<1>3. CASE Stop /\ Fault /\ todo[1].op = "patch"
  <2>1. Files_as(Installed, V)' \in Fails(n, todo[1].op) /\ "fault" \in Survives(service)
    BY <1>1, <1>3, Nothing_lost, Faulty
  <2> QED
    BY <1>1, <1>3, <2>1, Failed
<1> QED
  BY <1>2, <1>3, Zenon DEF Patch_step, Proceed, Op_is

\* The steps that change the runtime only.
LEMMA Building_looks ==
  ASSUME NEW V, NEW n, Running(n, V), UNCHANGED <<src, marker>>
  PROVE  Files_as(Installed, V)' = Rebuilt(n.files, As(built', V), made' = {"prebuilt"})
<1>1. /\ Files_as(Installed, V)' = [src |-> As(src', V), built |-> As(built', V),
                                    marker |-> As(marker', V), prebuilt |-> (made' = {"prebuilt"})]
      /\ n.files.src = As(src, V) /\ n.files.marker = As(marker, V)
  BY Files_seen, Seen_fields DEF Running
<1> QED
  BY <1>1 DEF Rebuilt

LEMMA Writing_looks ==
  ASSUME NEW V, NEW n, Running(n, V), UNCHANGED <<src, marker, made>>
  PROVE  Files_as(Installed, V)' = Rebuilt(n.files, As(built', V), n.files.prebuilt)
<1>1. n.files.prebuilt = (made' = {"prebuilt"})
  BY Seen_fields DEF Running
<1> QED
  BY <1>1, Building_looks

LEMMA Running_looks ==
  ASSUME NEW V, NEW n, Running(n, V), UNCHANGED <<config, pin, branch_state, aside>>, Recovers',
         NEW o \in {"write", "attempt", "build", "activate", "swap"}, todo[1].op = o,
         \/ Proceed /\ Files_as(Installed, V)' = Build_seen(n, o, What)
         \/ Break /\ Files_as(Installed, V)' \in Fails(n, o)
  PROVE  Sight(V)' \in After_sight(n)
<1>1. CASE Proceed /\ Files_as(Installed, V)' = Build_seen(n, o, What)
  <2>1. Now(V)' \in Puts(n, {Build_seen(n, o, What)})
    BY <1>1, Putting DEF Proceed
  <2>2. Goes(n, o, What) = Puts(n, {Build_seen(n, o, What)})
    BY Building_goes
  <2> QED
    BY <1>1, <2>1, <2>2, Went_on DEF Proceed
<1>2. CASE Break /\ Files_as(Installed, V)' \in Fails(n, o)
  BY <1>2, Files_seen, Faulty, Failed DEF Break
<1> QED
  BY <1>1, <1>2

LEMMA Runtime_seen ==
  ASSUME NEW V, NEW n, Running(n, V), Write_step \/ Build_step \/ Activate_step \/ Swap_step,
         Recovers'
  PROVE  Sight(V)' \in After_sight(n)
<1>1. /\ UNCHANGED <<config, pin, branch_state, src, marker, patched, aside>>
      /\ todo[1].op \in {"write", "attempt", "build", "activate", "swap"}
  BY Zenon DEF Write_step, Build_step, Activate_step, Swap_step, Op_is, Runtime_only, Steady
<1>2. /\ n.files.src = As(src, V) /\ n.goal = As(goal, V) /\ As(Torn, V) = "torn"
      /\ n.files.prebuilt = (made = {"prebuilt"}) /\ V \in Version
  BY Seen_fields, Files_seen, Half_looks DEF Running
<1>3. patched # {"prebuilt"}
  BY Files_seen, Files_now, Patches_are_no_facts
<1>4. CASE Write_step
  <2>1. /\ built' = Torn /\ UNCHANGED made /\ todo[1].op \in {"write", "attempt"}
        /\ Proceed \/ (Break /\ todo[1].op = "write")
    BY <1>4 DEF Write_step, Op_is
  <2>2. Files_as(Installed, V)' = Broken_runtime(n.files)
    BY <1>1, <1>2, <2>1, Writing_looks DEF Broken_runtime
  <2>3. Build_seen(n, todo[1].op, What) = Broken_runtime(n.files)
    BY <2>1, Zenon DEF Build_seen
  <2>4. Fails(n, "write") = {Broken_runtime(n.files)}
    BY Failing
  <2> QED
    BY <1>1, <2>1, <2>2, <2>3, <2>4, Running_looks
<1>5. CASE Build_step
  <2>1. todo[1].op = "build"
    BY <1>5 DEF Build_step, Op_is
  <2>2. CASE built' = src /\ made' = patched /\ Proceed
    <3>1. Files_as(Installed, V)' = Rebuilt(n.files, As(built', V), made' = {"prebuilt"})
      BY <1>1, Building_looks
    <3>2. (made' = {"prebuilt"}) = FALSE
      BY <1>3, <2>2
    <3>3. Files_as(Installed, V)' = Rebuilt(n.files, n.files.src, FALSE)
      BY <1>2, <2>2, <3>1, <3>2
    <3>4. Build_seen(n, "build", What) = Rebuilt(n.files, n.files.src, FALSE)
      BY DEF Build_seen
    <3> QED
      BY <1>1, <2>1, <2>2, <3>3, <3>4, Running_looks
  <2>3. CASE built' = Torn /\ UNCHANGED made /\ Break
    <3>1. Files_as(Installed, V)' = Broken_runtime(n.files)
      BY <1>1, <1>2, <2>3, Writing_looks DEF Broken_runtime
    <3>2. Files_as(Installed, V)' \in Fails(n, "build")
      BY <3>1, Failing
    <3> QED
      BY <1>1, <2>1, <2>3, <3>2, Running_looks
  <2> QED
    BY <1>5, <2>2, <2>3 DEF Build_step
<1>6. CASE Activate_step
  <2>1. todo[1].op = "activate"
    BY <1>6, Zenon DEF Activate_step, Op_is
  <2>2. CASE /\ built' = (IF What = "prebuilt" THEN goal ELSE src)
             /\ made' = (IF What = "prebuilt" THEN {"prebuilt"} ELSE patched)
             /\ Proceed
    <3>1. Files_as(Installed, V)' = Rebuilt(n.files, As(built', V), made' = {"prebuilt"})
      BY <1>1, Building_looks
    <3>2. (made' = {"prebuilt"}) = (What = "prebuilt")
      BY <1>3, <2>2
    <3>3. As(built', V) = IF What = "prebuilt" THEN n.goal ELSE n.files.src
      BY <1>2, <2>2
    <3>4. Files_as(Installed, V)' = Rebuilt(n.files, IF What = "prebuilt" THEN n.goal
                                                     ELSE n.files.src, What = "prebuilt")
      BY <3>1, <3>2, <3>3
    <3>5. Build_seen(n, "activate", What) = Rebuilt(n.files, IF What = "prebuilt" THEN n.goal
                                                             ELSE n.files.src, What = "prebuilt")
      BY DEF Build_seen
    <3> QED
      BY <1>1, <2>1, <2>2, <3>4, <3>5, Running_looks
  <2>3. CASE Break /\ UNCHANGED <<built, made>>
    <3>1. Files_as(Installed, V)' \in Fails(n, "activate")
      BY <1>1, <2>3, Nothing_lost
    <3> QED
      BY <1>1, <2>1, <2>3, <3>1, Running_looks
  <2> QED
    BY <1>6, <2>2, <2>3, Zenon DEF Activate_step
<1>7. CASE Swap_step
  <2>1. todo[1].op = "swap" /\ UNCHANGED made
    BY <1>7 DEF Swap_step, Op_is
  <2>2. CASE built' = goal /\ Proceed
    <3>1. Files_as(Installed, V)' = Rebuilt(n.files, n.goal, n.files.prebuilt)
      BY <1>1, <1>2, <2>1, <2>2, Writing_looks
    <3>2. Build_seen(n, "swap", What) = Rebuilt(n.files, n.goal, n.files.prebuilt)
      BY DEF Build_seen
    <3> QED
      BY <1>1, <2>1, <2>2, <3>1, <3>2, Running_looks
  <2>3. CASE Break /\ UNCHANGED built
    <3>1. Files_as(Installed, V)' \in Fails(n, "swap")
      BY <1>1, <2>1, <2>3, Nothing_lost
    <3> QED
      BY <1>1, <2>1, <2>3, <3>1, Running_looks
  <2> QED
    BY <1>7, <2>2, <2>3 DEF Swap_step
<1> QED
  BY <1>4, <1>5, <1>6, <1>7

LEMMA Refresh_seen ==
  ASSUME NEW V, NEW n, Running(n, V), Refresh_step, Recovers'
  PROVE  Sight(V)' \in After_sight(n)
<1>1. /\ UNCHANGED <<config, pin, branch_state, src, marker, made, aside>> /\ todo[1].op = "refresh"
      /\ scarred' = (scarred \/ Torn \in {src', built'})
  BY DEF Refresh_step, Op_is, Runtime_only, Steady, Scar
<1>2. /\ {src, built, Half(built)} \subseteq Contents /\ V \in Version /\ Typed /\ Looking(n, V)
      /\ As(Half(built), V) = Halved(n.files.built)
  <2>1. /\ {src, built} \subseteq Contents /\ V \in Version /\ Typed /\ Looking(n, V)
        /\ n.files.built = As(built, V)
    BY Files_seen, Seen_fields DEF Running
  <2> QED
    BY <2>1, Half_looks
<1>3. CASE UNCHANGED built /\ Proceed
  <2>1. Files_as(Installed, V)' \in {n.files}
    BY <1>1, <1>3, Disk_kept
  <2>2. Files_as(Installed, V)' \in Unscarred(n, {n.files})
    BY <1>1, <1>2, <1>3, <2>1, Scars
  <2>3. Now(V)' \in Puts(n, Unscarred(n, {n.files}))
    BY <1>1, <1>3, <2>2, Putting DEF Proceed
  <2>4. Now(V)' \in Goes(n, "refresh", What)
    BY <2>3, Going
  <2> QED
    BY <1>1, <1>3, <2>4, Went_on DEF Proceed
<1>4. CASE built' = Half(built) /\ Break
  <2> DEFINE f == Rebuilt(n.files, Halved(n.files.built), n.files.prebuilt)
  <2>1. Files_as(Installed, V)' \in {f}
    BY <1>1, <1>2, <1>4, Writing_looks
  <2>2. Files_as(Installed, V)' \in Unscarred(n, {f})
    <3> HIDE DEF f
    <3> QED
      BY <1>1, <1>2, <1>4, <2>1, Scars
  <2>3. Files_as(Installed, V)' \in Fails(n, todo[1].op) /\ "fault" \in Survives(service)
    BY <1>1, <1>2, <1>4, <2>2, Failing, Faulty DEF Break
  <2> QED
    BY <1>1, <1>4, <2>3, Failed DEF Break
<1> QED
  BY <1>3, <1>4 DEF Refresh_step

\* Records of what is installed.
LEMMA Marking_looks ==
  ASSUME NEW V, NEW n, Running(n, V), UNCHANGED <<src, built, made>>
  PROVE  Files_as(Installed, V)' = [n.files EXCEPT !.marker = As(marker', V)]
<1>1. /\ n.files = [src |-> As(src, V), built |-> As(built, V), marker |-> As(marker, V),
                    prebuilt |-> (made = {"prebuilt"})]
      /\ Files_as(Installed, V)' = [src |-> As(src', V), built |-> As(built', V),
                                    marker |-> As(marker', V), prebuilt |-> (made' = {"prebuilt"})]
  BY Files_seen
<1> QED
  BY <1>1

LEMMA Marks_look ==
  ASSUME NEW V, NEW n, Running(n, V), NEW v \in Marks
  PROVE  As(v, V) \in Marks_seen(n, What)
<1>1. /\ n.files.src = As(src, V) /\ n.goal = As(goal, V) /\ n.files.marker = As(marker, V)
      /\ n.service = service /\ V \in Version /\ mode # "branch" /\ src \in Contents
  BY Seen_fields, Files_seen DEF Running, Pin_modes
<1>2. CASE service \in Unwritable
  <2>1. Marks = {marker} /\ Marks_seen(n, What) = {n.files.marker}
    BY <1>1, <1>2, Zenon DEF Marks, Marks_seen
  <2> QED
    BY <1>1, <2>1
<1>3. CASE service \notin Unwritable /\ What # "package.json"
  BY <1>1, <1>3, Zenon DEF Marks, Marks_seen
<1>4. CASE service \notin Unwritable /\ What = "package.json"
  <2>1. /\ src = Torn => As(src, V) = "torn"
        /\ src # Torn => As(src, V) # "torn"
        /\ src = Nothing <=> As(src, V) = "none"
    BY <1>1, Looks
  <2>2. Marks = CASE src = Torn -> Version [] src = Nothing -> {marker} [] OTHER -> {src}
    BY <1>4, Zenon DEF Marks
  <2>3. CASE src = Torn
    <3>1. As(v, V) \in Versions_seen
      BY <1>1, <2>2, <2>3, Looks DEF Contents
    <3>2. Marks_seen(n, What) = Versions_seen
      BY <1>1, <1>4, <2>1, <2>3, Zenon DEF Marks_seen
    <3> QED
      BY <3>1, <3>2
  <2>4. CASE src = Nothing
    <3>1. n.files.src = "none" /\ n.files.src # "torn"
      BY <1>1, <2>1, <2>4
    <3>2. Marks_seen(n, What) = {n.files.marker}
      BY <1>1, <1>4, <3>1, Zenon DEF Marks_seen
    <3>3. v = marker
      BY <2>2, <2>4, SetupAssumption
    <3> QED
      BY <1>1, <3>2, <3>3
  <2>5. CASE src # Torn /\ src # Nothing
    <3>1. Marks_seen(n, What) = {n.files.src}
      BY <1>1, <1>4, <2>1, <2>5, Zenon DEF Marks_seen
    <3> QED
      BY <1>1, <2>2, <2>5, <3>1
  <2> QED
    BY <2>3, <2>4, <2>5
<1> QED
  BY <1>2, <1>3, <1>4

LEMMA Mark_seen ==
  ASSUME NEW V, NEW n, Running(n, V), Mark_step, Recovers'
  PROVE  Sight(V)' \in After_sight(n)
<1> DEFINE kept == If_survived(n, "fault", {n.files.marker})
           F == {[n.files EXCEPT !.marker = v] : v \in Marks_seen(n, What) \cup kept}
<1>1. /\ UNCHANGED <<config, pin, branch_state, src, built, made, aside, goal>>
      /\ todo[1].op = "mark" /\ Typed /\ n.service = service
      /\ n.files.marker = As(marker, V)
  BY Seen_fields, Files_seen DEF Running, Mark_step, Op_is, Steady, Proceed, Stop
<1>2. ASSUME Advance, As(marker', V) \in Marks_seen(n, What) \cup kept
      PROVE  Sight(V)' \in After_sight(n)
  <2>1. Files_as(Installed, V)' = [n.files EXCEPT !.marker = As(marker', V)]
    BY <1>1, Marking_looks
  <2>2. Files_as(Installed, V)' \in F
    BY <1>2, <2>1
  <2>3. Now(V)' \in Puts(n, F)
    <3> HIDE DEF F
    <3> QED
      BY <1>1, <2>2, Putting
  <2>4. Goes(n, "mark", What) = Puts(n, F)
    BY Zenon DEF Goes
  <2> QED
    BY <1>1, <1>2, <2>3, <2>4, Went_on
<1>3. CASE marker' \in Marks /\ Proceed
  <2>1. As(marker', V) \in Marks_seen(n, What)
    BY <1>3, Marks_look
  <2> QED
    BY <1>2, <1>3, <2>1 DEF Proceed
<1>4. CASE UNCHANGED marker /\ Fault /\ Advance
  <2>1. "fault" \in Survives(n.service)
    BY <1>1, <1>4, Faulty
  <2>2. As(marker', V) \in kept
    BY <1>1, <1>4, <2>1 DEF If_survived
  <2> QED
    BY <1>2, <1>4, <2>2
<1>5. CASE UNCHANGED marker /\ Fault /\ Stop
  <2>1. Files_as(Installed, V)' \in Fails(n, todo[1].op) /\ "fault" \in Survives(service)
    BY <1>1, <1>5, Nothing_lost, Faulty
  <2> QED
    BY <1>1, <1>5, <2>1, Failed
<1> QED
  BY <1>3, <1>4, <1>5 DEF Mark_step

LEMMA Record_seen ==
  ASSUME NEW V, NEW n, Running(n, V), Record_step, Recovers'
  PROVE  Sight(V)' \in After_sight(n)
<1> DEFINE kept == If_survived(n, "fault", {n.recorded})
<1>1. /\ UNCHANGED <<config, pin, src, built, marker, made, aside, goal>> /\ Advance
      /\ todo[1].op = "record" /\ Typed /\ n.service = service /\ mode # "branch"
      /\ n.recorded = As(branch_state, V) /\ n.goal = As(goal, V) /\ n.files = Files_as(Installed, V)
  BY Seen_fields, Files_seen DEF Running, Record_step, Op_is, disk, Pin_modes
<1>2. Now(V)' = [Effect(n) EXCEPT !.recorded = As(branch_state', V)]
  BY <1>1, Effect_now, Disk_kept, Aside_kept DEF Now
<1>3. As(branch_state', V) \in {n.goal} \cup kept
  <2>1. CASE branch_state' = goal
    BY <1>1, <2>1
  <2>2. CASE UNCHANGED branch_state /\ Fault
    BY <1>1, <2>2, Faulty DEF If_survived
  <2> QED
    BY <1>1, <2>1, <2>2 DEF Record_step
<1>4. Goes(n, "record", What) = {[Effect(n) EXCEPT !.recorded = v] : v \in {n.goal} \cup kept}
  BY Zenon DEF Goes
<1> QED
  BY <1>1, <1>2, <1>3, <1>4, Went_on

-----------------------------------------------------------------------------
(* How a setup begins and ends, and what happens around it.                  *)

LEMMA At_idle ==
  ASSUME NEW n, n.phase = "idle"
  PROVE  After_sight(n) = Asked_for(n) \cup {Repinned(n, v) : v \in Pins(n)}
BY DEF After_sight, Phases

LEMMA When_failing ==
  ASSUME NEW n, n.phase = "failing"
  PROVE  After_sight(n) = Killed(n) \cup To_idle(n, Unscarred(n, Given_up(n)))
BY DEF After_sight, Phases

LEMMA Ended ==
  ASSUME NEW V, NEW n, Looking(n, V), UNCHANGED <<config, pin, branch_state>>,
         phase' = "idle", todo' = <<>>, aside' = Nothing
  PROVE  Sight(V)' = Outside(n, "idle", Files_as(Installed, V)', No_files)
<1>1. /\ n.service = service /\ n.mode = mode /\ n.pin = As(pin, V)
      /\ n.recorded = As(branch_state, V)
  BY Seen_fields
<1>2. UNCHANGED <<service, mode>> /\ Aside_as(V)' = No_files
  BY DEF config, Aside_as
<1> QED
  BY <1>1, <1>2 DEF Sight, Outside, Phases

LEMMA Started ==
  ASSUME NEW V, NEW n, Looking(n, V), UNCHANGED <<config, pin, branch_state, disk, aside>>,
         phase' \in Phases, goal' = Nothing
  PROVE  Sight(V)' = Begun(n, phase', todo', entry' # "configure")
<1>1. /\ n.service = service /\ n.mode = mode /\ n.pin = As(pin, V)
      /\ n.recorded = As(branch_state, V) /\ n.files = Files_as(Installed, V)
      /\ n.aside = Aside_as(V)
  BY Seen_fields
<1>2. UNCHANGED <<service, mode, install_cache>> /\ install_cache
  BY DEF config, Looking, Expected
<1>3. Files_as(Installed, V)' = Files_as(Installed, V) /\ Aside_as(V)' = Aside_as(V)
  BY DEF Files_as, Aside_as, Installed, disk
<1>4. As(goal', V) = "none"
  BY Looks DEF Looking, Contents
<1>5. In_scope' = (entry' # "configure")
  BY <1>2 DEF In_scope
<1> QED
  BY <1>1, <1>2, <1>3, <1>4, <1>5 DEF Sight, Begun

LEMMA Ask_seen ==
  ASSUME NEW V, NEW n, Looking(n, V), NEW e \in {"setup", "install", "configure"}, Ask(e)
  PROVE  Sight(V)' \in After_sight(n)
<1>1. /\ UNCHANGED <<config, pin, branch_state, disk, aside>> /\ goal' = Nothing
      /\ phase = "idle" /\ entry' = e
  BY DEF Ask, Begin
<1>2. n.service = service /\ n.phase = "idle" /\ Program[service] = Setup_project_inner(service)
  BY <1>1, Seen_fields DEF Looking, Typed, Program
<1>3. \/ e # "configure" /\ phase' = "install" /\ todo' = Setup_project_inner(service)
      \/ e = "configure" /\ phase' = "configure" /\ todo' = Setup_project_inner(service)
      \/ e = "configure" /\ phase' = "configure" /\ todo' = <<>>
  BY <1>2 DEF Ask, Begin
<1>4. Sight(V)' = Begun(n, phase', todo', entry' # "configure")
  BY <1>1, <1>3, Started DEF Phases
<1>5. Sight(V)' \in Asked_for(n)
  <2>1. (entry' # "configure") \in BOOLEAN /\ ((entry' # "configure") = (e # "configure"))
    BY <1>1
  <2>2. CASE e # "configure"
    <3>1. (entry' # "configure") = TRUE
      BY <2>1, <2>2
    <3> QED
      BY <1>2, <1>3, <1>4, <2>2, <3>1 DEF Asked_for
  <2>3. CASE e = "configure"
    <3>1. (entry' # "configure") = FALSE
      BY <2>1, <2>3
    <3> QED
      BY <1>2, <1>3, <1>4, <2>3, <3>1 DEF Asked_for
  <2> QED
    BY <2>2, <2>3
<1> QED
  BY <1>2, <1>5, At_idle

LEMMA Configuring_seen ==
  ASSUME NEW V, NEW n, Looking(n, V), Then_configure
  PROVE  Sight(V)' \in After_sight(n)
<1>1. /\ UNCHANGED <<config, pin, branch_state, disk, aside, entry>> /\ goal' = Nothing
      /\ phase = "install" /\ todo = <<>> /\ phase' = "configure" /\ todo' = Program[service]
  BY DEF Then_configure, Begin, Read_only, Steady
<1>2. /\ n.service = service /\ n.phase = "install" /\ n.todo = <<>>
      /\ n.scoped = (entry # "configure")
      /\ Program[service] = Setup_project_inner(service)
  BY <1>1, Seen_fields DEF Looking, Typed, Program, Phases
<1>3. Sight(V)' = Begun(n, "configure", Setup_project_inner(n.service), n.scoped)
  BY <1>1, <1>2, Started DEF Phases
<1> QED
  BY <1>2, <1>3 DEF After_sight, Phases

LEMMA Succeed_seen ==
  ASSUME NEW V, NEW n, Looking(n, V), Succeed
  PROVE  Sight(V)' \in After_sight(n)
<1>1. /\ UNCHANGED <<config, pin, branch_state, disk>> /\ phase \in Phases /\ todo = <<>>
      /\ phase' = "idle" /\ todo' = <<>> /\ aside' = Nothing
  BY DEF Succeed, Phases
<1>2. n.phase = phase /\ n.todo = <<>> /\ n.files = Files_as(Installed, V)
  BY <1>1, Seen_fields
<1>3. Files_as(Installed, V)' = n.files
  BY <1>1, <1>2 DEF Files_as, Installed, disk
<1>4. Sight(V)' \in To_idle(n, {n.files})
  BY <1>1, <1>3, Ended DEF To_idle
<1>5. n.phase # "idle" /\ n.phase # "failing"
  BY <1>1, <1>2 DEF Phases
<1> QED
  BY <1>1, <1>2, <1>4, <1>5 DEF After_sight

LEMMA Repin_seen ==
  ASSUME NEW V, NEW n, Looking(n, V), Repin, pin' \in Version \cup {Channel}
  PROVE  Sight(V)' \in After_sight(n)
<1>1. /\ UNCHANGED <<config, run, branch_state, disk, aside>> /\ phase = "idle"
      /\ pin' = Channel => mode # "commit"
  BY SetupAssumption DEF Repin, Looking, Typed, Version
<1>2. UNCHANGED <<service, mode, phase, todo>> /\ phase \notin Phases
  BY <1>1 DEF config, run, Phases
<1>3. /\ n.service = service /\ n.mode = mode /\ n.phase = phase /\ n.todo = todo
      /\ n.recorded = As(branch_state, V) /\ n.files = Files_as(Installed, V)
      /\ n.aside = Aside_as(V)
  BY Seen_fields
<1>4. n.scoped = TRUE /\ n.goal = "none"
  BY <1>2 DEF Looking, Sight
<1>5. Files_as(Installed, V)' = Files_as(Installed, V) /\ Aside_as(V)' = Aside_as(V)
  BY <1>1 DEF Files_as, Aside_as, Installed, disk
<1>6. Sight(V)' = Repinned(n, As(pin', V))
  BY <1>1, <1>2, <1>3, <1>4, <1>5 DEF Sight, Repinned
<1>7. As(pin', V) \in Pins(n)
  <2>1. V \in Version /\ pin' \in Contents
    BY DEF Looking, Contents
  <2>2. CASE pin' = Channel
    BY <1>1, <1>3, <2>1, <2>2, Looks DEF Pins
  <2>3. CASE pin' \in Version
    BY <2>1, <2>3, Looks DEF Pins
  <2> QED
    BY <2>2, <2>3
<1>8. n.phase = "idle" /\ Repinned(n, As(pin', V)) \in {Repinned(n, v) : v \in Pins(n)}
  BY <1>1, <1>3, <1>7
<1> QED
  BY <1>6, <1>8, At_idle

LEMMA Nothing_seen ==
  ASSUME NEW V, UNCHANGED <<config, pin, run, branch_state, disk, aside>>
  PROVE  Sight(V)' = Sight(V)
<1>1. UNCHANGED <<service, mode, install_cache, phase, todo, entry, goal>>
  BY DEF config, run
<1>2. Files_as(Installed, V)' = Files_as(Installed, V) /\ Aside_as(V)' = Aside_as(V)
  BY DEF Files_as, Aside_as, Installed, disk
<1>3. In_scope' = In_scope
  BY <1>1 DEF In_scope
<1> QED
  BY <1>1, <1>2, <1>3 DEF Sight
\* What is given back, or left where the container was killed.
LEMMA Files_left ==
  ASSUME NEW V, NEW n, Looking(n, V)
  PROVE  /\ V \in Version /\ Typed /\ n.service = service
         /\ Kept(n) = Environment_kept
         /\ n.files = [src |-> As(src, V), built |-> As(built, V), marker |-> As(marker, V),
                       prebuilt |-> (made = {"prebuilt"})]
         /\ Files_as(Installed, V)' = [src |-> As(src', V), built |-> As(built', V),
                                       marker |-> As(marker', V), prebuilt |-> (made' = {"prebuilt"})]
         /\ {src, built, marker} \subseteq Contents /\ {Torn, Nothing} \subseteq Contents
<1>1. n.service = service /\ n.files = Files_as(Installed, V)
  BY Seen_fields
<1>2. {src, built, marker} \subseteq Contents
  BY Contents_now DEF Looking
<1> QED
  BY <1>1, <1>2 DEF Files_as, Installed, Looking, Contents, Kept, Environment_kept

LEMMA Aside_left ==
  ASSUME NEW V, NEW n, Looking(n, V), aside # Nothing
  PROVE  /\ n.aside = [src |-> As(aside.src, V), built |-> As(aside.built, V),
                       marker |-> As(aside.marker, V), prebuilt |-> (aside.made = {"prebuilt"})]
         /\ n.aside.src = As(aside.src, V) /\ n.aside.built = As(aside.built, V)
         /\ n.aside # No_files /\ {aside.src, aside.built, aside.marker} \subseteq Contents
<1>1. n.aside = Files_as(aside, V)
  BY Seen_fields DEF Aside_as
<1>2. {aside.src, aside.built, aside.marker} \subseteq Contents
  BY DEF Looking, Asides, Files_typed, Content, Contents
<1>3. As(aside.marker, V) # "absent"
  BY <1>2, Looks DEF Looking, Versions_seen
<1> QED
  BY <1>1, <1>2, <1>3 DEF Files_as, No_files

LEMMA Half_back_looks ==
  ASSUME NEW V, NEW n, Looking(n, V), aside # Nothing, Half_restored
  PROVE  Files_as(Installed, V)' = Half_back(n)
<1>1. /\ n.files = [src |-> As(src, V), built |-> As(built, V), marker |-> As(marker, V),
                     prebuilt |-> (made = {"prebuilt"})]
      /\ Files_as(Installed, V)' = [src |-> As(src', V), built |-> As(built', V),
                                    marker |-> As(marker', V), prebuilt |-> (made' = {"prebuilt"})]
      /\ {src, built} \subseteq Contents /\ V \in Version /\ Kept(n) = Environment_kept
  BY Files_left
<1>2. n.aside.src = As(aside.src, V) /\ n.aside.built = As(aside.built, V)
  BY Aside_left
<1>3. {aside.src, aside.built} \subseteq Contents
  BY Aside_left
<1>4. /\ n.aside.src = "none" <=> aside.src = Nothing
      /\ n.aside.built = "none" <=> aside.built = Nothing
  BY <1>1, <1>2, <1>3, Looks
<1>5. /\ As(Half(src), V) = Halved(As(src, V)) /\ As(Half(built), V) = Halved(As(built, V))
      /\ As(Torn, V) = "torn"
  BY <1>1, Half_looks
<1>6. As(src', V) = (IF n.aside.src = "none" THEN Halved(As(src, V)) ELSE "torn")
  BY <1>4, <1>5 DEF Half_restored
<1>7. As(built', V) = (IF Kept(n) THEN As(built, V)
                       ELSE IF n.aside.built = "none" THEN Halved(As(built, V)) ELSE "torn")
  BY <1>1, <1>4, <1>5 DEF Half_restored
<1>8. UNCHANGED <<marker, made>>
  BY DEF Half_restored
<1> QED
  BY <1>1, <1>6, <1>7, <1>8 DEF Half_back

LEMMA Back_looks ==
  ASSUME NEW V, NEW n, Looking(n, V), aside # Nothing, Give_back
  PROVE  Files_as(Installed, V)' = Back(n)
<1>1. /\ n.files = [src |-> As(src, V), built |-> As(built, V), marker |-> As(marker, V),
                     prebuilt |-> (made = {"prebuilt"})]
      /\ Files_as(Installed, V)' = [src |-> As(src', V), built |-> As(built', V),
                                    marker |-> As(marker', V), prebuilt |-> (made' = {"prebuilt"})]
      /\ Kept(n) = Environment_kept
  BY Files_left
<1>2. n.aside = [src |-> As(aside.src, V), built |-> As(aside.built, V),
                 marker |-> As(aside.marker, V), prebuilt |-> (aside.made = {"prebuilt"})]
  BY Aside_left
<1>3. CASE Environment_kept
  <2>1. src' = aside.src /\ marker' = aside.marker /\ UNCHANGED <<built, made>>
    BY <1>3 DEF Give_back
  <2>2. (made' = {"prebuilt"}) = n.files.prebuilt
    BY <1>1, <2>1
  <2> QED
    BY <1>1, <1>2, <1>3, <2>1, <2>2 DEF Back
<1>4. CASE ~Environment_kept
  <2>1. src' = aside.src /\ marker' = aside.marker /\ built' = aside.built /\ made' = aside.made
    BY <1>4 DEF Give_back
  <2>2. (made' = {"prebuilt"}) = n.aside.prebuilt
    BY <1>2, <2>1
  <2> QED
    BY <1>1, <1>2, <1>4, <2>1, <2>2 DEF Back
<1> QED
  BY <1>3, <1>4

LEMMA Give_up_seen ==
  ASSUME NEW V, NEW n, Looking(n, V), Give_up, todo = <<>>, Recovers'
  PROVE  Sight(V)' \in After_sight(n)
<1>1. /\ UNCHANGED <<config, pin, branch_state>> /\ phase = "failing"
      /\ phase' = "idle" /\ todo' = <<>> /\ aside' = Nothing
      /\ scarred' = (scarred \/ Torn \in {src', built'})
  BY Zenon DEF Give_up, Scar
<1>2. n.service = service /\ n.phase = "failing" /\ n.aside = Aside_as(V) /\ Typed
  BY <1>1, Seen_fields DEF Looking
<1>3. {src', built'} \subseteq Contents
  <2>1. Files_typed(Installed)'
    BY Given_back DEF Looking
  <2> QED
    BY <2>1 DEF Files_typed, Installed, Content, Contents, Version
<1>4. Files_as(Installed, V)' \in Given_up(n)
  <2>1. CASE aside = Nothing /\ UNCHANGED disk
    <3>1. n.aside = No_files
      BY <1>2, <2>1 DEF Aside_as
    <3>2. Files_as(Installed, V)' = n.files
      BY <2>1, Seen_fields DEF Files_as, Installed, disk
    <3> QED
      BY <3>1, <3>2 DEF Given_up
  <2>2. CASE aside # Nothing /\ Give_back
    BY <2>2, Aside_left, Back_looks DEF Given_up
  <2>3. CASE aside # Nothing /\ Half_restored /\ Fault
    <3>1. "fault" \in Survives(n.service)
      BY <1>1, <1>2, <2>3, Faulty
    <3> QED
      BY <2>3, <3>1, Aside_left, Half_back_looks DEF Given_up, If_survived
  <2> QED
    BY <2>1, <2>2, <2>3, Zenon DEF Give_up
<1>5. Files_as(Installed, V)' \in Unscarred(n, Given_up(n))
  BY <1>1, <1>3, <1>4, Scars
<1>6. Sight(V)' \in To_idle(n, Unscarred(n, Given_up(n)))
  BY <1>1, <1>5, Ended DEF To_idle
<1> QED
  BY <1>2, <1>6, When_failing
LEMMA Working_halved ==
  ASSUME NEW n, NEW w
  PROVE  /\ Half_worked(n, "clear", w) = Half_cleared(n)
         /\ Half_worked(n, "tidy", w) = [n.files EXCEPT !.src = Halved(@)]
         /\ Half_worked(n, "unpack", w) = Unpacked(n.files, "torn", w)
         /\ \A o \in {"write", "attempt", "build", "activate"} :
              Half_worked(n, o, w) = Broken_runtime(n.files)
         /\ Half_worked(n, "refresh", w) = Rebuilt(n.files, Halved(n.files.built), n.files.prebuilt)
         /\ Half_worked(n, "swap", w) = Rebuilt(n.files, "none", n.files.prebuilt)
BY DEF Half_worked

LEMMA Half_working ==
  ASSUME phase \in Phases, todo # <<>>, Half_done
  PROVE  /\ todo[1].op = "clear" =>
              /\ src' = Half(src) /\ UNCHANGED <<marker, made>>
              /\ built' = IF Environment_kept THEN built ELSE Half(built)
         /\ todo[1].op = "tidy" => src' = Half(src) /\ UNCHANGED <<built, marker, made>>
         /\ todo[1].op = "unpack" =>
              /\ src' = Torn /\ UNCHANGED <<marker, made>>
              /\ built' = (IF What = "runtime" THEN Torn ELSE built)
         /\ todo[1].op \in {"write", "attempt", "build", "activate"} =>
              built' = Torn /\ UNCHANGED <<src, marker, made>>
         /\ todo[1].op = "refresh" => built' = Half(built) /\ UNCHANGED <<src, marker, made>>
         /\ todo[1].op = "swap" => built' = Nothing /\ UNCHANGED <<src, marker, made>>
         /\ todo[1].op \notin {"clear", "tidy", "unpack", "write", "attempt", "build", "activate",
                               "refresh", "swap"} => UNCHANGED disk
<1>1. phase # "failing" /\ \A o : Op_is(o) <=> todo[1].op = o
  BY DEF Op_is, Phases
<1> QED
  BY <1>1 DEF Half_done, Unpack_this

LEMMA Killed_looks ==
  ASSUME NEW V, NEW n, Looking(n, V), Half_done \/ UNCHANGED disk, phase # "idle"
  PROVE  Files_as(Installed, V)' \in Cut_short(n)
<1>1. /\ n.files = [src |-> As(src, V), built |-> As(built, V), marker |-> As(marker, V),
                     prebuilt |-> (made = {"prebuilt"})]
      /\ Files_as(Installed, V)' = [src |-> As(src', V), built |-> As(built', V),
                                    marker |-> As(marker', V), prebuilt |-> (made' = {"prebuilt"})]
      /\ {src, built} \subseteq Contents /\ V \in Version /\ Kept(n) = Environment_kept
  BY Files_left
<1>2. n.phase = phase /\ n.todo = todo
  BY Seen_fields
<1>3. CASE UNCHANGED disk
  BY <1>1, <1>3 DEF disk, Cut_short
<1>4. CASE phase = "failing" /\ aside # Nothing /\ Half_restored
  <2>1. Files_as(Installed, V)' \in {f \in {Half_back(n)} : n.aside # No_files}
    BY <1>4, Half_back_looks, Aside_left
  <2> QED
    BY <1>2, <1>4, <2>1 DEF Cut_short
<1>5. CASE phase \in Phases /\ todo # <<>> /\ Half_done
  <2> DEFINE o == todo[1].op
  <2>1. Half_worked(n, o, What) \in Cut_short(n)
    BY <1>2, <1>5 DEF Cut_short, What, Phases
  <2>2. /\ As(Half(src), V) = Halved(As(src, V)) /\ As(Half(built), V) = Halved(As(built, V))
        /\ As(Torn, V) = "torn" /\ As(Nothing, V) = "none"
    BY <1>1, Half_looks
  <2>3. CASE o = "clear"
    <3>1. /\ src' = Half(src) /\ UNCHANGED <<marker, made>>
          /\ built' = IF Environment_kept THEN built ELSE Half(built)
      BY <1>5, <2>3, Half_working
    <3>2. Files_as(Installed, V)' = Half_cleared(n)
      <4>1. As(built', V) = IF Kept(n) THEN As(built, V) ELSE Halved(As(built, V))
        BY <1>1, <2>2, <3>1
      <4> QED
        BY <1>1, <2>2, <3>1, <4>1 DEF Half_cleared
    <3> QED
      BY <2>1, <2>3, <3>2, Working_halved
  <2>4. CASE o = "tidy"
    <3>1. src' = Half(src) /\ UNCHANGED <<built, marker, made>>
      BY <1>5, <2>4, Half_working
    <3>2. Files_as(Installed, V)' = [n.files EXCEPT !.src = Halved(@)]
      BY <1>1, <2>2, <3>1
    <3> QED
      BY <2>1, <2>4, <3>2, Working_halved
  <2>5. CASE o = "unpack"
    <3>1. /\ src' = Torn /\ UNCHANGED <<marker, made>>
          /\ built' = (IF What = "runtime" THEN Torn ELSE built)
      BY <1>5, <2>5, Half_working
    <3>2. Files_as(Installed, V)' = Unpacked(n.files, "torn", What)
      BY <1>1, <2>2, <3>1 DEF Unpacked
    <3> QED
      BY <2>1, <2>5, <3>2, Working_halved
  <2>6. CASE o \in {"write", "attempt", "build", "activate"}
    <3>1. built' = Torn /\ UNCHANGED <<src, marker, made>>
      BY <1>5, <2>6, Half_working
    <3>2. Files_as(Installed, V)' = Broken_runtime(n.files)
      BY <1>1, <2>2, <3>1 DEF Broken_runtime, Rebuilt
    <3> QED
      BY <2>1, <2>6, <3>2, Working_halved
  <2>7. CASE o = "refresh"
    <3>1. built' = Half(built) /\ UNCHANGED <<src, marker, made>>
      BY <1>5, <2>7, Half_working
    <3>2. Files_as(Installed, V)' = Rebuilt(n.files, Halved(n.files.built), n.files.prebuilt)
      BY <1>1, <2>2, <3>1 DEF Rebuilt
    <3> QED
      BY <2>1, <2>7, <3>2, Working_halved
  <2>8. CASE o = "swap"
    <3>1. built' = Nothing /\ UNCHANGED <<src, marker, made>>
      BY <1>5, <2>8, Half_working
    <3>2. Files_as(Installed, V)' = Rebuilt(n.files, "none", n.files.prebuilt)
      BY <1>1, <2>2, <3>1 DEF Rebuilt
    <3> QED
      BY <2>1, <2>8, <3>2, Working_halved
  <2>9. CASE o \notin {"clear", "tidy", "unpack", "write", "attempt", "build", "activate",
                       "refresh", "swap"}
    BY <1>3, <1>5, <2>9, Half_working
  <2> QED
    BY <2>3, <2>4, <2>5, <2>6, <2>7, <2>8, <2>9
<1>6. \/ UNCHANGED disk
      \/ phase = "failing" /\ aside # Nothing /\ Half_restored
      \/ phase \in Phases /\ todo # <<>> /\ Half_done
  <2>1. CASE phase = "failing" /\ aside # Nothing
    BY <2>1 DEF Half_done, Op_is
  <2>2. CASE ~(phase = "failing" /\ aside # Nothing)
    BY <2>2 DEF Half_done, Op_is, Phases
  <2> QED
    BY <2>1, <2>2
<1> QED
  BY <1>3, <1>4, <1>5, <1>6

LEMMA Kill_seen ==
  ASSUME NEW V, NEW n, Looking(n, V), Kill, n.phase \in Phases \cup {"idle", "failing"}, Recovers'
  PROVE  Sight(V)' \in After_sight(n)
<1>1. /\ UNCHANGED <<config, pin, branch_state>> /\ phase # "idle" /\ kills' = kills + 1
      /\ phase' = "idle" /\ todo' = <<>> /\ aside' = Nothing
      /\ scarred' = (scarred \/ Torn \in {src', built'}) /\ (Half_done \/ UNCHANGED disk)
  BY DEF Kill, Scar
<1>2. n.service = service /\ n.phase = phase /\ n.todo = todo /\ Typed
  BY Seen_fields DEF Looking
<1>3. "kill" \in Survives(n.service)
  <2>1. kills' > 0
    BY <1>1, <1>2 DEF Typed
  <2> QED
    BY <1>1, <1>2, <2>1, Survived
<1>4. {src', built'} \subseteq Contents
  <2>1. /\ src' \in {src, Half(src), Torn} /\ built' \in {built, Half(built), Torn, Nothing}
        /\ {src, built, Torn, Nothing} \subseteq Contents
    BY <1>1, Killed_files, Files_left
  <2> QED
    BY <2>1 DEF Half
<1>5. Files_as(Installed, V)' \in Unscarred(n, Cut_short(n))
  BY <1>1, <1>4, Killed_looks, Scars
<1>6. Sight(V)' \in Killed(n)
  BY <1>1, <1>3, <1>5, Ended DEF Killed, To_idle, If_survived
<1>7. Killed(n) \subseteq After_sight(n)
  <2>1. CASE n.phase = "failing"
    BY <2>1, When_failing
  <2>2. CASE n.phase \in Phases
    BY <2>2 DEF After_sight, Phases
  <2> QED
    BY <1>1, <1>2, <2>1, <2>2
<1> QED
  BY <1>6, <1>7
-----------------------------------------------------------------------------
(* What is seen of a setup is among the sights of its service.               *)

Seeing(Seen) == \A V \in Version : Expected => Sight(V) \in Seen[service]

\* A service that still recovers always did.
LEMMA Always_expected ==
  ASSUME Typed, [Next]_vars, Expected'
  PROVE  Expected /\ UNCHANGED config
<1>1. /\ UNCHANGED config /\ faults' \in {faults, faults + 1} /\ kills' \in {kills, kills + 1}
      /\ scarred => scarred'
  <2>1. CASE Steps
    <3>1. UNCHANGED config /\ faults' \in {faults, faults + 1} /\ UNCHANGED kills
      BY <2>1, Steps_frame
    <3>2. scarred => scarred'
      BY <2>1, Zenon
      DEF Steps, Choose, Call_step, Fail_step, Select_step, Resolve_step, Lookup_step, Head_step,
          Clear_step, Tidy_step, Unpack_step, Patch_step, Write_step, Build_step, Refresh_step,
          Activate_step, Swap_step, Mark_step, Record_step, Read_only, Runtime_only, Scar, ghosts
    <3> QED
      BY <3>1, <3>2
  <2>2. CASE \E e \in {"setup", "install", "configure"} : Ask(e)
    BY <2>2 DEF Ask
  <2>3. CASE Then_configure
    BY <2>3 DEF Then_configure, Read_only, Steady
  <2>4. CASE Succeed \/ Publish \/ Repin \/ UNCHANGED vars
    BY <2>4 DEF Succeed, Publish, Repin, vars, ghosts, bounds
  <2>5. CASE Give_up
    BY <2>5, Zenon DEF Give_up, Give_back, Fault, Scar
  <2>6. CASE Kill
    BY <2>6 DEF Kill, Scar
  <2> QED
    BY <2>1, <2>2, <2>3, <2>4, <2>5, <2>6 DEF Next, Steps
<1>2. (faults > 0 => faults' > 0) /\ (kills > 0 => kills' > 0)
  BY <1>1 DEF Typed
<1> QED
  BY <1>1, <1>2 DEF Expected, Recovers, config

LEMMA Seen_first ==
  ASSUME NEW Seen, \A s \in Services : Sighted(s, Seen[s]), Init
  PROVE  Seeing(Seen)
<1> SUFFICES ASSUME NEW V \in Version, Expected
             PROVE  Sight(V) \in First_sights(service)
  BY DEF Seeing, Sighted, Init
<1>1. /\ phase = "idle" /\ todo = <<>> /\ phase \notin Phases
      /\ src = Nothing /\ built = Nothing /\ marker = Nothing /\ made = {}
      /\ branch_state = Nothing /\ aside = Nothing
  BY DEF Init, Phases
<1>2. mode \in Modes(service) \cap Pin_modes /\ As(pin, V) \in Versions_seen \cup {"channel"}
  <2>1. pin \in Version \cup {Channel}
    BY SetupAssumption DEF Init, Version
  <2> QED
    BY <2>1, Looks DEF Init, Expected, Contents
<1>3. As(Nothing, V) = "none"
  BY Looks DEF Contents
<1>4. Files_as(Installed, V) =
        [src |-> "none", built |-> "none", marker |-> "none", prebuilt |-> FALSE]
  BY <1>1, <1>3 DEF Files_as, Installed
<1>5. Sight(V) =
        [service |-> service, mode |-> mode, phase |-> "idle", todo |-> <<>>, scoped |-> TRUE,
         goal |-> "none", pin |-> As(pin, V), recorded |-> "none",
         files |-> [src |-> "none", built |-> "none", marker |-> "none", prebuilt |-> FALSE],
         aside |-> No_files]
  BY <1>1, <1>3, <1>4 DEF Sight, Aside_as
<1> QED
  BY <1>2, <1>5 DEF First_sights

LEMMA Step_seen ==
  ASSUME NEW Nodes, Charted(Services, Nodes), IInv(Nodes), IInv(Nodes)', Next,
         NEW V, NEW n, Looking(n, V), At_rest(n), Recovers'
  PROVE  Sight(V)' \in After_sight(n) \cup {n}
<1>1. Typed /\ n.phase = phase /\ n.todo = todo /\ (phase \notin Phases => todo = <<>>)
  BY Seen_fields DEF Looking, At_rest
<1>2. CASE Steps
  <2>1. Running(n, V)
    BY <1>2, Steps_frame DEF Running
  <2>2. CASE Choose
    <3>1. PICK m : Stands(m, Mishaps)
      BY <2>1, Standing, Spared DEF Running, Looking
    <3>2. m.todo = todo /\ Tests_known(m) /\ todo[1].op = "if" /\ todo # <<>>
      BY <2>2, <3>1, Zenon DEF Stands, Is_at, In_order, Choose, Op_is
    <3>3. What \in Tests
      BY <3>2 DEF Tests_known, At, What
    <3> QED
      BY <2>1, <2>2, <3>2, <3>3, Chose
  <2> QED
    BY <1>2, <2>1, <2>2, Call_seen, Choice_seen, Tidy_seen, Clear_seen, Unpack_seen, Patch_seen,
       Runtime_seen, Refresh_seen, Mark_seen, Record_seen DEF Steps
<1>3. CASE \E e \in {"setup", "install", "configure"} : Ask(e)
  BY <1>3, Ask_seen
<1>4. CASE Then_configure
  BY <1>4, Configuring_seen
<1>5. CASE Succeed
  BY <1>5, Succeed_seen
<1>6. CASE Give_up
  <2>1. todo = <<>>
    <3>1. phase = "failing"
      BY <1>6, Zenon DEF Give_up
    <3> QED
      BY <1>1, <3>1 DEF Phases
  <2> QED
    BY <1>6, <2>1, Give_up_seen
<1>7. CASE Kill
  BY <1>1, <1>7, Kill_seen DEF Typed
<1>8. CASE Repin
  <2>1. pin' \in Version \cup {Channel}
    BY DEF IInv, Typed, Version
  <2> QED
    BY <1>8, <2>1, Repin_seen
<1>9. CASE Publish
  <2>1. Sight(V)' = Sight(V)
    BY <1>9, Nothing_seen DEF Publish
  <2> QED
    BY <2>1 DEF Looking
<1> QED
  BY <1>2, <1>3, <1>4, <1>5, <1>6, <1>7, <1>8, <1>9 DEF Next, Steps

LEMMA Seen_next ==
  ASSUME NEW Nodes, Charted(Services, Nodes), IInv(Nodes), IInv(Nodes)', [Next]_vars,
         NEW Seen, \A s \in Services : Sighted(s, Seen[s]), Seeing(Seen)
  PROVE  Seeing(Seen)'
<1>1. Version' = Version
  BY DEF Version
<1> SUFFICES ASSUME NEW V \in Version, Expected'
             PROVE  Sight(V)' \in Seen[service']
  BY <1>1 DEF Seeing
<1>2. Typed /\ Asides /\ Expected /\ UNCHANGED config
  BY Always_expected DEF IInv
<1> DEFINE n == Sight(V)
<1>3. n \in Seen[service] /\ service \in Services /\ service' = service
  BY <1>2 DEF Seeing, Typed, config
<1>4. After_sight(n) \subseteq Seen[service] /\ At_rest(n)
  BY <1>3 DEF Sighted
<1>5. Looking(n, V)
  BY <1>2 DEF Looking
<1>6. Sight(V)' \in After_sight(n) \cup {n}
  <2>1. CASE Next
    <3>1. Recovers'
      BY DEF Expected
    <3> QED
      BY <1>4, <1>5, <2>1, <3>1, Step_seen
  <2>2. CASE UNCHANGED vars
    <3>1. Sight(V)' = Sight(V)
      BY <2>2, Nothing_seen DEF vars
    <3> QED
      BY <3>1
  <2> QED
    BY <2>1, <2>2
<1> QED
  BY <1>3, <1>4, <1>6

LEMMA Pin_seen ==
  ASSUME NEW Nodes, IInv(Nodes), NEW Seen, \A s \in Services : Sighted(s, Seen[s]), Seeing(Seen)
  PROVE  PinIsInstalled
<1> SUFFICES ASSUME Succeeding, Pinned, clear_on_update, install_cache, Recovers
             PROVE  built = pin
  BY DEF PinIsInstalled
<1>1. Typed /\ Asides /\ Expected /\ pin \in Version
  BY DEF IInv, Typed, Expected, Pinned, Pin_modes
<1>2. phase \in Phases /\ todo = <<>> /\ entry # "configure"
  BY DEF Succeeding, Phases
<1> DEFINE n == Sight(pin)
<1>3. Looking(n, pin) /\ n \in Seen[service] /\ service \in Services
  BY <1>1 DEF Looking, Seeing, Typed
<1>4. Keeps_pin(n)
  BY <1>3 DEF Sighted
<1>5. /\ n.phase = phase /\ n.todo = todo /\ n.scoped = (entry # "configure")
      /\ n.pin = As(pin, pin) /\ n.files.built = As(built, pin)
  BY <1>2, <1>3, Seen_fields
<1>6. As(pin, pin) = "it" /\ built \in Contents /\ pin \in Contents
  BY <1>1, Looks, Contents_now DEF Contents
<1>7. As(built, pin) = "it"
  BY <1>2, <1>4, <1>5, <1>6 DEF Keeps_pin
<1> QED
  BY <1>1, <1>6, <1>7, Looks

\* A setup that succeeds with a release or commit pinned leaves that version's
\* runtime (the version_check of _setup_project_inner, and the installers' own).
THEOREM Pinning ==
  ASSUME NEW CONSTANT Nodes, Charted(Services, Nodes),
         NEW CONSTANT Seen, \A s \in Services : Sighted(s, Seen[s])
  PROVE  Spec => []PinIsInstalled
<1>1. Init => Seeing(Seen)
  BY Seen_first
<1>2. IInv(Nodes) /\ IInv(Nodes)' /\ Seeing(Seen) /\ [Next]_vars => Seeing(Seen)'
  BY Seen_next
<1>3. IInv(Nodes) /\ Seeing(Seen) => PinIsInstalled
  BY Pin_seen
<1> QED
  BY <1>1, <1>2, <1>3, Invariance, PTL DEF Spec
=============================================================================
