---------------------------- MODULE PinnedSetups ----------------------------
(* Setups of a service with a version pinned, seen by somebody who can tell  *)
(* one version from all others and cannot count.  A sight is what can be     *)
(* seen between two steps; After_sight gives what may be seen next, as long  *)
(* as nothing happens that the service is not expected to recover from.  A   *)
(* set of sights of a service closed under it, in each of which a pinned     *)
(* version is installed, is all the proof of PinIsInstalled takes from the   *)
(* programs, and is computed by TLC in MCServiceSetup.                       *)
EXTENDS SetupPaths

Pin_modes == {"pinned", "release", "commit"}

\* What a directory, a marker or a choice is of, to somebody who knows version V.
As(c, V) ==
  CASE c = V -> "it"
    [] c \in Version \ {V} -> "other"
    [] c = Torn -> "torn"
    [] c = Channel -> "channel"
    [] OTHER -> "none"
Versions_seen == {"it", "other"}

\* Whether two that look like a and b are of the same version.
Same(a, b) == IF a # b THEN {FALSE} ELSE IF a = "other" THEN BOOLEAN ELSE {TRUE}
There(c) == IF c = "torn" THEN BOOLEAN ELSE {c # "none"}
Both(S, T) == {b \in BOOLEAN : IF b THEN TRUE \in S \cap T ELSE FALSE \in S \cup T}
Halved(c) == IF c = "none" THEN "none" ELSE "torn"

-----------------------------------------------------------------------------
(* Sights.                                                                   *)

Files_as(i, V) ==
  [src |-> As(i.src, V), built |-> As(i.built, V), marker |-> As(i.marker, V),
   prebuilt |-> (i.made = {"prebuilt"})]
No_files == [src |-> "none", built |-> "none", marker |-> "absent", prebuilt |-> FALSE]

Aside_as(V) == IF aside = Nothing THEN No_files ELSE Files_as(aside, V)

Sight(V) ==
  [service |-> service, mode |-> mode, phase |-> phase, todo |-> todo,
   scoped |-> (phase \in Phases => In_scope),
   goal |-> (IF phase \in Phases THEN As(goal, V) ELSE "none"),
   pin |-> As(pin, V), recorded |-> As(branch_state, V),
   files |-> Files_as(Installed, V), aside |-> Aside_as(V)]

\* What a step of a program may change, and what it may leave when it fails.
Effect(n) == [goal |-> n.goal, recorded |-> n.recorded, files |-> n.files, aside |-> n.aside]
Advanced(n, e) ==
  [service |-> n.service, mode |-> n.mode, phase |-> n.phase, todo |-> Tail(n.todo),
   scoped |-> n.scoped, goal |-> e.goal, pin |-> n.pin, recorded |-> e.recorded,
   files |-> e.files, aside |-> e.aside]
Branched(n, p) ==
  [service |-> n.service, mode |-> n.mode, phase |-> n.phase, todo |-> p,
   scoped |-> n.scoped, goal |-> n.goal, pin |-> n.pin, recorded |-> n.recorded,
   files |-> n.files, aside |-> n.aside]
Outside(n, p, f, a) ==
  [service |-> n.service, mode |-> n.mode, phase |-> p, todo |-> <<>>, scoped |-> TRUE,
   goal |-> "none", pin |-> n.pin, recorded |-> n.recorded, files |-> f, aside |-> a]
Begun(n, p, q, s) ==
  [service |-> n.service, mode |-> n.mode, phase |-> p, todo |-> q, scoped |-> s,
   goal |-> "none", pin |-> n.pin, recorded |-> n.recorded, files |-> n.files, aside |-> n.aside]
Repinned(n, v) ==
  [service |-> n.service, mode |-> n.mode, phase |-> n.phase, todo |-> n.todo,
   scoped |-> n.scoped, goal |-> n.goal, pin |-> v, recorded |-> n.recorded,
   files |-> n.files, aside |-> n.aside]

\* The mishaps a service is expected to recover from (Recovers).
Survives(s) ==
  (IF s \in Keeps_environment \cup Marked_afterwards THEN {} ELSE {"fault"})
  \cup (IF s \in Keeps_environment \cup Marked_afterwards \cup Never_rebuilt THEN {} ELSE {"kill"})
  \cup (IF s \in Replaced_whole THEN {"scar"} ELSE {})
If_survived(n, x, S) == IF x \in Survives(n.service) THEN S ELSE {}
Unscarred(n, F) ==
  {f \in F : "scar" \in Survives(n.service) \/ "torn" \notin {f.src, f.built}}

-----------------------------------------------------------------------------
(* What the tests of a program may find.                                     *)

Report_seen(n) ==
  CASE n.service \in Versioned_by_source -> n.files.src
    [] n.service \in Versioned_by_runtime -> n.files.built
    [] OTHER -> n.files.marker
Reports_seen(n, v) ==
  IF Report_seen(n) = "torn" THEN BOOLEAN ELSE Same(Report_seen(n), v)

Artifacts_seen(n) ==
  CASE n.service \in {"cli_debrid", "phalanx_db", "tautulli"} -> There(n.files.src)
    [] n.service = "infinidysk" -> {FALSE} \cup There(n.files.built)
    [] OTHER -> There(n.files.built)
Unchanged_seen(n) ==
  Both({n.goal \in Versions_seen /\ n.service \notin Unwritable},
       Both(Both(Same(n.recorded, n.goal), Same(n.files.marker, n.goal)),
            Artifacts_seen(n)))

Answers_seen(n, c) ==
  CASE c \in Phases -> {n.phase = c}
    [] c \in {"none", "release", "branch", "commit"} -> {n.mode = c}
    [] c = "source build" -> {Of_sources(n.mode)}
    [] c = "wanted" -> {TRUE}
    [] c = "latest" -> {n.pin = "channel"}
    [] c = "named" -> {n.mode \in {"pinned", "release"} /\ n.pin # "channel"}
    [] c = "resolved" -> {n.goal \in Versions_seen}
    [] c = "clears" -> {TRUE}
    [] c = "present" -> There(n.files.built)
    [] c = "prebuilt" -> Both({n.files.prebuilt}, There(n.files.built))
    [] c = "source" -> There(n.files.src)
    [] c = "source whole" -> {n.files.src \in Versions_seen}
    [] c = "selected" ->
         Both({n.files.built \in Versions_seen},
              IF n.pin = "channel" THEN {TRUE} ELSE Same(n.pin, n.files.built))
    [] c = "newest" -> UNION {Reports_seen(n, v) : v \in Versions_seen}
    [] c = "matches" -> Reports_seen(n, n.pin)
    [] c = "outdated" -> {~b : b \in Reports_seen(n, n.goal)}
    [] c = "marked" -> There(Report_seen(n))
    [] c = "unmarked" -> {n.files.marker = "none"}
    [] c = "keeps channel" -> IF n.pin = "channel" THEN BOOLEAN ELSE {FALSE}
    [] c = "unchanged" -> IF n.mode # "commit" THEN BOOLEAN ELSE Unchanged_seen(n)
    [] OTHER -> BOOLEAN

-----------------------------------------------------------------------------
(* What the steps of a program may do.                                       *)

Aims(n, V) == {[Effect(n) EXCEPT !.goal = v] : v \in V}
Puts(n, F) == {[Effect(n) EXCEPT !.files = f] : f \in F}

Newest_seen(n) == IF n.pin = "channel" THEN Versions_seen ELSE {n.pin}
Fetched_seen(n) == IF n.goal \in Versions_seen THEN {n.goal} ELSE Versions_seen
Kept(n) == n.service \in Keeps_environment

Unpacked(f, v, w) ==
  [src |-> v, built |-> (IF w = "runtime" THEN v ELSE f.built), marker |-> f.marker,
   prebuilt |-> f.prebuilt]
Rebuilt(f, v, p) == [src |-> f.src, built |-> v, marker |-> f.marker, prebuilt |-> p]
Broken_runtime(f) == Rebuilt(f, "torn", f.prebuilt)
Marks_seen(n, w) ==
  IF n.service \in Unwritable THEN {n.files.marker}
  ELSE IF w # "package.json" THEN {n.goal}
  ELSE CASE n.files.src = "torn" -> Versions_seen
         [] n.files.src = "none" -> {n.files.marker}
         [] OTHER -> {n.files.src}

Cleared(n) ==
  [src |-> "none", marker |-> "none",
   built |-> (IF Kept(n) THEN n.files.built ELSE "none"),
   prebuilt |-> (Kept(n) /\ n.files.prebuilt)]
Half_cleared(n) ==
  [src |-> Halved(n.files.src),
   built |-> (IF Kept(n) THEN n.files.built ELSE Halved(n.files.built)),
   marker |-> n.files.marker, prebuilt |-> n.files.prebuilt]
Set_aside(n) == IF n.scoped /\ n.aside = No_files THEN n.files ELSE n.aside

Build_seen(n, o, w) ==
  CASE o \in {"write", "attempt"} -> Broken_runtime(n.files)
    [] o = "build" -> Rebuilt(n.files, n.files.src, FALSE)
    [] o = "activate" -> Rebuilt(n.files, IF w = "prebuilt" THEN n.goal ELSE n.files.src,
                                 w = "prebuilt")
    [] o = "swap" -> Rebuilt(n.files, n.goal, n.files.prebuilt)

\* How a step may go well, or go on.
Goes(n, o, w) ==
  CASE o \in {"call", "patch", "try patch"} -> {Effect(n)}
    [] o = "select" -> Aims(n, {n.pin})
    [] o = "head" -> Aims(n, IF n.mode = "commit" THEN {n.pin} ELSE Versions_seen)
    [] o = "resolve" -> Aims(n, Newest_seen(n))
    [] o = "lookup" ->
         IF w = "version marker" /\ "scar" \notin Survives(n.service) THEN {}
         ELSE Aims(n, Newest_seen(n) \cup If_survived(n, "fault", {"channel"}))
    [] o = "clear" ->
         {[goal |-> n.goal, recorded |-> n.recorded, files |-> f, aside |-> Set_aside(n)]
            : f \in Unscarred(n, {Cleared(n)})}
    [] o = "tidy" -> Puts(n, Unscarred(n, {[n.files EXCEPT !.src = "none"]}))
    [] o = "unpack" -> Puts(n, {Unpacked(n.files, v, w) : v \in Fetched_seen(n)})
    [] o \in {"write", "attempt", "build", "activate", "swap"} -> Puts(n, {Build_seen(n, o, w)})
    [] o = "refresh" -> Puts(n, Unscarred(n, {n.files}))
    [] o = "mark" ->
         Puts(n, {[n.files EXCEPT !.marker = v]
                    : v \in Marks_seen(n, w) \cup If_survived(n, "fault", {n.files.marker})})
    [] o = "record" ->
         {[Effect(n) EXCEPT !.recorded = v]
            : v \in {n.goal} \cup If_survived(n, "fault", {n.recorded})}
    [] OTHER -> {}

\* The files it may leave when it fails.
Fails(n, o) ==
  CASE o \in {"call", "fail", "resolve", "unpack", "patch", "activate", "swap", "mark"} -> {n.files}
    [] o = "clear" -> Unscarred(n, {f \in {n.files} : n.scoped} \cup {Half_cleared(n)})
    [] o = "tidy" -> Unscarred(n, {[n.files EXCEPT !.src = Halved(@)]})
    [] o \in {"write", "build"} -> {Broken_runtime(n.files)}
    [] o = "refresh" -> Unscarred(n, {Rebuilt(n.files, Halved(n.files.built), n.files.prebuilt)})
    [] OTHER -> {}

Worked(n, o, w) ==
  {Advanced(n, e) : e \in Goes(n, o, w)}
  \cup {Outside(n, "failing", f, n.aside) : f \in IF o = "fail" THEN Fails(n, o)
                                                 ELSE If_survived(n, "fault", Fails(n, o))}
Chosen(n) ==
  {Branched(n, (IF b THEN n.todo[1].then ELSE n.todo[1].else) \o Tail(n.todo))
     : b \in Answers_seen(n, n.todo[1].what)}

-----------------------------------------------------------------------------
(* How a setup ends, and what happens around it.                             *)

Half_back(n) ==
  [src |-> (IF n.aside.src = "none" THEN Halved(n.files.src) ELSE "torn"),
   built |-> (IF Kept(n) THEN n.files.built
              ELSE IF n.aside.built = "none" THEN Halved(n.files.built) ELSE "torn"),
   marker |-> n.files.marker, prebuilt |-> n.files.prebuilt]
Back(n) ==
  [src |-> n.aside.src, marker |-> n.aside.marker,
   built |-> (IF Kept(n) THEN n.files.built ELSE n.aside.built),
   prebuilt |-> (IF Kept(n) THEN n.files.prebuilt ELSE n.aside.prebuilt)]
Given_up(n) ==
  IF n.aside = No_files THEN {n.files} ELSE {Back(n)} \cup If_survived(n, "fault", {Half_back(n)})

Half_worked(n, o, w) ==
  CASE o = "clear" -> Half_cleared(n)
    [] o = "tidy" -> [n.files EXCEPT !.src = Halved(@)]
    [] o = "unpack" -> Unpacked(n.files, "torn", w)
    [] o \in {"write", "attempt", "build", "activate"} -> Broken_runtime(n.files)
    [] o = "refresh" -> Rebuilt(n.files, Halved(n.files.built), n.files.prebuilt)
    [] o = "swap" -> Rebuilt(n.files, "none", n.files.prebuilt)
    [] OTHER -> n.files
Cut_short(n) ==
  {n.files}
  \cup (IF n.phase = "failing" THEN {f \in {Half_back(n)} : n.aside # No_files}
        ELSE IF n.todo = <<>> THEN {} ELSE {Half_worked(n, n.todo[1].op, n.todo[1].what)})

To_idle(n, F) == {Outside(n, "idle", f, No_files) : f \in F}
Killed(n) == If_survived(n, "kill", To_idle(n, Unscarred(n, Cut_short(n))))

Asked_for(n) ==
  {Begun(n, "install", Setup_project_inner(n.service), TRUE),
   Begun(n, "configure", Setup_project_inner(n.service), FALSE),
   Begun(n, "configure", <<>>, FALSE)}
Pins(n) == Versions_seen \cup {v \in {"channel"} : n.mode # "commit"}

After_sight(n) ==
  CASE n.phase = "idle" -> Asked_for(n) \cup {Repinned(n, v) : v \in Pins(n)}
    [] n.phase = "failing" -> Killed(n) \cup To_idle(n, Unscarred(n, Given_up(n)))
    [] n.phase \in Phases /\ n.todo = <<>> ->
         Killed(n) \cup To_idle(n, {n.files})
         \cup {Begun(n, "configure", Setup_project_inner(n.service), n.scoped)}
    [] n.phase \in Phases /\ n.todo # <<>> ->
         Killed(n)
         \cup (IF n.todo[1].op = "if" THEN Chosen(n) ELSE Worked(n, n.todo[1].op, n.todo[1].what))

First_sights(s) ==
  [service : {s}, mode : Modes(s) \cap Pin_modes, phase : {"idle"}, todo : {<<>>},
   scoped : {TRUE}, goal : {"none"}, pin : Versions_seen \cup {"channel"}, recorded : {"none"},
   files : {[src |-> "none", built |-> "none", marker |-> "none", prebuilt |-> FALSE]},
   aside : {No_files}]

\* A setup that is about to succeed has installed what is pinned.
Keeps_pin(n) ==
  n.phase \in Phases /\ n.todo = <<>> /\ n.scoped /\ n.pin = "it" => n.files.built = "it"

\* No program is left to run when none runs.
At_rest(n) == n.phase \notin Phases => n.todo = <<>>

Sighted(s, Sights) ==
  /\ First_sights(s) \subseteq Sights
  /\ \A n \in Sights : After_sight(n) \subseteq Sights /\ Keeps_pin(n) /\ At_rest(n)
=============================================================================
