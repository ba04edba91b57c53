----------------------------- MODULE SetupPaths -----------------------------
(* What can be said of the installers' programs without running them.  A     *)
(* node is a place in a program, with facts that hold whenever a setup is    *)
(* there; Following gives the nodes a setup may be at next.  A set of nodes  *)
(* closed under Following, none of them out of order, is all the proofs of   *)
(* ServiceSetup_proofs take from the programs, and is computed by TLC in     *)
(* MCServiceSetup.                                                           *)
EXTENDS ServiceSetup

Phases == {"install", "configure"}

\* What may happen to a setup that is not asked of it.
Mishaps ==
  {x \in {"fault", "kill"} : (x = "fault" /\ faults > 0) \/ (x = "kill" /\ kills > 0)}

Patched_whole(i) == needs_patches => Patches(service) \subseteq i.patched

\* Whether what is installed was made with every patch its sources have now.
Agrees(i) ==
  Whole(i.built) /\ i.built = i.src /\ i.made # {"prebuilt"} => i.patched \subseteq i.made
Dressed(i) == i.src # Nothing => Patched_whole(i)
Made_whole(i) ==
  needs_patches /\ Whole(i.built) /\ i.made # {"prebuilt"} => Patches(service) \subseteq i.made

\* Whether the setup under way, or the last one, found its files to be these.
Found_so(i) ==
  /\ i.src = before.src /\ i.marker = before.marker /\ i.patched = before.patched
  /\ ~Environment_kept => i.built = before.built /\ i.made = before.made

\* What a set of facts says: constants of the setup, what it has found or done; a
\* name that is none of these is a patch's, and says that it is made.
Fact_names ==
  {"clears", "in scope", "as before", "aside", "source", "resolved", "prebuilt",
   "agrees", "dressed"}
Hold(F) ==
  /\ "clears" \in F => clear_on_update
  /\ "in scope" \in F => In_scope
  /\ "as before" \in F => Found_so(Installed)
  /\ "aside" \in F => aside # Nothing
  /\ "source" \in F => src \in Version
  /\ "resolved" \in F => goal \in Version
  /\ "prebuilt" \in F => made = {"prebuilt"} /\ built \in Version
  /\ "agrees" \in F => Agrees(Installed)
  /\ "dressed" \in F => Dressed(Installed)
  /\ needs_patches => F \ Fact_names \subseteq patched

\* A setup that is at a node, where no mishaps but these have happened.
Is_at(n, ms) ==
  /\ n.service = service /\ n.mode = mode /\ n.mishaps = ms
  /\ n.phase = phase /\ n.todo = todo
  /\ In_scope => "in scope" \in n.facts
  /\ Hold(n.facts)

-----------------------------------------------------------------------------
(* Nodes.                                                                    *)

At(n, ops) == n.todo # <<>> /\ n.todo[1].op \in ops

\* The answers a test may have at a node, and what is known once it has one.
Possible(n, c) ==
  {b \in BOOLEAN :
     /\ c \in n.facts \cap {"clears", "source", "resolved", "prebuilt"} => b
     /\ c \in Phases => (b <=> n.phase = c)
     /\ c \in {"none", "release", "branch", "commit"} => (b <=> n.mode = c)
     /\ c = "source build" => (b <=> Of_sources(n.mode))
     /\ c = "unpatched" /\ Patches(n.service) \subseteq n.facts => ~b}

Learned(n, c, b) ==
  IF (c = "unpatched" /\ ~b) \/ (c = "source" /\ b /\ "dressed" \in n.facts)
  THEN Patches(n.service) ELSE {}

\* The facts a step puts an end to, and those it makes true.
Runtime_ops == {"write", "attempt", "build", "refresh", "activate", "swap"}
Patch_ops == {"patch", "try patch"}
Harmless(s) ==
  {"call", "select", "resolve", "lookup", "head", "record"}
  \cup (IF s \in Keeps_environment THEN Runtime_ops ELSE {})

Loses(n, o, f) ==
  \/ f = "as before" /\ o \notin Harmless(n.service)
  \/ f \in {"source"} \cup Patches(n.service) /\ o \in {"clear", "tidy"}
  \/ f \in {"dressed"} \cup Patches(n.service) /\ o = "unpack"
  \/ f = "resolved" /\ o \in {"select", "lookup", "head"}
  \/ f = "prebuilt" /\ o \in {"clear", "unpack"} \cup (Runtime_ops \ {"refresh"})
  \/ f = "agrees" /\ o \in Patch_ops \cup {"swap"}

Gains(n, o, w, f) ==
  \/ f = "source" /\ o = "unpack"
  \/ f = "resolved" /\ o = "resolve"
  \/ f = "aside" /\ o = "clear" /\ "in scope" \in n.facts
  \/ f = "prebuilt" /\ o = "activate" /\ w = "prebuilt" /\ "resolved" \in n.facts
  \/ f = "agrees" /\ o \in {"clear", "tidy", "unpack", "write", "attempt", "build", "activate"}
  \/ f = "dressed" /\ o \in {"clear", "tidy"}
  \/ f = "dressed" /\ o \in Patch_ops /\ Patches(n.service) \subseteq n.facts \cup {w}
  \/ f = w /\ f \in Patches(n.service) /\ o \in Patch_ops

After(n, o, w) ==
  {f \in n.facts : ~Loses(n, o, f)}
  \cup {f \in Fact_names \cup Patches(n.service) : Gains(n, o, w, f)}

\* A patch that is only tried may not be made, where something may fail.
Moved(n, p, rest, facts) ==
  [service |-> n.service, mode |-> n.mode, mishaps |-> n.mishaps,
   phase |-> p, todo |-> rest, facts |-> facts]
Following(n) ==
  IF n.todo = <<>>
  THEN {x \in {Moved(n, "configure", Setup_project_inner(n.service), n.facts \ {"resolved"})} :
          n.phase = "install"}
  ELSE LET o == n.todo[1].op
           w == n.todo[1].what
           rest == Tail(n.todo)
       IN CASE o = "if" ->
                 {Moved(n, n.phase, (IF b THEN n.todo[1].then ELSE n.todo[1].else) \o rest,
                        n.facts \cup Learned(n, w, b)) : b \in Possible(n, w)}
            [] o = "fail" -> {}
            [] OTHER ->
                 {Moved(n, n.phase, rest, After(n, o, w))}
                 \cup {x \in {Moved(n, n.phase, rest, n.facts)} :
                         o = "try patch" /\ "fault" \in n.mishaps}

\* Where a setup begins, and what it may take for granted there: of two services it
\* can be said that what is installed agrees, as long as nothing or no kill happens.
Trusts(s, ms) ==
  (IF s = "infinidysk" /\ "kill" \notin ms THEN {"agrees"} ELSE {})
  \cup (IF s = "traefik_proxy_admin" /\ ms = {} THEN {"agrees", "dressed"} ELSE {})

Starts_of(s, ms, p) ==
  [service : {s}, mode : Modes(s), mishaps : {ms}, phase : {p},
   todo : {Setup_project_inner(s)} \cup (IF p = "configure" THEN {<<>>} ELSE {}),
   facts : {{"as before"} \cup Trusts(s, ms) \cup c :
            c \in {{}, {"clears"}} \cup (IF p = "install" THEN {{"clears", "in scope"}} ELSE {})}]

Starts(S) ==
  UNION {UNION {Starts_of(s, ms, "install") \cup Starts_of(s, ms, "configure")
                : ms \in SUBSET {"fault", "kill"}} : s \in S}

-----------------------------------------------------------------------------
(* What the programs have in common.                                         *)

Tests ==
  Phases \cup {"none", "release", "branch", "commit", "source build", "wanted", "latest",
   "named", "resolved", "clears", "present", "prebuilt", "unpatched", "source",
   "source whole", "selected", "newest", "matches", "outdated", "marked", "unmarked", "keeps channel",
   "unchanged", "option", "comparable"}
Tests_known(n) == At(n, {"if"}) => n.todo[1].what \in Tests

\* Before a directory is set aside nothing that is put back has been changed.
Clears_first(n) ==
  At(n, {"clear"}) /\ "in scope" \in n.facts => n.facts \cap {"as before", "aside"} # {}

\* What is moved into place is a version that was looked up.
Resolves_first(n) ==
  At(n, {"swap"}) \/ (At(n, {"activate"}) /\ n.todo[1].what = "prebuilt")
    => "resolved" \in n.facts

\* What is patched is built where its sources are, or activated.
Patches_sources(n) ==
  /\ At(n, Patch_ops) /\ Patches(n.service) # {} => n.todo[1].what \in Patches(n.service)
  /\ Patches(n.service) # {} =>
       ~At(n, {"swap"}) /\ (At(n, {"unpack"}) => n.todo[1].what = "source")

\* These are built with every patch there is ...
Builds_patched(n) ==
  /\ \/ n.service \in {"riven_backend", "riven_frontend"}
     \/ n.service = "infinidysk" /\ "fault" \notin n.mishaps
  /\ At(n, {"build"}) \/ (At(n, {"activate"}) /\ n.todo[1].what # "prebuilt")
  => Patches(n.service) \subseteq n.facts

\* ... and these are built right after they were patched.
Builds_again(n) ==
  /\ n.service = "infinidysk" /\ "kill" \notin n.mishaps /\ "agrees" \notin n.facts
       => At(n, {"if", "try patch", "write", "attempt"})
  /\ n.service = "traefik_proxy_admin" /\ n.mishaps = {}
       /\ (n.todo = <<>> \/ At(n, {"fail", "clear"}))
       => /\ "agrees" \in n.facts
          /\ "dressed" \in n.facts \/ Patches(n.service) \subseteq n.facts

In_order(n) ==
  Tests_known(n) /\ Clears_first(n) /\ Resolves_first(n) /\ Patches_sources(n) /\ Builds_patched(n)
  /\ Builds_again(n)

Charted(S, Nodes) ==
  /\ Starts(S) \subseteq Nodes
  /\ \A n \in Nodes : Following(n) \subseteq Nodes /\ In_order(n)
=============================================================================
