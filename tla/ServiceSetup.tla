---------------------------- MODULE ServiceSetup ----------------------------
(* Installing and configuring one service: setup_project, install_project    *)
(* and configure_project of utils/setup.py, which run the installers of      *)
(* ServiceInstallers.  The directories an update replaces are moved aside    *)
(* and put back when the setup fails.  A version is the commit or release    *)
(* the files of a directory are of; a directory may also hold Nothing, or be *)
(* Torn: a mixture of versions, or half of one.                              *)
EXTENDS ServiceInstallers, Integers, FiniteSets

CONSTANTS
  Services,      \* the services set up
  AutoUpdated,   \* those that may have automatic updates on
  MaxVersion,    \* the versions upstream publishes are 1 .. MaxVersion
  MaxSetups,     \* setups asked for
  MaxFaults,     \* calls that fail
  MaxKills,      \* times the container is killed
  Nothing, Torn,
  Channel        \* "latest", written or asked for as a version

ASSUME SetupAssumption ==
  /\ {MaxVersion, MaxSetups, MaxFaults, MaxKills} \subseteq Nat /\ MaxVersion > 0
  /\ Nothing # Torn /\ Channel \notin {Nothing, Torn}
  /\ {Nothing, Torn, Channel} \cap Nat = {}

VARIABLES
  service, mode, auto_update, clear_on_update, install_cache,   \* the configuration
  needs_patches,  \* whether DUMB's patches fit the sources upstream has
  pin,            \* the release or commit asked for, or Channel
  upstream,       \* the newest version there is
  todo,           \* the steps left of the phase that runs
  phase,          \* "idle", "install", "configure" or "failing"
  entry,          \* what was asked for: "setup", "install" or "configure"
  goal,           \* the version this setup is about
  setup_tracker,  \* whether the service counts as configured
  src, built, marker,   \* its sources, its runtime, its version.txt
  patched, made,  \* the patches the sources have, and those the runtime was made with
  branch_state,   \* the commit recorded in /config/.dumb_branch_state
  cache,          \* the last archive of the branch downloaded
  aside,          \* what _INSTALL_CLEAR_SCOPE moved out of the way
  result,         \* of the last setup
  before,         \* ghost: what was installed when it began
  scarred,        \* ghost: something was left Torn
  setups, faults, kills

config == <<service, mode, auto_update, clear_on_update, install_cache, needs_patches>>
disk   == <<src, built, marker, patched, made>>
run    == <<todo, phase, entry, goal>>
ghosts == <<before, scarred>>
bounds == <<setups, faults, kills>>
vars == <<config, pin, upstream, run, setup_tracker, disk, branch_state, cache,
          aside, result, ghosts, bounds>>

Version == 1 .. MaxVersion
Content == Version \cup {Nothing, Torn}
Installed ==
  [src |-> src, built |-> built, marker |-> marker, patched |-> patched, made |-> made]
Whole(c) == c \in Version

-----------------------------------------------------------------------------
(* Which service takes which path.                                           *)

COMMIT_PIN_SERVICE_KEYS ==
  {"dumb_frontend", "traefik_proxy_admin", "cli_debrid", "decypharr", "infinidysk",
   "phalanx_db", "tautulli", "pulsarr", "maintainerr", "neutarr", "profilarr",
   "seerr", "riven_backend", "riven_frontend", "zilean"}

Source_managed_by_service_setup ==
  {"emby", "profilarr", "aiostreams", "sonarr"}

\* version_check reads these from the sources, these from the runtime; for the
\* first, but for dumb_frontend, version_write has no file to write.
Versioned_by_source ==
  {"cli_debrid", "phalanx_db", "riven_backend", "riven_frontend", "bazarr",
   "dumb_frontend"}
Versioned_by_runtime == {"sonarr", "plex", "jellyfin", "mediastorm", "aiostreams", "zurg"}
Unwritable == (Versioned_by_source \ {"dumb_frontend"}) \cup Versioned_by_runtime

\* clear_directory never moves a venv aside, and so never puts one back.
Keeps_environment ==
  {"cli_debrid", "tautulli", "bazarr", "neutarr", "riven_backend"}

\* Releases of these are a runtime and not sources.
Released_as_runtime == {"decypharr", "zurg"}

\* The five whose pinned_version their installers look at, and of them the ones
\* without a release_version.
Pinned_by_installer == {"sonarr", "plex", "jellyfin", "cloudflared", "altmount"}

Modes(s) ==
  {"none"}
  \cup (IF s \in Pinned_by_installer THEN {"pinned"} ELSE {})
  \cup (IF s \in Pinned_by_installer \ {"sonarr"} \/ s = "rclone" THEN {} ELSE {"release"})
  \cup (IF s \in COMMIT_PIN_SERVICE_KEYS THEN {"branch", "commit"} ELSE {})

\* DUMB's patches to what a service is built from; neutarr and bazarr are run
\* from their sources, patched or not, and nothing depends on it.
Patches(s) ==
  CASE s = "infinidysk" -> {"hashing reference", "resources and namespaces", "main api"}
    [] s = "traefik_proxy_admin" -> {"traefik_proxy_admin"}
    [] s = "riven_frontend" -> {"vite"}
    [] s = "riven_backend" -> {"plexapi"}
    [] OTHER -> {}

\* What a directory set aside may hold, which is never mistaken for none.
Patch_names == UNION {Patches(s) : s \in Services}
Files ==
  [src : Content, built : Content, marker : Version \cup {Nothing, Channel},
   patched : SUBSET Patch_names, made : SUBSET (Patch_names \cup {"prebuilt"})]

ASSUME NothingAssumption == Nothing \notin Files

-----------------------------------------------------------------------------
(* setup_release_version, setup_branch_version and what both end with.       *)

Additional_setup(s) ==
  (CASE s = "cli_debrid" -> Validate_cli_debrid_source
     [] s = "riven_frontend" -> Vite_modifications
     [] OTHER -> <<>>)
  \o (IF s = "infinidysk" THEN Setup_nzbdav_build
      ELSE IF s = "profilarr" THEN <<>> ELSE Setup_environment(s))
  \o (IF s = "decypharr" THEN When("source build", Build_decypharr_dev) ELSE <<>>)

Release_by_installer(s) ==
  CASE s = "authelia" -> Resolve \o Unpack("runtime") \o Mark
    [] s = "mediastorm" -> Install_mediastorm_runtime \o Call("chown_recursive")

Release_infinidysk ==
  Call("_validate_infinidysk_postgres_source") \o Resolve \o Call("get_ref_commit_sha")
  \o Prebuilt_or(Nzbdav_sources \o Additional_setup("infinidysk") \o Mark)

\* The marker is written before what it marks is built.
Release_from_archive(s) ==
  Select \o When("clears", Clear)
  \o (IF s = "decypharr" THEN Tidy("_prepare_decypharr_source_tree") ELSE <<>>)
  \o Unpack(IF s \in Released_as_runtime THEN "runtime" ELSE "source")
  \o Mark \o Additional_setup(s)

Setup_release_version(s) ==
  IF s \in {"authelia", "mediastorm"} THEN Release_by_installer(s)
  ELSE IF s = "infinidysk" THEN Release_infinidysk
  ELSE Release_from_archive(s)

Branch_sources(s) ==
  When("clears", Clear)
  \o (IF s \in {"infinidysk", "decypharr"} THEN Tidy("_prepare_source_tree") ELSE <<>>)
  \o Unpack("source")
  \o (IF s \in {"infinidysk", "neutarr", "pulsarr", "maintainerr"}
      THEN When("branch", Mark) ELSE <<>>)

Setup_branch_version(s) ==
  (IF s = "infinidysk" THEN Call("_validate_infinidysk_postgres_source") ELSE <<>>)
  \o When("branch", Call("get_branch")) \o Branch_head
  \o Unless("unchanged",
       Branch_sources(s) \o Additional_setup(s) \o When("commit", Mark)
       \o (IF s = "dumb_frontend" THEN When("branch", Call("version_write")) ELSE <<>>)
       \o Record
       \o (IF s = "infinidysk" THEN Call("_record_nzbdav_source_install") ELSE <<>>))

-----------------------------------------------------------------------------
(* _setup_project_inner, the program of both phases.                         *)

\* A runtime that is not there is bootstrapped from the latest release.
Bootstrap(s) ==
  CASE s \in {"dumb_frontend", "riven_frontend"} ->
         Unless("present", Setup_release_version(s))
    [] s \in {"maintainerr", "riven_backend"} ->
         Unless("source", Setup_release_version(s))
    [] s = "cli_debrid" -> Unless("source whole", Setup_release_version(s))
    [] OTHER -> <<>>

\* cli_debrid's sources are checked, and fetched again when they do not match.
Unless_current(s, test) ==
  If(test,
     IF s = "cli_debrid" THEN Unless("source whole", Setup_release_version(s)) ELSE <<>>,
     Setup_release_version(s))

Selected_release(s) ==
  If("latest",
     If("comparable", Unless_current(s, "newest"), Unless_current(s, "marked")),
     Unless_current(s, IF s = "mediastorm" THEN "selected" ELSE "matches"))

Source_selection(s) ==
  IF s \in Source_managed_by_service_setup THEN <<>>
  ELSE If("none", Bootstrap(s),
          If("release", When("wanted", Selected_release(s)),
             When("source build", Setup_branch_version(s))))

\* What is set up before the services that have an installer of their own.
Setup_settings(s) ==
  CASE s = "dumb_frontend" -> Configure(Dumb_frontend_setup \o Call("save_config"))
    [] s = "riven_frontend" -> Configure(Call("copy_server_config"))
    [] s = "riven_backend" -> Configure(Fuse_config \o Call("chown"))
    [] s = "zurg" -> Zurg_setup
    [] s = "zilean" -> Configure(Prepare_zilean_runtime_data)
    [] s = "rclone" -> Rclone_setup
    [] OTHER -> <<>>

Setup_runtime(s) ==
  CASE s = "plex" -> Setup_plex
    [] s = "tautulli" -> Setup_tautulli
    [] s = "neutarr" -> Setup_neutarr
    [] s = "seerr" -> Setup_seerr
    [] s = "pulsarr" -> Setup_pulsarr
    [] s = "maintainerr" -> Setup_maintainerr
    [] s = "mediastorm" -> Setup_mediastorm
    [] s = "aiostreams" -> Setup_aiostreams
    [] s = "altmount" -> Setup_altmount
    [] s = "traefik_proxy_admin" -> Setup_traefik_proxy_admin
    [] s = "authelia" -> Setup_authelia
    [] s = "cloudflared" -> Setup_cloudflared
    [] s = "profilarr" -> Setup_profilarr
    [] OTHER -> <<>>

Setup_late(s) ==
  CASE s = "jellyfin" -> Setup_jellyfin
    [] s = "emby" -> Setup_emby
    [] s = "phalanx_db" -> Phalanx_setup
    [] s = "decypharr" -> Setup_decypharr
    [] s = "cli_debrid" ->
         When("option", Call("chown_recursive")) \o Configure(Validate_cli_debrid_source)
    [] s = "bazarr" -> Setup_bazarr(Setup_release_version("bazarr"))
    [] s = "sonarr" -> Setup_arr_instance
    [] OTHER -> <<>>

\* The addresses of other services in its environment, and the environment itself.
Update_connection_strings == Configure(Call("connection strings"))
Configure_environment == Update_connection_strings \o Configure(Call("save_config"))

Setup_service(s) ==
  Configure_environment \o Setup_settings(s) \o Setup_runtime(s) \o Setup_late(s)

\* A moving release channel of InfiniDysk keeps a runtime that is ready.
Setup_infinidysk_inner ==
  Call("_validate_infinidysk_postgres_source")
  \o If("keeps channel", <<>>,
        Install(Source_selection("infinidysk")) \o Configure_environment \o Setup_nzbdav)

Setup_project_inner(s) ==
  IF s = "infinidysk" THEN Setup_infinidysk_inner
  ELSE Install(Source_selection(s)) \o Setup_service(s)

-----------------------------------------------------------------------------
(* What the tests of a program can find.                                     *)

\* A test for a few files cannot tell a torn directory from a whole one.
Found(c) == IF c = Torn THEN BOOLEAN ELSE {c # Nothing}

\* version_check.
Reported ==
  CASE service \in Versioned_by_source -> src
    [] service \in Versioned_by_runtime -> built
    [] OTHER -> marker
Reports(v) == IF Reported = Torn THEN BOOLEAN ELSE {Reported = v}

Asked == IF mode \in {"pinned", "release", "commit"} THEN pin ELSE Channel

\* A build of InfiniDysk may be of a format that this DUMB does not make any more.
Has_branch_runtime_artifacts ==
  CASE service \in {"cli_debrid", "phalanx_db", "tautulli"} -> Found(src)
    [] service = "infinidysk" -> {FALSE} \cup Found(built)
    [] OTHER -> Found(built)

Unchanged_commit ==
  { there /\ goal \in Version /\ branch_state = goal
      /\ (service \in {"infinidysk", "decypharr", "maintainerr"} => marker # Nothing)
      /\ (mode = "commit" => service \notin Unwritable /\ marker = goal) :
    there \in Has_branch_runtime_artifacts }

\* Whether the patches it needs are missing.
Patch_needed == needs_patches /\ ~(Patches(service) \subseteq patched)

\* The runtime is the one of a verified archive, with its marker and its files.
Nzbdav_prebuilt_runtime_ready == {made = {"prebuilt"} /\ there : there \in Found(built)}

\* While automatic updates are on, a release by name is not installed, but for sources of
\* cli_debrid that are broken.
Release_wanted ==
  ~auto_update \/ Asked = Channel \/ (service = "cli_debrid" /\ ~Whole(src))

Of_sources(m) == m \in {"branch", "commit"}
Resolved == goal \in Version

Answers(c) ==
  CASE c \in {"install", "configure"} -> {phase = c}
    [] c \in {"none", "release", "branch", "commit"} -> {mode = c}
    [] c = "source build" -> {Of_sources(mode)}
    [] c = "wanted" -> {Release_wanted}
    [] c = "latest" -> {Asked = Channel}
    [] c = "named" -> {(mode \in {"pinned", "release"}) /\ pin # Channel}
    [] c = "resolved" -> {Resolved}
    [] c = "clears" -> {clear_on_update}
    [] c = "present" -> Found(built)
    [] c = "prebuilt" -> Nzbdav_prebuilt_runtime_ready
    [] c = "unpatched" -> {Patch_needed}
    [] c = "source" -> Found(src)
    [] c = "source whole" -> {Whole(src)}
    [] c = "selected" -> {Whole(built) /\ Asked \in {built, Channel}}
    [] c = "newest" -> Reports(upstream)
    [] c = "matches" -> Reports(Asked)
    [] c = "outdated" -> {~b : b \in Reports(goal)}
    [] c = "marked" -> Found(Reported)
    [] c = "unmarked" -> {marker = Nothing}
    [] c = "keeps channel" ->
         IF phase = "install" /\ mode = "release" /\ pin = Channel /\ ~auto_update
         THEN {FALSE} \cup Found(built) ELSE {FALSE}
    [] c = "unchanged" -> Unchanged_commit
    [] c \in {"option", "comparable"} -> BOOLEAN

-----------------------------------------------------------------------------
(* Running a program.                                                        *)

Op_is(o) == todo # <<>> /\ todo[1].op = o /\ phase \in {"install", "configure"}
What == todo[1].what

Advance == todo' = Tail(todo) /\ UNCHANGED <<phase, entry>>
Proceed == Advance /\ UNCHANGED <<goal, faults>>

\* The step raises or returns an error, and the setup with it.
Stop  == todo' = <<>> /\ phase' = "failing" /\ UNCHANGED <<entry, goal>>
Fault == faults < MaxFaults /\ faults' = faults + 1
Break == Stop /\ Fault

Steady == UNCHANGED <<config, pin, upstream, setup_tracker, branch_state, result,
                      before, setups, kills>>
Read_only == Steady /\ UNCHANGED <<disk, cache, aside, scarred>>

\* A test is made, and decides which of two programs comes next.
Branches(p, c) == {(IF b THEN p[1].then ELSE p[1].else) \o Tail(p) : b \in c}
Choose ==
  /\ Op_is("if") /\ todo' \in Branches(todo, Answers(What))
  /\ Read_only /\ UNCHANGED <<phase, entry, goal, faults>>

Call_step == Op_is("call") /\ (Proceed \/ Break) /\ Read_only
Fail_step == Op_is("fail") /\ Stop /\ Read_only /\ UNCHANGED faults

Choose_version(v) == Advance /\ goal' = v
Newest == IF Asked = Channel THEN upstream ELSE Asked

Select_step == Op_is("select") /\ Choose_version(Asked) /\ Read_only /\ UNCHANGED faults

Resolve_step ==
  /\ Op_is("resolve")
  /\ (Choose_version(Newest) /\ UNCHANGED faults) \/ Break
  /\ Read_only

\* Without an answer these go on with the channel, or with no commit at all.
Lookup_step ==
  /\ Op_is("lookup")
  /\ (Choose_version(Newest) /\ UNCHANGED faults) \/ (Choose_version(Channel) /\ Fault)
  /\ scarred' = (scarred \/ What = "version marker")
  /\ Steady /\ UNCHANGED <<disk, cache, aside>>

\* Mutant: a commit that cannot be looked up is treated as a branch that cannot.
Head_step_BugFallsBack ==
  /\ Op_is("head")
  /\ \/ Choose_version(IF mode = "commit" THEN pin ELSE upstream) /\ UNCHANGED faults
     \/ Choose_version(Nothing) /\ Fault
  /\ Read_only

Head_step ==
  /\ Op_is("head")
  /\ \/ Choose_version(IF mode = "commit" THEN pin ELSE upstream) /\ UNCHANGED faults
     \/ mode = "branch" /\ Choose_version(Nothing) /\ Fault
  /\ Read_only

-----------------------------------------------------------------------------
(* Steps that change what is installed.                                      *)

In_scope == install_cache /\ entry # "configure"
Environment_kept == service \in Keeps_environment
Half(c) == IF c = Nothing THEN Nothing ELSE Torn
Scar == scarred' = (scarred \/ Torn \in {src', built'})

\* What a deferred clear keeps is what the first one of a directory found.
Moved_aside == IF In_scope /\ aside = Nothing THEN Installed ELSE aside

\* clear_directory: moved aside until the setup ends, or deleted.  What was moved when
\* the rest would not is put back, unless that fails too: nobody looks.
Clear_step ==
  /\ Op_is("clear")
  /\ \/ /\ aside' = Moved_aside
        /\ src' = Nothing /\ marker' = Nothing /\ patched' = {}
        /\ IF Environment_kept THEN UNCHANGED <<built, made>>
           ELSE built' = Nothing /\ made' = {}
        /\ Proceed
     \/ /\ Break /\ UNCHANGED <<aside, marker, patched, made>>
        /\ \/ In_scope /\ UNCHANGED <<src, built>>
           \/ src' = Half(src) /\ built' = IF Environment_kept THEN built ELSE Half(built)
  /\ Scar /\ Steady /\ UNCHANGED cache

\* The directories a source archive brings are removed first, for good.
Tidy_step ==
  /\ Op_is("tidy")
  /\ \/ src' = Nothing /\ patched' = {} /\ Proceed
     \/ src' = Half(src) /\ UNCHANGED patched /\ Break
  /\ UNCHANGED <<built, marker, made, cache, aside>>
  /\ Scar /\ Steady

\* download_and_extract: what upstream has now or, when it cannot say, the copy
\* of the branch that was downloaded last.
Fetched ==
  IF mode = "branch" \/ goal \in {Channel, Nothing} THEN upstream ELSE goal

Unpack_this(v) ==
  /\ src' = v /\ patched' = {}
  /\ built' = (IF What = "runtime" THEN v ELSE built)

Unpack_cached ==
  /\ mode = "branch" /\ cache # Nothing
  /\ Unpack_this(cache) /\ Advance /\ Fault /\ UNCHANGED <<goal, cache>>

\* _merge_staging_transactionally puts back what it replaced when it fails; an
\* archive that cannot be read is forgotten.
Unpack_failed ==
  /\ Break /\ UNCHANGED <<src, built, patched>>
  /\ cache' \in {cache} \cup {c \in {Nothing} : mode = "branch"}

Unpack_step ==
  /\ Op_is("unpack")
  /\ \/ /\ Unpack_this(Fetched) /\ Proceed
        /\ cache' = IF mode = "branch" THEN Fetched ELSE cache
     \/ Unpack_cached \/ Unpack_failed
  /\ Steady /\ UNCHANGED <<marker, made, aside, scarred>>

\* A patch is made where it fits and is not made yet.
Patch_step ==
  /\ Op_is("patch") \/ Op_is("try patch")
  /\ \/ patched' = (IF needs_patches THEN patched \cup {What} ELSE patched) /\ Proceed
     \/ /\ needs_patches /\ UNCHANGED <<patched, goal>> /\ Fault
        /\ IF Op_is("patch") THEN Stop ELSE Advance
  /\ Steady /\ UNCHANGED <<src, built, marker, made, cache, aside, scarred>>

Runtime_only == Steady /\ UNCHANGED <<src, marker, patched, cache, aside>>

Write_step ==
  /\ \/ Op_is("write") /\ (Proceed \/ Break)
     \/ Op_is("attempt") /\ Proceed
  /\ built' = Torn
  /\ Runtime_only /\ UNCHANGED <<made, scarred>>

Build_step ==
  /\ Op_is("build")
  /\ \/ built' = src /\ made' = patched /\ Proceed
     \/ built' = Torn /\ UNCHANGED made /\ Break
  /\ Runtime_only /\ UNCHANGED scarred

Refresh_step ==
  /\ Op_is("refresh")
  /\ (UNCHANGED built /\ Proceed) \/ (built' = Half(built) /\ Break)
  /\ Runtime_only /\ UNCHANGED made /\ Scar

\* Mutant: a kept build is taken for one of the same sources, patched or not.
Activate_step_BugAnyPatches ==
  /\ Op_is("activate")
  /\ \/ /\ built' = (IF What = "prebuilt" THEN goal ELSE src)
        /\ made' = (CASE What = "prebuilt" -> {"prebuilt"} [] What = "artifact" -> {}
                      [] OTHER -> patched)
        /\ Proceed
     \/ What = "source build" /\ Break /\ UNCHANGED <<built, made>>
  /\ Runtime_only /\ UNCHANGED scarred

\* _activate_nzbdav_build_artifact puts the paths it replaced back on failure;
\* for a prebuilt release, or a cached artifact, that is the choice of building.
Activate_step ==
  /\ Op_is("activate")
  /\ \/ /\ built' = (IF What = "prebuilt" THEN goal ELSE src)
        /\ made' = (IF What = "prebuilt" THEN {"prebuilt"} ELSE patched)
        /\ Proceed
     \/ What = "source build" /\ Break /\ UNCHANGED <<built, made>>
  /\ Runtime_only /\ UNCHANGED scarred

Swap_step ==
  /\ Op_is("swap")
  /\ (built' = goal /\ Proceed) \/ (Break /\ UNCHANGED built)
  /\ Runtime_only /\ UNCHANGED <<made, scarred>>

\* version_write, whose error is not looked at; two installers write the file
\* themselves.  A branch's head is asked for again, a package knows its version.
Marks ==
  IF service \in Unwritable THEN {marker}
  ELSE IF What # "package.json" THEN {IF mode = "branch" THEN upstream ELSE goal}
  ELSE CASE src = Torn -> Version
         [] src = Nothing -> {marker}
         [] OTHER -> {src}

Mark_step ==
  /\ Op_is("mark")
  /\ \/ marker' \in Marks /\ Proceed
     \/ UNCHANGED <<marker, goal>> /\ Fault
        /\ IF service \in {"altmount", "cloudflared"} THEN Stop ELSE Advance
  /\ Steady /\ UNCHANGED <<src, built, patched, made, cache, aside, scarred>>

Record_step ==
  /\ Op_is("record")
  /\ \/ branch_state' = (IF mode = "branch" THEN upstream ELSE goal) /\ UNCHANGED faults
     \/ UNCHANGED branch_state /\ Fault
  /\ Advance
  /\ UNCHANGED <<config, pin, upstream, goal, setup_tracker, disk, cache, aside,
                 result, ghosts, setups, kills>>

-----------------------------------------------------------------------------
(* The entries, and how a setup ends.                                        *)

Program == [s \in Services |-> Setup_project_inner(s)]

Begin(p) == phase' = p /\ todo' = Program[service] /\ goal' = Nothing

\* setup_project, install_project (main's preinstall) and configure_project.
Ask(e) ==
  /\ phase = "idle" /\ setups < MaxSetups
  /\ setups' = setups + 1 /\ entry' = e
  /\ before' = Installed /\ result' = "none"
  /\ setup_tracker' = (setup_tracker /\ e # "setup")
  /\ IF e = "configure" /\ setup_tracker /\ service # "infinidysk"
     THEN phase' = "configure" /\ todo' = <<>> /\ goal' = Nothing
     ELSE Begin(IF e = "configure" THEN "configure" ELSE "install")
  /\ UNCHANGED <<config, pin, upstream, disk, branch_state, cache, aside, scarred,
                 faults, kills>>

Then_configure ==
  /\ phase = "install" /\ todo = <<>> /\ entry = "setup"
  /\ Begin("configure")
  /\ Read_only /\ UNCHANGED <<entry, faults>>

\* _finish_deferred_clears of a setup that succeeded.
Succeed ==
  /\ todo = <<>> /\ phase = (IF entry = "install" THEN "install" ELSE "configure")
  /\ phase' = "idle" /\ result' = "ok" /\ aside' = Nothing
  /\ setup_tracker' = (setup_tracker \/ phase = "configure")
  /\ UNCHANGED <<config, pin, upstream, todo, entry, goal, disk, branch_state,
                 cache, ghosts, bounds>>

\* Mutant: a directory that is there again is not put back.
Give_back_BugKeepsNew ==
  /\ src' = (IF src = Nothing THEN aside.src ELSE src) /\ marker' = aside.marker
  /\ built' = (IF Environment_kept \/ built # Nothing THEN built ELSE aside.built)
  /\ result' = "restored" /\ UNCHANGED <<patched, made, faults>>

\* ... and of one that failed: what was moved aside is copied back.
Give_back ==
  /\ src' = aside.src /\ marker' = aside.marker /\ patched' = aside.patched
  /\ IF Environment_kept THEN UNCHANGED <<built, made>>
     ELSE built' = aside.built /\ made' = aside.made
  /\ result' = "restored" /\ UNCHANGED faults

Half_restored ==
  /\ src' = (IF aside.src = Nothing THEN Half(src) ELSE Torn)
  /\ UNCHANGED <<marker, patched, made>>
  /\ built' = (IF Environment_kept THEN built
               ELSE IF aside.built = Nothing THEN Half(built) ELSE Torn)

Give_up ==
  /\ phase = "failing" /\ phase' = "idle" /\ aside' = Nothing
  /\ \/ aside = Nothing /\ result' = "failed" /\ UNCHANGED <<disk, faults>>
     \/ aside # Nothing /\ Give_back
     \/ aside # Nothing /\ Half_restored /\ result' = "restore failed" /\ Fault
  /\ Scar
  /\ UNCHANGED <<config, pin, upstream, todo, entry, goal, setup_tracker,
                 branch_state, cache, before, setups, kills>>

-----------------------------------------------------------------------------
(* What happens around a setup.                                              *)

Publish ==
  /\ upstream < MaxVersion /\ upstream' = upstream + 1
  /\ UNCHANGED <<config, pin, run, setup_tracker, disk, branch_state, cache, aside,
                 result, ghosts, bounds>>

Repin ==
  /\ phase = "idle" /\ setups < MaxSetups /\ mode \in {"pinned", "release", "commit"}
  /\ pin' \in (1 .. upstream) \cup {c \in {Channel} : mode # "commit"}
  /\ pin' # pin
  /\ UNCHANGED <<config, upstream, run, setup_tracker, disk, branch_state, cache,
                 aside, result, ghosts, bounds>>

\* What the step that was running leaves when the container is killed.
Half_done ==
  CASE phase = "failing" /\ aside # Nothing -> Half_restored
    [] Op_is("clear") ->
         /\ src' = Half(src) /\ UNCHANGED <<marker, patched, made>>
         /\ built' = IF Environment_kept THEN built ELSE Half(built)
    [] Op_is("tidy") -> src' = Half(src) /\ UNCHANGED <<built, marker, patched, made>>
    [] Op_is("unpack") -> Unpack_this(Torn) /\ UNCHANGED <<marker, made>>
    [] Op_is("write") \/ Op_is("attempt") \/ Op_is("build") \/ Op_is("activate") ->
         built' = Torn /\ UNCHANGED <<src, marker, patched, made>>
    [] Op_is("refresh") -> built' = Half(built) /\ UNCHANGED <<src, marker, patched, made>>
    [] Op_is("swap") -> built' = Nothing /\ UNCHANGED <<src, marker, patched, made>>
    [] OTHER -> UNCHANGED disk

Kill ==
  /\ phase # "idle" /\ kills < MaxKills /\ kills' = kills + 1
  /\ Half_done \/ UNCHANGED disk
  /\ phase' = "idle" /\ todo' = <<>> /\ aside' = Nothing
  /\ setup_tracker' = FALSE /\ result' = "killed"
  /\ Scar
  /\ UNCHANGED <<config, pin, upstream, entry, goal, branch_state, cache, before,
                 setups, faults>>

-----------------------------------------------------------------------------
Init ==
  /\ service \in Services /\ mode \in Modes(service)
  /\ clear_on_update \in BOOLEAN
  /\ auto_update \in          \* only a release that setup_project selects asks
       {b \in BOOLEAN : b => /\ mode = "release" /\ service \in AutoUpdated
                            /\ service \notin Source_managed_by_service_setup}
  /\ install_cache \in {b \in BOOLEAN : b => clear_on_update}   \* only a clear asks
  /\ needs_patches \in {b \in BOOLEAN : b => Patches(service) # {}}
  /\ pin = (IF mode = "commit" THEN 1 ELSE Channel) /\ upstream = 1
  /\ todo = <<>> /\ phase = "idle" /\ entry = "setup" /\ goal = Nothing
  /\ setup_tracker = FALSE
  /\ src = Nothing /\ built = Nothing /\ marker = Nothing /\ patched = {} /\ made = {}
  /\ branch_state = Nothing /\ cache = Nothing /\ aside = Nothing
  /\ result = "none" /\ before = Installed /\ scarred = FALSE
  /\ setups = 0 /\ faults = 0 /\ kills = 0

Next ==
  \/ Choose \/ Call_step \/ Fail_step
  \/ Select_step \/ Resolve_step \/ Lookup_step \/ Head_step
  \/ Clear_step \/ Tidy_step \/ Unpack_step \/ Patch_step
  \/ Write_step \/ Build_step \/ Refresh_step \/ Activate_step \/ Swap_step
  \/ Mark_step \/ Record_step
  \/ \E e \in {"setup", "install", "configure"} : Ask(e)
  \/ Then_configure \/ Succeed \/ Give_up
  \/ Publish \/ Repin \/ Kill

Spec == Init /\ [][Next]_vars

-----------------------------------------------------------------------------
TypeOK ==
  /\ service \in Services /\ mode \in Modes(service)
  /\ {auto_update, clear_on_update, install_cache, needs_patches} \subseteq BOOLEAN
  /\ patched \subseteq Patches(service)
  /\ made \in (SUBSET Patches(service)) \cup {{"prebuilt"}}
  /\ pin \in Version \cup {Channel} /\ upstream \in Version
  /\ phase \in {"idle", "install", "configure", "failing"}
  /\ entry \in {"setup", "install", "configure"}
  /\ goal \in Version \cup {Nothing, Channel}
  /\ {src, built} \subseteq Content /\ marker \in Version \cup {Nothing, Channel}
  /\ {branch_state, cache} \subseteq Version \cup {Nothing, Channel}
  /\ setup_tracker \in BOOLEAN /\ scarred \in BOOLEAN

\* A setup that failed after clearing a directory leaves the service's files as
\* they were before it: what was moved aside is put back over whatever was
\* downloaded or built since (_finish_deferred_clears).
RestoredIsBefore ==
  result = "restored" =>
    /\ src = before.src /\ marker = before.marker /\ patched = before.patched
    /\ ~Environment_kept => built = before.built /\ made = before.made

Succeeding ==
  todo = <<>> /\ entry # "configure"
  /\ phase = (IF entry = "install" THEN "install" ELSE "configure")

\* A release by name is no pin while automatic updates are on (Release_wanted).
Pinned ==
  /\ mode \in {"pinned", "release", "commit"} /\ pin # Channel
  /\ mode = "release" => ~auto_update

\* Once its sources are there, these are not built because no runtime is; these
\* write over a runtime before the marker of it, without clearing it first; and
\* these replace a runtime as a whole, and so whatever left one torn.
Never_rebuilt ==
  {"bazarr", "dumb_frontend", "phalanx_db", "cli_debrid", "zilean",
   "riven_backend", "riven_frontend"}
Marked_afterwards ==
  {"emby", "altmount", "cloudflared", "authelia", "decypharr", "infinidysk"}
Replaced_whole == {"mediastorm", "aiostreams"}

Recovers ==
  /\ faults > 0 => service \notin Keeps_environment \cup Marked_afterwards
  /\ kills > 0 => service \notin Keeps_environment \cup Marked_afterwards \cup Never_rebuilt
  /\ scarred => service \in Replaced_whole

\* A setup that succeeds with a release or commit pinned, the release not left to
\* automatic updates (setup.py:2308), leaves that version's runtime, whatever failed
\* or was cut short before it, and whichever versions the files were of: no test of
\* a version marker or of a file's presence may take an old installation, or where
\* a runtime is replaced as a whole a broken one, for the one asked for.
PinIsInstalled ==
  Succeeding /\ Pinned /\ clear_on_update /\ install_cache /\ Recovers
    => built = pin

\* A setup that succeeds leaves no runtime made of sources that were patched
\* since: patching and building are separate steps, of separate phases even, and
\* only the step that patches knows that what was built before is out of date.
PatchesAreBuilt ==
  Succeeding /\ made # {"prebuilt"} /\ Whole(built) /\ built = src /\ ~scarred
    /\ (faults + kills > 0 => service # "traefik_proxy_admin")
    /\ (faults > 0 /\ kills > 0 => service # "infinidysk")
    => patched \subseteq made
=============================================================================
