-------------------------- MODULE ServiceInstallers --------------------------
(* The installers of utils/setup.py, written as the programs ServiceSetup    *)
(* runs.  A program is a sequence of steps: calls that can only fail, steps  *)
(* that change what is installed, and tests that choose between programs.    *)
(* Calls whose failure the code logs and ignores change nothing that is      *)
(* modelled and are left out, as are the settings a service is given.        *)
EXTENDS Sequences

Op(o, w) == <<[op |-> o, what |-> w]>>

\* A call that may fail, and then ends the setup with its error.
Call(f) == Op("call", f)
Fail(f) == Op("fail", f)

\* The version to install is chosen: the selector itself, the release it means
\* now (an error, or a shrug, without the network), or the branch's head.
Select  == Op("select", "release_version")
Resolve == Op("resolve", "get_latest_release")
Lookup  == Op("lookup", "get_latest_release")
Guess   == Op("lookup", "version marker")
Branch_head == Op("head", "get_ref_commit_sha")

Clear   == Op("clear", "clear_directory")
Tidy(f) == Op("tidy", f)

\* An archive of sources, or of the runtime itself, is merged into the target.
Unpack(kind) == Op("unpack", kind)

\* A build writes the runtime where it is run from; its last step makes it whole.
Write(f) == Op("write", f)
Build(f) == Op("build", f)

\* A build whose failure is no error: another one follows.
Attempt(f) == Op("attempt", f)

\* What is built is written to once more, where it is.
Refresh(f) == Op("refresh", f)

\* DUMB's own changes to the sources; failing to make them is an error, or only
\* a warning.
Patch(f)     == Op("patch", f)
Try_patch(f) == Op("try patch", f)

\* A runtime made beside the live one and renamed over it, in several renames
\* that are undone on failure, or as one directory.
Activate(f) == Op("activate", f)
Swap(f)     == Op("swap", f)

Mark   == Op("mark", "version_write")
Mark_package == Op("mark", "package.json")
Record == Op("record", "_write_branch_state")

If(c, p, q)  == <<[op |-> "if", what |-> c, then |-> p, else |-> q]>>
When(c, p)   == If(c, p, <<>>)
Unless(c, p) == If(c, <<>>, p)
Need(c)      == Unless(c, Fail(c))

Install(p)   == When("install", p)
Configure(p) == When("configure", p)

-----------------------------------------------------------------------------
(* Environments.                                                             *)

Ensure_system_dependencies == Call("system packages")
Create_venv        == Call("python") \o Write("python -m venv --clear")
Bootstrap_venv_pip == Write("get-pip")
Install_requirements == Write("pip install -r")

\* The dependency is pinned and locked once: when locking it fails, the next
\* setup finds it pinned.
Maybe_patch_riven_plexapi_dependency ==
  When("unpatched", Patch("plexapi") \o Write("poetry update plexapi"))

Install_poetry(s) ==
  Call("poetry_env_setup") \o Call("install_poetry")
  \o (IF s = "riven_backend" THEN Maybe_patch_riven_plexapi_dependency ELSE <<>>)
  \o Write("poetry install")

Python_steps(s) ==
  Ensure_system_dependencies \o Create_venv
  \o When("option", Bootstrap_venv_pip) \o When("option", Install_requirements)
  \o (IF s \in {"riven_backend", "neutarr"} THEN Install_poetry(s) ELSE <<>>)

Setup_python_environment(s) == Python_steps(s) \o Build("pip check")

Ensure_pnpm_version == Call("corepack prepare")
Pnpm_install == Write("pnpm install")
Pnpm_build   == Build("pnpm build")

Setup_pnpm_environment == Ensure_pnpm_version \o Pnpm_install \o Pnpm_build

Setup_bun_environment ==
  Write("bun install") \o Write("bun build") \o Build("bun migrate")

Ensure_local_dotnet_sdk == Call("dotnet-install")
Dotnet_restore == Write("dotnet restore")
Dotnet_publish == Build("dotnet publish")

Setup_dotnet_environment ==
  When("option", Ensure_local_dotnet_sdk) \o Dotnet_restore \o Dotnet_publish

Setup_environment(s) ==
  CASE s \in {"cli_debrid", "tautulli", "bazarr", "neutarr", "riven_backend"} ->
         Setup_python_environment(s)
    [] s \in {"traefik_proxy_admin", "phalanx_db", "riven_frontend", "seerr",
              "dumb_frontend"} -> Setup_pnpm_environment
    [] s = "pulsarr" -> Setup_bun_environment
    [] s = "profilarr" -> Python_steps(s) \o Ensure_pnpm_version \o Pnpm_install
                          \o Write("pnpm build")
    [] s = "zilean" -> Python_steps(s) \o Setup_dotnet_environment
    [] OTHER -> <<>>

\* Without its directory, a service fetches its own sources.
Fetch_own ==
  When("clears", Clear)
  \o If("branch", Call("get_branch") \o Unpack("source"),
        Lookup \o Unpack("source") \o Mark)

-----------------------------------------------------------------------------
(* Services made of one binary.                                              *)

\* A package, or an archive that was validated, is unpacked over the runtime.
Install_package == Unpack("package") \o Build("unpack in place")

\* A channel that cannot be looked up keeps what is there.
Arr_release ==
  If("present",
     If("latest", Lookup, Select)
     \o When("resolved", When("outdated", Install_package)),
     Select \o Install_package)

\* An installer that keeps what it finds unless another version is pinned.
Keep_or_install ==
  If("present", When("named", Select \o When("outdated", Install_package)),
     Resolve \o Install_package)

Install_arr_binary == If("release", Arr_release, Keep_or_install) \o Need("present")

Find_arr_binary == Need("present")
Ensure_arr_config == Call("ensure_arr_config")

Setup_arr_instance ==
  If("configure", Find_arr_binary, Install_arr_binary)
  \o Configure(Ensure_arr_config \o Call("apply_arr_postgres_config"))

Setup_plex == Keep_or_install \o Configure(Call("claim"))

Setup_jellyfin == Keep_or_install

\* The version of its package is written beside it.
Install_emby == Install_package \o Mark

Setup_emby ==
  If("present", When("named", Select \o When("outdated", Install_emby)),
     Resolve \o Install_emby)

\* The port and the credentials go into its config.yml; it needs an API key.
Configure_zurg ==
  Call("config.yml") \o Call("update_port") \o Need("option") \o Call("update_creds")

Zurg_setup ==
  If("install",
     Unless("present", Select \o Unpack("runtime")),
     Need("option") \o Configure_zurg \o Need("present"))

\* The rclone instances of Decypharr are switched on and off in the settings.
Reconcile_external_rclone_instances ==
  When("option", Call("save_config"))

\* A build of a branch is replaced by the release when the branch is given up.
Install_decypharr ==
  Unless("source build",
    If("present", When("option", Resolve \o Unpack("runtime") \o Mark),
       Resolve \o Unpack("runtime") \o Mark))

Ensure_decypharr_dfs_cache_dir == When("option", Call("dfs cache_dir"))

\* In the configure phase.
Patch_decypharr_config == Call("patch_decypharr_config")
Normalize_decypharr_runtime_ownership == Call("ownership")

Setup_decypharr ==
  Reconcile_external_rclone_instances \o Install(Install_decypharr) \o Configure(Need("present"))
  \o When("option", Call("fuse_config")) \o Ensure_decypharr_dfs_cache_dir
  \o Configure(Patch_decypharr_config) \o Normalize_decypharr_runtime_ownership

\* Its own database in a PostgreSQL that runs already.
Initialize_postgres_databases_if_running == Call("postgres databases")

Setup_authelia ==
  Initialize_postgres_databases_if_running
  \o Unless("present", Need("install") \o Resolve \o Unpack("runtime") \o Mark)
  \o If("install", When("option", Call("render_authelia_config")),
        Need("option") \o Call("render_authelia_config")
        \o Call("authelia config validate"))

\* Another pinned version replaces what is there, in the install phase only.
Keep_own_binary ==
  If("present",
     When("named", Select \o When("outdated",
       Need("install") \o Unpack("runtime") \o Mark)),
     Need("install") \o Resolve \o Unpack("runtime") \o Mark)

Setup_altmount ==
  Call("mount_path") \o Keep_own_binary \o Call("patch_altmount_config")

Setup_cloudflared == Keep_own_binary

\* Runtimes taken from an OCI image, made whole and checked beside the live one.
Apply_mediastorm_layer    == Call("apply_mediastorm_layer")
Resolve_runtime_libraries == Call("_resolve_runtime_libraries")
Build_python_environment  == Call("_build_python_environment")
Mediastorm_runtime_ready  == Call("mediastorm_runtime_ready")

Install_mediastorm_runtime ==
  Resolve \o Apply_mediastorm_layer
  \o Resolve_runtime_libraries \o Build_python_environment
  \o Mediastorm_runtime_ready \o Swap("_atomic_replace_runtime")

Apply_aiostreams_layer   == Call("apply_aiostreams_layer")
Aiostreams_runtime_ready == Call("aiostreams_runtime_ready")
Validate_node_runtime    == Call("_validate_node_runtime")

Install_aiostreams_runtime ==
  Resolve \o Apply_aiostreams_layer
  \o Aiostreams_runtime_ready \o Validate_node_runtime \o Swap("_atomic_replace_runtime")

Selected_runtime(installer) ==
  Select
  \o Unless("selected", Need("install") \o installer \o Call("chown_recursive"))

\* The runtime's version and its scripts are linked to where it looks for them.
Ensure_mediastorm_runtime_link == Call("symlink")
Ensure_mediastorm_app_version  == Call("app-version.txt") \o Ensure_mediastorm_runtime_link

Setup_mediastorm ==
  Selected_runtime(Install_mediastorm_runtime)
  \o Ensure_mediastorm_app_version \o Ensure_mediastorm_runtime_link
  \o Initialize_postgres_databases_if_running
  \o Configure(Call("save_config"))

\* Its address, its database and its login are checked before they are used.
Validate_aiostreams == Call("base_url") \o Call("database_uri") \o Call("auth")

Setup_aiostreams ==
  Selected_runtime(Install_aiostreams_runtime)
  \o Configure(Validate_aiostreams \o Call("save_config") \o Call("chown_recursive"))

-----------------------------------------------------------------------------
(* Services made from sources.                                               *)

\* Its jobs are made to survive PostgreSQL; a source that does not fit is left.
Patch_bazarr_postgres_job_cleanup == When("option", Try_patch("job cleanup"))

Sync_bazarr_port == Call("config.yaml")

Ensure_bazarr_postgres_driver ==
  Need("present") \o Unless("option", Write("pip install") \o Build("psycopg2"))

Setup_bazarr(fetch) ==
  Unless("source", Need("install") \o fetch) \o Need("source")
  \o Patch_bazarr_postgres_job_cleanup \o Call("chown_recursive")
  \o Configure(When("option", Ensure_bazarr_postgres_driver)
               \o Call("chown_recursive") \o Sync_bazarr_port)

\* Every file of the repository its entry point imports must be there.
Validate_cli_debrid_source == Need("source whole")

Vite_modifications == Patch("vite")

Prepare_zilean_runtime_data == Call("makedirs") \o Call("chown_recursive")

Dumb_frontend_setup == Call("dumb_frontend_setup")

\* Its files are only looked for: nothing is built once they are there.
Phalanx_setup ==
  Unless("source",
         Need("install") \o Resolve \o Unpack("source")
         \o Setup_environment("phalanx_db"))

Setup_tautulli ==
  Unless("source", Need("install") \o Fetch_own)
  \o Install(Unless("present", Setup_environment("tautulli")))

Setup_seerr ==
  If("source",
     Install(Unless("present", Setup_environment("seerr"))),
     Need("install") \o Fetch_own \o Setup_environment("seerr"))

\* Without a marker, the newest release is taken for what is there.
Backfill_version_marker == When("unmarked", Guess \o Mark)

Patch_traefik_proxy_admin == Try_patch("traefik_proxy_admin")

Sync_standalone_assets ==
  When("present", Refresh("_sync_traefik_proxy_admin_standalone_assets"))

\* Its database, its address and its secrets are saved before it is looked for.
Configure_traefik_proxy_admin ==
  Initialize_postgres_databases_if_running \o Call("save_config")

\* Sources that were patched just now are built again, but not when configuring.
Setup_traefik_proxy_admin ==
  LET Env == Setup_environment("traefik_proxy_admin") IN
  Configure_traefik_proxy_admin
  \o If("source",
        Backfill_version_marker
        \o If("unpatched", Patch_traefik_proxy_admin \o Install(Env),
              Install(Unless("present", Env))),
        Need("install") \o Fetch_own \o When("branch", Mark)
        \o When("unmarked", Mark) \o Patch_traefik_proxy_admin \o Install(Env))
  \o Sync_standalone_assets

Run_pulsarr_migration == Call("bun_migrate")

Setup_pulsarr ==
  If("source",
     Install(Unless("present", Setup_environment("pulsarr"))),
     Need("install") \o Fetch_own \o When("branch", Mark)
     \o Setup_environment("pulsarr"))
  \o Configure(Run_pulsarr_migration)

\* Fifteen files, in three groups; each is left as it is when it does not fit.
Patch_neutarr == Try_patch("managers") \o Try_patch("runtime") \o Try_patch("application")

Write_neutarr_version_marker == When("unmarked", Guess \o Mark)

\* Its paths, its port and its command follow the instance's directory.
Configure_neutarr == Configure(Call("save_config"))

Setup_neutarr ==
  LET Env == Setup_environment("neutarr") IN
  Configure_neutarr
  \o If("source",
        Patch_neutarr \o Install(If("option", Env, Unless("present", Env))),
        Need("install") \o Fetch_own \o When("branch", Mark)
        \o Patch_neutarr \o Install(Env))
  \o Write_neutarr_version_marker

\* Paths of the image the files were built for are replaced, file by file.
Relocate_maintainerr_runtime_paths == Refresh("_relocate_maintainerr_runtime_paths")

Run_maintainerr_yarn_command(f) == Write(f)

Build_maintainerr ==
  Need("source") \o Call("chown_recursive")
  \o Run_maintainerr_yarn_command("install") \o Run_maintainerr_yarn_command("build")
  \o Run_maintainerr_yarn_command("focus") \o Run_maintainerr_yarn_command("rebuild")
  \o Build("dist/ui")

Setup_maintainerr ==
  Unless("present", Need("install") \o Build_maintainerr)
  \o Relocate_maintainerr_runtime_paths
  \o Unless("source build", Mark_package) \o Configure(Call("save_config"))

\* Compiled beside the runtime, which is then replaced, file by file.
Ensure_profilarr_deno == Call("deno")
Write_profilarr_v2_build_info == Call("build.ts")
Run_profilarr_build_step(f) == Call(f)

Build_profilarr_v2 ==
  Ensure_profilarr_deno \o Write_profilarr_v2_build_info
  \o Run_profilarr_build_step("install") \o Run_profilarr_build_step("build")
  \o Run_profilarr_build_step("compile") \o Build("runtime")

Build_profilarr ==
  Need("source")
  \o If("option", Setup_environment("profilarr") \o Build("_sync_profilarr_static"),
        Build_profilarr_v2)

\* The sources are fetched again whenever the marker is not the one wanted.
Fetch_profilarr ==
  When("clears", Clear) \o Unpack("source") \o Mark

Setup_profilarr ==
  If("install",
     If("source build", Call("get_branch") \o Branch_head, Resolve)
     \o If("source",
           If("outdated", Fetch_profilarr \o Build_profilarr,
              Unless("present", Build_profilarr)),
           Fetch_profilarr \o Build_profilarr),
     Need("source"))
  \o Call("save_config")

Build_decypharr_dev ==
  Write("pnpm build") \o Write("go build") \o Build("chmod") \o Mark

-----------------------------------------------------------------------------
(* InfiniDysk, from a prebuilt archive or from sources.                      *)

\* Failing to add the reference ends the setup; the others are left out then.
Add_hashing_reference == Patch("hashing reference")
Patch_nzbdav_sources  == Try_patch("resources and namespaces")
Patch_nzbdav_main_api_compat == Try_patch("main api")

\* The frontend is built in place, the backend beside the one that runs; what
\* was published must hold something to run.
Nzbdav_build_command == Call("_nzbdav_build_command")
Validate_nzbdav_runtimeconfig == Call("_validate_nzbdav_runtimeconfig")

Build_nzbdav ==
  Write("pnpm build") \o Call("dotnet publish") \o Write("pnpm build:server")
  \o Nzbdav_build_command \o Validate_nzbdav_runtimeconfig \o Activate("source build")

\* A build of the same sources kept by the install cache.
Restore_artifact ==
  Attempt("pnpm install") \o If("option", Activate("artifact"), Build_nzbdav)

Find_nzbdav_backend_project == Need("source")

Setup_nzbdav_build ==
  Find_nzbdav_backend_project \o Call("chown_recursive")
  \o Add_hashing_reference \o Patch_nzbdav_sources \o Patch_nzbdav_main_api_compat
  \o If("option", Restore_artifact, Build_nzbdav)

\* Whatever goes wrong with it leaves all as it was, and sources are used instead.
Install_nzbdav_prebuilt_release == Activate("prebuilt")
Prebuilt_or(sources) ==
  If("option", Install_nzbdav_prebuilt_release \o Mark, sources)

Nzbdav_sources ==
  When("clears", Clear) \o Tidy("_prepare_nzbdav_source_tree") \o Unpack("source")

\* A release is fetched; the sources of a branch or a commit are not.
Fetch_nzbdav ==
  Need("install")
  \o Unless("source build",
       Resolve \o Prebuilt_or(Call("get_ref_commit_sha") \o Nzbdav_sources \o Mark))

Rebuild_nzbdav == Need("install") \o Setup_nzbdav_build

\* What runs it: the native host or dotnet, and the frontend.
Write_nzbdav_start_script == Nzbdav_build_command \o Call("start-infinidysk.sh")
Normalize_nzbdav_writable_ownership == Call("chown")

Setup_nzbdav ==
  Call("_validate_infinidysk_postgres_source")
  \o Configure(Need("present") \o Call("_validate_infinidysk_postgres_runtime"))
  \o Call("_validate_infinidysk_postgres_fresh_install")
  \o Unless("prebuilt",
       If("present", Unless("source", Fetch_nzbdav), Unless("source build", Fetch_nzbdav))
       \o Unless("prebuilt",
            Find_nzbdav_backend_project
            \o If("present", When("unpatched", Rebuild_nzbdav), Rebuild_nzbdav)))
  \o Configure(Write_nzbdav_start_script) \o Normalize_nzbdav_writable_ownership

-----------------------------------------------------------------------------
(* rclone, whose mounts are set up and nothing is installed.                 *)

Fuse_config == Call("/etc/fuse.conf")

\* What is mounted: a service's WebDAV server, a provider's, whose credentials
\* must be there, or InfiniDysk's, whose settings may not be readable.
Rclone_webdav_remote   == Need("option") \o Call("get_port_from_config")
Rclone_provider_remote == Need("option")
Rclone_infinidysk_remote == Call("_read_nzbdav_config_values")
Rclone_remote ==
  If("option", Rclone_webdav_remote,
     If("option", Rclone_provider_remote, Rclone_infinidysk_remote))

Update_or_generate_command == Call("_select_rclone_rc_port")

\* An instance that is disabled, or runs, is left as it is.
Setup_rclone_instance ==
  When("option",
    Rclone_remote \o Call("write_config") \o Call("ensure_directory")
    \o Update_or_generate_command)

Rclone_setup == Configure(Fuse_config \o Setup_rclone_instance)
=============================================================================
