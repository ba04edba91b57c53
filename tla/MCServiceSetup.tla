--------------------------- MODULE MCServiceSetup ---------------------------
(* One service of every kind of installer, each in every mode; and the nodes *)
(* of every installer's program.                                             *)
EXTENDS PinnedSetups

\* Of the same kind: plex, jellyfin, cloudflared and altmount; pulsarr, seerr
\* and traefik_proxy_admin; tautulli and neutarr; phalanx_db, dumb_frontend and
\* riven_frontend; zilean and riven_backend.
Studied ==
  {"sonarr", "emby", "zurg", "decypharr", "authelia", "altmount", "mediastorm",
   "aiostreams", "bazarr", "tautulli", "traefik_proxy_admin", "maintainerr",
   "profilarr", "infinidysk", "cli_debrid", "riven_backend", "riven_frontend"}

Every_service ==
  Studied \cup {"plex", "jellyfin", "cloudflared", "pulsarr", "seerr", "neutarr",
                "phalanx_db", "dumb_frontend", "zilean", "rclone"}

\* The nodes of a service that follow those where its setups start, and what can
\* be seen of it with a version pinned.
RECURSIVE Nodes_after(_, _)
Nodes_after(seen, new) ==
  LET all == seen \cup new
  IN IF all = seen THEN seen
     ELSE Nodes_after(all, UNION {Following(n) : n \in new \ seen})

RECURSIVE Seen_after(_, _)
Seen_after(seen, new) ==
  LET all == seen \cup new
  IN IF all = seen THEN seen
     ELSE Seen_after(all, UNION {After_sight(n) : n \in new \ seen})

Nodes_of(s) == Nodes_after({}, Starts({s}))
Seen_of(s) == Seen_after({}, First_sights(s))

\* What the theorems of ServiceSetup_proofs take from the programs is so of every one;
\* charts of single services are a chart of them all (Charts_together).
ASSUME ProgramsCharted == \A s \in Every_service : Charted({s}, Nodes_of(s))
ASSUME SetupsSighted == \A s \in Every_service : Sighted(s, Seen_of(s))
=============================================================================
