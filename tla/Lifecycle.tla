----------------------------- MODULE Lifecycle -----------------------------
(***************************************************************************)
(* The process: runServe of cmd/yoshi-pihole/main.go with config.Load and  *)
(* db.Open, kept alive by launchd (the KeepAlive of install.sh), from one  *)
(* start to the next.  What a process holds in memory (the engine, the     *)
(* switch, its listeners) ends with it; what it fetched stays in its data  *)
(* directory.  Its own names are resolved by the servers of the Mac, which *)
(* may be itself, and it does not answer before its first update is over.  *)
(*                                                                         *)
(* Modules of their own model the update, the reload, the resolver, the    *)
(* switch and the query log; here an update succeeds or does not.          *)
(***************************************************************************)
EXTENDS Integers

CONSTANTS
    Service,     \* network services of the Mac
    Contended,   \* listeners whose port somebody else may hold at first
    MaxCrashes   \* bound: crashes of the process and restarts of the Mac

Listener == {"udp", "tcp", "http"}

ASSUME LifecycleAssumption ==
    /\ Contended \subseteq Listener
    /\ MaxCrashes \in Nat

VARIABLES
    config,    \* the prefix: none, missing (no config.yaml), partial (data_dir relative) or good
    plist,     \* the LaunchDaemon file is there
    job,       \* launchd has the job
    servers,   \* the DNS servers of a service: manual, dhcp or self
    fetched,   \* the data directories whose gravity.db has the lists
    phase,     \* of the process: down, updating, serving or stopping
    dir,       \* its data directory: prefix (data_dir), cwd (the default), or unlinked
    engine,    \* its engine has the lists
    unloaded,  \* its engine is empty, and the last load of it failed
    late,      \* its first lists were fetched by hand, when it served already
    up,        \* the listeners it has
    paused,    \* its switch
    busy,      \* the ports somebody else holds
    crashes    \* so far

processVars == <<phase, dir, engine, unloaded, late, up, paused>>
lifecycleVars == <<config, plist, job, servers, fetched, processVars, busy, crashes>>

-----------------------------------------------------------------------------
\* A file that is not there, or says nothing of it, gives the default.
DataDir == IF config = "good" THEN "prefix" ELSE "cwd"

\* The databases of a directory are opened as the last process left them.
Lists == dir \in fetched

\* launchd starts it again whenever it has ended, as long as its binary is there.
Boot ==
    /\ job /\ phase = "down" /\ config # "none"
    /\ phase' = "updating"
    /\ dir' = DataDir /\ fetched' = fetched \ {"unlinked"}
    /\ UNCHANGED <<config, plist, job, servers, engine, unloaded, late, up, paused, busy, crashes>>

\* Somebody answers the Mac's queries: servers of the network, the daemon, or who
\* has its port.
Resolvable ==
    \/ \E s \in Service : servers[s] # "self"
    \/ "udp" \in up \cup busy

\* The reload of runServe: one that fails is only logged, and the engine stays.
LoadLists ==
    \/ engine' = Lists' /\ unloaded' = FALSE
    \/ unloaded' = ~engine /\ UNCHANGED engine

\* No lists, no service.
MutFirstUpdate ==
    /\ phase = "updating" /\ Resolvable
    /\ fetched' = fetched \cup {dir}
    /\ phase' = "serving"
    /\ UNCHANGED <<config, plist, job, servers, dir, late, up, paused, busy, crashes>>
    /\ LoadLists

\* The engine is loaded when the update brought something.
MutReloadFirst ==
    /\ phase = "updating"
    /\ phase' = "serving"
    /\ UNCHANGED <<config, plist, job, servers, dir, late, up, paused, busy, crashes>>
    /\ \/ Resolvable /\ fetched' = fetched \cup {dir} /\ LoadLists
       \/ UNCHANGED <<fetched, engine, unloaded>>

\* The update of the start has 60 seconds, and its failure is only logged: what is
\* in gravity.db is loaded in either case, and the servers are started, whether or
\* not it could be loaded.
FirstUpdate ==
    /\ phase = "updating"
    /\ \/ Resolvable /\ fetched' = fetched \cup {dir}
       \/ UNCHANGED fetched
    /\ phase' = "serving"
    /\ UNCHANGED <<config, plist, job, servers, dir, late, up, paused, busy, crashes>>
    /\ LoadLists

\* A port somebody else holds ends the process, with the listeners it has.
Listen(l) ==
    /\ phase = "serving" /\ l \notin up
    /\ \/ l \notin busy /\ up' = up \cup {l} /\ UNCHANGED phase
       \/ l \in busy /\ phase' = "stopping" /\ UNCHANGED up
    /\ UNCHANGED <<config, plist, job, servers, fetched, dir, engine, unloaded, late, paused, busy, crashes>>

\* handleListsUpdate: the user has the lists fetched, in a goroutine of its own.
UpdateByHand ==
    /\ "http" \in up /\ Resolvable
    /\ fetched' = fetched \cup {dir}
    /\ late' = (late \/ ~Lists)
    /\ UNCHANGED <<config, plist, job, servers, phase, dir, engine, unloaded, up, paused, busy, crashes>>

\* By that goroutine, or by a handler that changed a table.  Reloads overlap (see
\* RuleReload): one that read before the first lists were stored may come last.
Reload ==
    /\ "http" \in up
    /\ UNCHANGED <<config, plist, job, servers, fetched, phase, dir, late, up, paused, busy, crashes>>
    /\ \/ LoadLists
       \/ late /\ engine' = FALSE /\ unloaded' = FALSE

\* handleBlockingPost, from the dashboard; a pause that was timed also ends.
SwitchBy(b) ==
    /\ "http" \in up
    /\ paused' = b
    /\ UNCHANGED <<config, plist, job, servers, fetched, phase, dir, engine, unloaded, late, up, busy, crashes>>

\* The state of a process is gone with it.
Gone ==
    /\ phase' = "down"
    /\ up' = {} /\ paused' = FALSE
    /\ engine' = FALSE /\ unloaded' = FALSE /\ late' = FALSE
    /\ UNCHANGED dir

\* Shutdown and the deferred calls, five seconds at most.
Exit ==
    /\ phase = "stopping"
    /\ Gone
    /\ UNCHANGED <<config, plist, job, servers, fetched, busy, crashes>>

Crash ==
    /\ phase # "down" /\ crashes < MaxCrashes
    /\ Gone
    /\ crashes' = crashes + 1
    /\ UNCHANGED <<config, plist, job, servers, fetched, busy>>

\* SIGTERM: until signal.Notify it kills, then it ends the select of runServe.
Terminated ==
    \/ phase = "serving" /\ phase' = "stopping" /\ UNCHANGED <<dir, engine, unloaded, late, up, paused>>
    \/ phase = "updating" /\ Gone
    \/ phase \in {"down", "stopping"} /\ UNCHANGED processVars

\* Whoever holds a port gives it up.
PortFreed(l) ==
    /\ l \in busy
    /\ busy' = busy \ {l}
    /\ UNCHANGED <<config, plist, job, servers, fetched, processVars, crashes>>

LifecycleInit ==
    /\ config = "none" /\ plist = FALSE /\ job = FALSE
    /\ fetched = {}
    /\ phase = "down" /\ dir = "cwd" /\ up = {} /\ paused = FALSE
    /\ engine = FALSE /\ unloaded = FALSE /\ late = FALSE
    /\ busy \in SUBSET Contended
    /\ crashes = 0

LifecycleNext ==
    \/ Boot \/ FirstUpdate \/ UpdateByHand \/ Reload \/ Exit \/ Crash
    \/ \E l \in Listener : Listen(l) \/ PortFreed(l)
    \/ \E b \in BOOLEAN : SwitchBy(b)
=============================================================================
