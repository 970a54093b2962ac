----------------------------- MODULE Installer -----------------------------
(***************************************************************************)
(* scripts/install.sh and scripts/uninstall.sh: what they do to the files, *)
(* to launchd and to the DNS servers of the Mac's services, command by     *)
(* command.  Both run under set -e, so a script may end between any two    *)
(* commands: one of them failed, or the user stopped it.  launchctl and    *)
(* networksetup are modelled from how the scripts use them.                *)
(***************************************************************************)
EXTENDS Lifecycle

CONSTANTS
    Original   \* the servers the user gave each service: manual, or dhcp for none

ASSUME InstallerAssumption == Original \in [Service -> {"manual", "dhcp"}]

VARIABLES
    pc,         \* the next command of the script that runs, or idle
    purge,      \* uninstall.sh was given --purge
    todo,       \* the services a loop still has before it
    hasBackup,  \* dns-backup.json is there
    backup,     \* the servers it has for a service, or none
    runs,       \* bound: scripts that may still be started
    lost,       \* history: a script left no copy of what a service had
    unread,     \* history: services whose servers could not be read for the backup
    cut         \* history: the script, or the last one, was stopped or had a failure

scriptVars == <<pc, purge, todo, hasBackup, backup, runs, lost, unread, cut>>

NoBackup == [s \in Service |-> "none"]
Redirected == {s \in Service : servers[s] = "self"}

\* What a step of a script leaves of the process and its files.
OnlyScript == UNCHANGED lifecycleVars
At(here, there) == pc = here /\ pc' = there

-----------------------------------------------------------------------------
(* install.sh *)

\* A build that fails ends the script before it changed anything.
StartInstall ==
    /\ runs > 0 /\ runs' = runs - 1
    /\ At("idle", "config") /\ cut' = FALSE
    /\ config' = IF config = "none" THEN "missing" ELSE config
    /\ UNCHANGED <<plist, job, servers, fetched, processVars, busy, crashes>>
    /\ UNCHANGED <<purge, todo, hasBackup, backup, lost, unread>>

\* The file is written by one sed and its data_dir made absolute by another.
WriteConfig ==
    /\ \/ config # "missing" /\ At("config", "plist") /\ UNCHANGED config
       \/ config = "missing" /\ At("config", "dataDir") /\ config' = "partial"
       \/ At("dataDir", "plist") /\ config' = "good"
    /\ UNCHANGED <<plist, job, servers, fetched, processVars, busy, crashes>>
    /\ UNCHANGED <<purge, todo, hasBackup, backup, runs, lost, unread, cut>>

WritePlist ==
    /\ At("plist", "bootout")
    /\ plist' = TRUE
    /\ UNCHANGED <<config, job, servers, fetched, processVars, busy, crashes>>
    /\ UNCHANGED <<purge, todo, hasBackup, backup, runs, lost, unread, cut>>

\* launchctl bootout || true: it may fail, and does not wait for the process to end.
Bootout(here, there) ==
    /\ At(here, there)
    /\ \/ job' = FALSE /\ Terminated
       \/ UNCHANGED <<job, processVars>>
    /\ UNCHANGED <<config, plist, servers, fetched, busy, crashes>>
    /\ UNCHANGED <<purge, todo, hasBackup, backup, runs, lost, unread, cut>>

\* Refused for a job that launchd still has, or whose process is still ending.
Bootstrap ==
    /\ IF phase = "down" /\ ~job
       THEN At("bootstrap", "kickstart") /\ job' = TRUE /\ UNCHANGED cut
       ELSE At("bootstrap", "idle") /\ UNCHANGED job /\ cut' = TRUE
    /\ UNCHANGED <<config, plist, servers, fetched, processVars, busy, crashes>>
    /\ UNCHANGED <<purge, todo, hasBackup, backup, runs, lost, unread>>

\* kickstart -k: the process that bootstrap has started is killed.
Kickstart ==
    /\ At("kickstart", "probe")
    /\ Gone
    /\ UNCHANGED <<config, plist, job, servers, fetched, busy, crashes>>
    /\ UNCHANGED <<purge, todo, hasBackup, backup, runs, lost, unread, cut>>

\* dig asks over UDP and takes any answer, that of another resolver too.  The ten
\* tries may be over before the first update is.
Probe ==
    /\ \/ "udp" \in up \cup busy /\ At("probe", "backup")
       \/ "udp" \notin up /\ At("probe", "idle")
    /\ OnlyScript /\ UNCHANGED <<purge, todo, hasBackup, backup, runs, lost, unread, cut>>

\* echo "{" >: whatever the file held is gone.
OpenBackup ==
    /\ At("backup", "copy")
    /\ hasBackup' = TRUE /\ backup' = NoBackup
    /\ todo' = Service
    /\ lost' = (lost \/ Redirected # {})
    /\ OnlyScript /\ UNCHANGED <<purge, runs, unread, cut>>

\* A loop over the services: the last one moves the script on.
Loop(s, here, there) ==
    /\ pc = here /\ s \in todo
    /\ IF todo = {s} THEN pc' = there ELSE UNCHANGED pc

\* read drops the last line, which has no end.
MutCopyServers(s) ==
    /\ pc = "copy" /\ s \in todo
    /\ IF \E t \in Service : todo \subseteq {s, t} THEN pc' = "redirect" ELSE UNCHANGED pc
    /\ todo' = IF pc' = "redirect" THEN Service ELSE todo \ {s}
    /\ backup' = [backup EXCEPT ![s] = servers[s]]
    /\ OnlyScript /\ UNCHANGED <<purge, hasBackup, runs, lost, unread, cut>>

\* getdnsservers || true: what cannot be read is saved as a service without servers,
\* and the script goes on.
CopyServers(s) ==
    /\ Loop(s, "copy", "redirect")
    /\ todo' = IF todo = {s} THEN Service ELSE todo \ {s}
    /\ \/ backup' = [backup EXCEPT ![s] = servers[s]] /\ UNCHANGED unread
       \/ /\ servers[s] # "dhcp" /\ unread' = unread \cup {s}
          /\ backup' = [backup EXCEPT ![s] = "dhcp"]
    /\ OnlyScript /\ UNCHANGED <<purge, hasBackup, runs, lost, cut>>

Redirect(s) ==
    /\ Loop(s, "redirect", "idle")
    /\ todo' = todo \ {s}
    /\ servers' = [servers EXCEPT ![s] = "self"]
    /\ UNCHANGED <<config, plist, job, fetched, processVars, busy, crashes>>
    /\ UNCHANGED <<purge, hasBackup, backup, runs, lost, unread, cut>>

-----------------------------------------------------------------------------
(* uninstall.sh *)

StartUninstall ==
    /\ runs > 0 /\ runs' = runs - 1
    /\ At("idle", "stop") /\ cut' = FALSE
    /\ purge' \in BOOLEAN
    /\ OnlyScript /\ UNCHANGED <<todo, hasBackup, backup, lost, unread>>

\* rm -f, and the test for the backup.  Without one, every service gets dhcp.
RemovePlist ==
    /\ At("remove", IF hasBackup THEN "restore" ELSE "reset")
    /\ plist' = FALSE
    /\ todo' = Service
    /\ lost' = (lost \/ ~hasBackup)
    /\ UNCHANGED <<config, job, servers, fetched, processVars, busy, crashes>>
    /\ UNCHANGED <<purge, hasBackup, backup, runs, unread, cut>>

\* A line with no servers is passed over.
MutRestore(s) ==
    /\ Loop(s, "restore", IF purge THEN "purge" ELSE "idle")
    /\ todo' = todo \ {s}
    /\ servers' = [servers EXCEPT ![s] = IF backup[s] = "manual" THEN backup[s] ELSE @]
    /\ UNCHANGED <<config, plist, job, fetched, processVars, busy, crashes>>
    /\ UNCHANGED <<purge, hasBackup, backup, runs, lost, unread, cut>>

\* read drops the last line of the backup.
MutRestoreLast(s) ==
    /\ pc = "restore" /\ s \in todo
    /\ IF \E t \in Service : todo \subseteq {s, t}
       THEN pc' = (IF purge THEN "purge" ELSE "idle") /\ todo' = {}
       ELSE UNCHANGED pc /\ todo' = todo \ {s}
    /\ servers' = [servers EXCEPT ![s] = IF backup[s] = "none" THEN @ ELSE backup[s]]
    /\ UNCHANGED <<config, plist, job, fetched, processVars, busy, crashes>>
    /\ UNCHANGED <<purge, hasBackup, backup, runs, lost, unread, cut>>

\* A line for the service, if there is one; networksetup || true.
Restore(s) ==
    /\ Loop(s, "restore", IF purge THEN "purge" ELSE "idle")
    /\ todo' = todo \ {s}
    /\ \/ /\ servers' = [servers EXCEPT ![s] = IF backup[s] = "none" THEN @ ELSE backup[s]]
          /\ UNCHANGED cut
       \/ UNCHANGED servers /\ cut' = TRUE
    /\ UNCHANGED <<config, plist, job, fetched, processVars, busy, crashes>>
    /\ UNCHANGED <<purge, hasBackup, backup, runs, lost, unread>>

Reset(s) ==
    /\ Loop(s, "reset", IF purge THEN "purge" ELSE "idle")
    /\ todo' = todo \ {s}
    /\ \/ servers' = [servers EXCEPT ![s] = "dhcp"] /\ UNCHANGED cut
       \/ UNCHANGED servers /\ cut' = TRUE
    /\ UNCHANGED <<config, plist, job, fetched, processVars, busy, crashes>>
    /\ UNCHANGED <<purge, hasBackup, backup, runs, lost, unread>>

\* rm -rf of the prefix: the backup goes, whether or not it could be restored.  A
\* process that still runs keeps the files it has open.
Purge ==
    /\ At("purge", "idle")
    /\ config' = "none"
    /\ IF phase # "down" /\ dir = "prefix"
       THEN /\ dir' = "unlinked"
            /\ fetched' = (fetched \ {"prefix"}) \cup {d \in {"unlinked"} : Lists}
       ELSE dir' = dir /\ fetched' = fetched \ {"prefix"}
    /\ hasBackup' = FALSE /\ backup' = NoBackup
    /\ lost' = (lost \/ Redirected # {})
    /\ UNCHANGED <<plist, job, servers, phase, engine, unloaded, late, up, paused, busy, crashes>>
    /\ UNCHANGED <<purge, todo, runs, unread, cut>>

-----------------------------------------------------------------------------
\* set -e, or the user.
Interrupt ==
    /\ pc # "idle" /\ pc' = "idle"
    /\ todo' = {} /\ cut' = TRUE
    /\ OnlyScript /\ UNCHANGED <<purge, hasBackup, backup, runs, lost, unread>>

InstallerInit ==
    /\ servers = Original
    /\ pc = "idle" /\ purge = FALSE /\ todo = {}
    /\ hasBackup = FALSE /\ backup = NoBackup
    /\ lost = FALSE /\ unread = {} /\ cut = FALSE

InstallerNext ==
    \/ StartInstall \/ WriteConfig \/ WritePlist \/ Bootout("bootout", "bootstrap")
    \/ Bootstrap \/ Kickstart \/ Probe \/ OpenBackup
    \/ StartUninstall \/ Bootout("stop", "remove") \/ RemovePlist \/ Purge
    \/ \E s \in Service : CopyServers(s) \/ Redirect(s) \/ Restore(s) \/ Reset(s)
    \/ Interrupt
=============================================================================
