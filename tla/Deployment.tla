----------------------------- MODULE Deployment -----------------------------
(***************************************************************************)
(* A Mac with Yoshi Pi-hole: the process under launchd, the scripts that   *)
(* install and remove it, and the icon in the menu bar, over the state     *)
(* they share.  The Mac itself may restart at any time.                    *)
(***************************************************************************)
EXTENDS Installer, StatusIcon

CONSTANTS
    Budget   \* bound: pairs of the scripts that are run, and whether there is an icon

ASSUME DeploymentAssumption == Budget \subseteq Nat \X BOOLEAN

VARIABLE hasIcon   \* the helper runs

vars == <<lifecycleVars, scriptVars, iconVars, hasIcon>>

-----------------------------------------------------------------------------
\* RunAtLoad: launchd starts the jobs it finds files of.
MacRestart ==
    /\ crashes < MaxCrashes /\ crashes' = crashes + 1
    /\ job' = plist
    /\ Gone
    /\ pc' = "idle" /\ todo' = {} /\ cut' = (cut \/ pc # "idle")
    /\ icon' = "on" /\ poll' = "asleep" /\ menu' = "waiting"
    /\ UNCHANGED <<config, plist, servers, fetched, busy>>
    /\ UNCHANGED <<purge, hasBackup, backup, runs, lost, unread, hasIcon>>

Init ==
    /\ LifecycleInit /\ InstallerInit /\ IconInit
    /\ \E b \in Budget : runs = b[1] /\ hasIcon = b[2]

Next ==
    \/ LifecycleNext /\ UNCHANGED <<scriptVars, iconVars, hasIcon>>
    \/ InstallerNext /\ UNCHANGED <<iconVars, hasIcon>>
    \/ hasIcon /\ IconNext /\ UNCHANGED <<scriptVars, hasIcon>>
    \/ MacRestart

\* launchd starts what has ended, and what it starts goes on, if it can open its
\* databases, which only the installed configuration ensures.
ProcessFairness ==
    /\ WF_lifecycleVars(config = "good" /\ Boot)
    /\ WF_lifecycleVars(FirstUpdate)
    /\ WF_lifecycleVars(Exit)
    /\ \A l \in Listener : WF_lifecycleVars(Listen(l))

Spec == Init /\ [][Next]_vars
FairSpec == Spec /\ ProcessFairness /\ IconFairness

-----------------------------------------------------------------------------
(* Properties *)

\* install.sh:34 - whatever is stopped or fails where, a service has the servers it
\* was given, or the backup has them: unless they could not be read for it, install.sh
\* was run over an installation, uninstall.sh without a backup, or the backup purged
\* unrestored.
OriginalsSurvive ==
    ~lost => \A s \in Service \ unread :
        \/ servers[s] = Original[s]
        \/ servers[s] = "self" /\ hasBackup /\ backup[s] = Original[s]

\* install.sh:119, uninstall.sh:41 - a script that goes through leaves no service with
\* a daemon that launchd will not run, whatever happened to the scripts before it,
\* unless a backup was lost.
NobodyIsStranded ==
    pc = "idle" /\ Redirected # {} => lost \/ cut \/ (plist /\ job)

\* uninstall.sh:41 - where the backup is of the user's servers, an uninstall.sh that
\* goes through leaves every service that could be read with them, wherever
\* install.sh was stopped.
UninstallRestores ==
    [][pc = "restore" /\ pc' \in {"idle", "purge"} /\ ~cut' /\ ~lost' =>
         \A s \in Service \ unread : servers'[s] = Original[s]]_vars

\* main.go:104 - lists that were there when the daemon started block whenever it
\* answers, also after a start that could not reach them because the Mac resolves
\* names through it: unless they could not be loaded, which is only logged.
OnceFetchedAlwaysServed ==
    "udp" \in up /\ dir \in fetched => engine \/ unloaded \/ late

\* main.go:107 - with its ports free the daemon comes to answer on all of them, though
\* the Mac asks nobody else for names while it starts.
AnswersAgain ==
    <>[](job /\ config = "good" /\ busy = {}) => <>[](up = Listener)

\* yoshi-menubar/main.go:71 - an answer that comes late may set the icon wrong: not
\* for good, while the service can be reached and nobody uses the switch.
IconEventuallyRight ==
    \A b \in BOOLEAN :
        <>[](hasIcon /\ "http" \in up /\ paused = b) => <>[](icon = IF b THEN "off" ELSE "on")

\* uninstall.sh:2 - it reverses install.sh: when it has gone through a backup that has
\* every service, none asks the daemon that it has stopped.
UninstallReverses ==
    [][/\ pc = "restore" /\ pc' \in {"idle", "purge"} /\ ~cut'
       /\ \A s \in Service : backup[s] # "none"
       => \A s \in Service : servers'[s] # "self"]_vars
=============================================================================
