-------------------------- MODULE Deployment_proofs --------------------------
(***************************************************************************)
(* Theorems about Deployment, for any number of services, script runs,     *)
(* crashes and ports: what the scripts leave of the servers, what the      *)
(* daemon serves, and, below liveness, that what a run needs to come to    *)
(* rest is spent step by step.                                             *)
(***************************************************************************)
EXTENDS Deployment, TLAPS

\* The steps of the process leave the scripts, and what they keep, alone.
OfProcess == LifecycleNext /\ UNCHANGED <<scriptVars, iconVars, hasIcon>>
OfIcon == hasIcon /\ IconNext /\ UNCHANGED <<scriptVars, hasIcon>>
kept == <<plist, job, servers, scriptVars>>

LEMMA ProcessKeeps == OfProcess => UNCHANGED kept
  BY DEF OfProcess, LifecycleNext, Boot, FirstUpdate, UpdateByHand, Reload, Exit, Crash,
         Listen, PortFreed, SwitchBy, kept

LEMMA IconKeeps == OfIcon => UNCHANGED kept
  BY DEF OfIcon, IconNext, PollAsks, PollShows, Click, MenuPosts, MenuAsks, MenuShows,
         SwitchBy, OnlyIcon, lifecycleVars, kept

\* A step, by who takes it.
Scripts ==
    \/ StartInstall \/ WriteConfig \/ WritePlist \/ Bootout("bootout", "bootstrap")
    \/ Bootstrap \/ Kickstart \/ Probe \/ OpenBackup
    \/ StartUninstall \/ Bootout("stop", "remove") \/ RemovePlist \/ Purge \/ Interrupt
    \/ \E s \in Service : CopyServers(s) \/ Redirect(s) \/ Restore(s) \/ Reset(s)

LEMMA Steps == [Next]_vars => UNCHANGED kept \/ Scripts \/ MacRestart
  BY ProcessKeeps, IconKeeps
     DEF Next, OfProcess, OfIcon, InstallerNext, Scripts, vars, lifecycleVars, kept

-----------------------------------------------------------------------------
(* The servers the user gave each service *)

Setting == {"manual", "dhcp"}

ServersTyped ==
    /\ servers \in [Service -> Setting \cup {"self"}]
    /\ backup \in [Service -> Setting \cup {"self", "none"}]
    /\ todo \subseteq Service /\ unread \subseteq Service

\* What has been copied is the user's, where it could be read: until the first service
\* is redirected there is nothing else to copy, and from then on the backup is complete.
BackupGood ==
    /\ \A s \in Service : backup[s] # "self"
    /\ \A s \in Service \ unread : backup[s] \in {"none", Original[s]}
    /\ \A s \in Service : servers[s] = "self" => hasBackup /\ backup[s] # "none"
    /\ pc = "copy" =>
        /\ hasBackup
        /\ \A s \in Service : servers[s] # "self"
        /\ \A s \in Service \ todo : backup[s] # "none"
    /\ pc = "redirect" => hasBackup /\ \A s \in Service : backup[s] # "none"
    /\ pc = "restore" => hasBackup
    /\ pc # "reset"

SurvivalInv == ServersTyped /\ OriginalsSurvive /\ (~lost => BackupGood)

LEMMA SurvivalInit == Init => SurvivalInv
  BY InstallerAssumption
     DEF Init, InstallerInit, SurvivalInv, ServersTyped, Setting, OriginalsSurvive,
         BackupGood, NoBackup

\* A loop goes through the services it still has before it.
LEMMA LoopStep ==
  ASSUME NEW s \in Service, NEW here, NEW there, Loop(s, here, there)
  PROVE  /\ pc = here /\ s \in todo
         /\ (pc' = there /\ todo = {s}) \/ (pc' = pc /\ todo # {s})
  BY DEF Loop

LEMMA SurvivalNext == SurvivalInv /\ [Next]_vars => SurvivalInv'
<1> SUFFICES ASSUME SurvivalInv, [Next]_vars PROVE SurvivalInv'
  OBVIOUS
<1> USE DEF SurvivalInv
<1>0. Original \in [Service -> Setting]
  BY InstallerAssumption DEF Setting
<1>1. CASE UNCHANGED kept
  BY <1>1 DEF kept, scriptVars, ServersTyped, OriginalsSurvive, BackupGood
<1>2. CASE MacRestart
  BY <1>2 DEF MacRestart, ServersTyped, OriginalsSurvive, BackupGood
<1>3. CASE StartInstall
  BY <1>3 DEF StartInstall, At, ServersTyped, OriginalsSurvive, BackupGood
<1>4. CASE WriteConfig
  BY <1>4 DEF WriteConfig, At, ServersTyped, OriginalsSurvive, BackupGood
<1>5. CASE WritePlist
  BY <1>5 DEF WritePlist, At, ServersTyped, OriginalsSurvive, BackupGood
<1>6. CASE Bootout("bootout", "bootstrap") \/ Bootout("stop", "remove")
  BY <1>6 DEF Bootout, At, ServersTyped, OriginalsSurvive, BackupGood
<1>7. CASE Bootstrap
  BY <1>7 DEF Bootstrap, At, ServersTyped, OriginalsSurvive, BackupGood
<1>8. CASE Kickstart
  BY <1>8 DEF Kickstart, At, ServersTyped, OriginalsSurvive, BackupGood
<1>9. CASE Probe
  BY <1>9 DEF Probe, At, OnlyScript, lifecycleVars, ServersTyped, OriginalsSurvive,
              BackupGood
<1>10. CASE OpenBackup
  BY <1>10, <1>0 DEF OpenBackup, At, OnlyScript, lifecycleVars, ServersTyped,
                     OriginalsSurvive, BackupGood, NoBackup, Redirected
<1>11. CASE StartUninstall
  BY <1>11 DEF StartUninstall, At, OnlyScript, lifecycleVars, ServersTyped,
               OriginalsSurvive, BackupGood
<1>12. CASE RemovePlist
  BY <1>12 DEF RemovePlist, At, ServersTyped, OriginalsSurvive, BackupGood
<1>13. CASE Purge
  BY <1>13, <1>0 DEF Purge, At, ServersTyped, OriginalsSurvive, BackupGood, NoBackup,
                     Redirected, Setting
<1>14. CASE Interrupt
  BY <1>14 DEF Interrupt, OnlyScript, lifecycleVars, ServersTyped, OriginalsSurvive,
               BackupGood
<1>15. ASSUME NEW s \in Service, CopyServers(s) PROVE SurvivalInv'
  <2>1. /\ pc = "copy" /\ s \in todo
        /\ (pc' = "redirect" /\ todo = {s}) \/ (pc' = pc /\ todo # {s})
    BY <1>15, LoopStep DEF CopyServers
  <2>2. /\ todo' = IF todo = {s} THEN Service ELSE todo \ {s}
        /\ UNCHANGED <<servers, hasBackup, lost>>
    BY <1>15 DEF CopyServers, OnlyScript, lifecycleVars
  <2>3. PICK copied \in {servers[s], "dhcp"} :
          /\ backup' = [backup EXCEPT ![s] = copied]
          /\ unread' = IF copied = servers[s] THEN unread ELSE unread \cup {s}
    BY <1>15 DEF CopyServers
  <2>4. ServersTyped'
    BY <2>2, <2>3 DEF ServersTyped, Setting
  <2>5. ASSUME ~lost PROVE OriginalsSurvive' /\ BackupGood'
    <3>1. \A t \in Service : servers[t] \in Setting
      BY <2>1, <2>5 DEF BackupGood, ServersTyped
    <3>2. \A t \in Service \ unread : servers[t] = Original[t]
      BY <3>1, <2>5 DEF OriginalsSurvive, Setting
    <3>3. \A t \in Service : backup'[t] = IF t = s THEN copied ELSE backup[t]
      BY <2>3 DEF ServersTyped
    <3>4. copied # "self" /\ copied # "none"
      BY <2>3, <3>1 DEF Setting
    <3>5. \A t \in Service \ unread' : t \in Service \ unread /\ (t = s => copied = Original[t])
      BY <2>3, <3>2
    <3>6. OriginalsSurvive'
      BY <3>2, <3>5, <2>2 DEF OriginalsSurvive
    <3>7. BackupGood'
      BY <3>1, <3>3, <3>4, <3>5, <2>1, <2>2, <2>5 DEF BackupGood, Setting
    <3> QED
      BY <3>6, <3>7
  <2> QED
    BY <2>2, <2>4, <2>5 DEF OriginalsSurvive
<1>16. ASSUME NEW s \in Service, Redirect(s) PROVE SurvivalInv'
  <2>1. /\ pc = "redirect" /\ s \in todo
        /\ pc' \in {"redirect", "idle"}
    BY <1>16, LoopStep DEF Redirect
  <2> QED
    BY <1>16, <2>1 DEF Redirect, ServersTyped, OriginalsSurvive, BackupGood
<1>17. ASSUME NEW s \in Service, Restore(s) PROVE SurvivalInv'
  <2>1. /\ pc = "restore" /\ s \in todo
        /\ pc' \in {"restore", "idle", "purge"}
    BY <1>17, LoopStep DEF Restore
  <2>2. \/ servers' = [servers EXCEPT ![s] = IF backup[s] = "none" THEN @ ELSE backup[s]]
        \/ servers' = servers
    BY <1>17 DEF Restore
  <2>3. todo' = todo \ {s} /\ UNCHANGED <<hasBackup, backup, lost, unread>>
    BY <1>17 DEF Restore
  <2>4. ServersTyped'
    BY <2>2, <2>3 DEF ServersTyped
  <2>5. ASSUME ~lost PROVE OriginalsSurvive' /\ BackupGood'
    <3>1. \A t \in Service : servers'[t] = servers[t] \/ (servers'[t] = backup[t] /\ backup[t] # "none")
      BY <2>2 DEF ServersTyped
    <3>2. \A t \in Service \ unread : servers'[t] = servers[t] \/ servers'[t] = Original[t]
      BY <3>1, <2>5 DEF BackupGood
    <3>3. OriginalsSurvive'
      BY <3>2, <2>3, <2>5 DEF OriginalsSurvive
    <3>4. BackupGood'
      BY <3>1, <2>1, <2>3, <2>5 DEF BackupGood
    <3> QED
      BY <3>3, <3>4
  <2> QED
    BY <2>3, <2>4, <2>5 DEF OriginalsSurvive
<1>18. ASSUME NEW s \in Service, Reset(s) PROVE SurvivalInv'
  <2>1. pc = "reset"
    BY <1>18, LoopStep DEF Reset
  <2>2. lost
    BY <2>1 DEF BackupGood
  <2> QED
    BY <1>18, <2>2 DEF Reset, ServersTyped, Setting, OriginalsSurvive
<1> QED
  BY Steps, <1>1, <1>2, <1>3, <1>4, <1>5, <1>6, <1>7, <1>8, <1>9, <1>10, <1>11, <1>12,
     <1>13, <1>14, <1>15, <1>16, <1>17, <1>18 DEF Scripts

\* The servers of a service are as the user left them, or in the backup, whatever is
\* stopped or fails where, until a script throws them away: unless the one thing failed
\* that install.sh passes over, to read them for the backup.
THEOREM OriginalsSurviveTheorem == Spec => []OriginalsSurvive
<1>1. SurvivalInv => OriginalsSurvive
  BY DEF SurvivalInv
<1> QED
  BY <1>1, SurvivalInit, SurvivalNext, PTL DEF Spec

\* What restore has gone through is as the user left it, while nothing fails.
RestoreInv ==
    pc = "restore" /\ ~lost /\ ~cut =>
        \A s \in (Service \ unread) \ todo : servers[s] = Original[s]

\* What UninstallRestores says of a step.
Restored ==
    pc = "restore" /\ pc' \in {"idle", "purge"} /\ ~cut' /\ ~lost' =>
        \A s \in Service \ unread : servers'[s] = Original[s]

LEMMA RestoreNext ==
  ASSUME SurvivalInv, RestoreInv, [Next]_vars
  PROVE  RestoreInv' /\ Restored
<1>1. CASE UNCHANGED kept
  BY <1>1 DEF kept, scriptVars, RestoreInv, Restored
<1>2. ASSUME NEW s \in Service, Restore(s) PROVE RestoreInv' /\ Restored
  <2>1. /\ pc = "restore" /\ s \in todo /\ todo' = todo \ {s}
        /\ (pc' \in {"purge", "idle"} /\ todo = {s}) \/ (pc' = pc /\ todo # {s})
        /\ UNCHANGED <<backup, hasBackup, lost, unread>>
    BY <1>2, LoopStep DEF Restore
  <2>2. SUFFICES ASSUME ~cut', ~lost'
                 PROVE  \A t \in (Service \ unread) \ todo' : servers'[t] = Original[t]
    BY <2>1 DEF RestoreInv, Restored
  <2>3. /\ servers' = [servers EXCEPT ![s] = IF backup[s] = "none" THEN @ ELSE backup[s]]
        /\ ~cut /\ ~lost
    BY <1>2, <2>1, <2>2 DEF Restore
  <2>4. s \notin unread => servers'[s] = Original[s]
    <3>1. SUFFICES ASSUME s \notin unread PROVE servers'[s] = Original[s]
      OBVIOUS
    <3>2. \/ servers[s] = Original[s]
          \/ servers[s] = "self" /\ backup[s] = Original[s]
      BY <2>3, <3>1 DEF SurvivalInv, OriginalsSurvive
    <3>3. backup[s] \in {"none", Original[s]} /\ Original[s] # "none"
      BY <2>3, <3>1, InstallerAssumption DEF SurvivalInv, BackupGood
    <3> QED
      BY <2>3, <3>2, <3>3 DEF SurvivalInv, ServersTyped
  <2>5. \A t \in (Service \ unread) \ todo : servers'[t] = Original[t]
    BY <2>1, <2>3 DEF RestoreInv, SurvivalInv, ServersTyped
  <2> QED
    BY <2>1, <2>4, <2>5
<1>3. CASE RemovePlist
  BY <1>3 DEF RemovePlist, At, RestoreInv, Restored
<1>4. CASE Interrupt \/ MacRestart
  BY <1>4 DEF Interrupt, MacRestart, RestoreInv, Restored
<1>5. CASE \/ StartInstall \/ WriteConfig \/ WritePlist \/ Bootout("bootout", "bootstrap")
           \/ Bootstrap \/ Kickstart \/ Probe \/ OpenBackup
           \/ StartUninstall \/ Bootout("stop", "remove") \/ Purge
  BY <1>5 DEF StartInstall, WriteConfig, WritePlist, Bootout, Bootstrap, Kickstart, Probe,
              OpenBackup, StartUninstall, Purge, At, RestoreInv, Restored
<1>6. ASSUME NEW s \in Service, CopyServers(s) \/ Redirect(s) \/ Reset(s)
      PROVE  RestoreInv' /\ Restored
  <2>1. pc \in {"copy", "redirect", "reset"} /\ pc' # "restore"
    BY <1>6, LoopStep DEF CopyServers, Redirect, Reset
  <2> QED
    BY <2>1 DEF RestoreInv, Restored
<1> QED
  BY Steps, <1>1, <1>2, <1>3, <1>4, <1>5, <1>6 DEF Scripts

\* However often the scripts were run, and wherever they were stopped, an uninstall
\* that goes through a backup of the user's servers gives every service its own, if
\* they could be read for it.
THEOREM UninstallTheorem == Spec => UninstallRestores
<1>1. Init => RestoreInv
  BY DEF Init, InstallerInit, RestoreInv
<1>2. SurvivalInv /\ RestoreInv /\ [Next]_vars => RestoreInv'
  BY RestoreNext
<1>3. SurvivalInv /\ RestoreInv /\ [Next]_vars => [Restored]_vars
  BY RestoreNext
<1>4. Spec => [][Restored]_vars
  BY <1>1, <1>2, <1>3, SurvivalInit, SurvivalNext, PTL DEF Spec
<1> QED
  BY <1>4 DEF UninstallRestores, Restored

-----------------------------------------------------------------------------
(* A redirected service has a daemon that launchd runs *)

\* What each command of a script finds, when none before it went wrong: from the
\* probe on the job is there and stays, and uninstall.sh restores all before it ends.
DaemonKept ==
    /\ pc = "idle" => Redirected = {} \/ (plist /\ job)
    /\ pc \in {"bootout", "bootstrap"} => plist
    /\ pc \in {"kickstart", "probe", "backup", "copy", "redirect"} => plist /\ job
    /\ pc = "restore" => Redirected \subseteq todo
    /\ pc = "purge" => Redirected = {}

StrandInv == SurvivalInv /\ (~lost /\ ~cut => DaemonKept)

LEMMA StrandInit == Init => StrandInv
  BY SurvivalInit, InstallerAssumption
     DEF Init, LifecycleInit, InstallerInit, StrandInv, DaemonKept, Redirected

LEMMA StrandNext == StrandInv /\ [Next]_vars => StrandInv'
<1> SUFFICES ASSUME StrandInv, [Next]_vars, ~lost', ~cut' PROVE DaemonKept'
  BY SurvivalNext DEF StrandInv
<1> USE DEF Redirected
<1>0. ServersTyped /\ OriginalsSurvive /\ (~lost => BackupGood)
  BY DEF StrandInv, SurvivalInv
<1>1. CASE UNCHANGED kept
  BY <1>1 DEF kept, scriptVars, StrandInv, DaemonKept
<1>2. CASE MacRestart
  <2>1. ~lost /\ ~cut /\ pc = "idle" /\ pc' = "idle"
    BY <1>2 DEF MacRestart
  <2> QED
    BY <2>1, <1>2 DEF MacRestart, StrandInv, DaemonKept
<1>3. CASE StartInstall \/ StartUninstall
  BY <1>3 DEF StartInstall, StartUninstall, At, OnlyScript, lifecycleVars, StrandInv,
              DaemonKept
<1>4. CASE WriteConfig
  BY <1>4 DEF WriteConfig, At, StrandInv, DaemonKept
<1>5. CASE WritePlist
  BY <1>5 DEF WritePlist, At, StrandInv, DaemonKept
<1>6. CASE Bootout("bootout", "bootstrap") \/ Bootout("stop", "remove")
  BY <1>6 DEF Bootout, At, StrandInv, DaemonKept
<1>7. CASE Bootstrap
  BY <1>7 DEF Bootstrap, At, StrandInv, DaemonKept
<1>8. CASE Kickstart
  BY <1>8 DEF Kickstart, At, StrandInv, DaemonKept
<1>9. CASE Probe
  BY <1>9 DEF Probe, At, OnlyScript, lifecycleVars, StrandInv, DaemonKept
<1>10. CASE OpenBackup
  BY <1>10 DEF OpenBackup, At, OnlyScript, lifecycleVars, StrandInv, DaemonKept
<1>11. CASE RemovePlist
  <2>1. pc' \in {"restore", "reset"} /\ todo' = Service
    BY <1>11 DEF RemovePlist, At
  <2> QED
    BY <2>1 DEF DaemonKept
<1>12. CASE Purge
  BY <1>12 DEF Purge, At, StrandInv, DaemonKept
<1>13. CASE Interrupt
  BY <1>13 DEF Interrupt
<1>14. ASSUME NEW s \in Service, CopyServers(s) \/ Redirect(s) PROVE DaemonKept'
  <2>1. /\ pc \in {"copy", "redirect"} /\ pc' \in {"copy", "redirect", "idle"}
        /\ UNCHANGED <<plist, job, lost, cut>>
    BY <1>14, LoopStep DEF CopyServers, Redirect, OnlyScript, lifecycleVars
  <2> QED
    BY <2>1 DEF StrandInv, DaemonKept
<1>15. ASSUME NEW s \in Service, Restore(s) PROVE DaemonKept'
  <2>1. /\ pc = "restore" /\ s \in todo /\ ~lost /\ ~cut
        /\ (pc' \in {"purge", "idle"} /\ todo = {s}) \/ (pc' = pc /\ todo # {s})
    BY <1>15, LoopStep DEF Restore
  <2>2. /\ servers' = [servers EXCEPT ![s] = IF backup[s] = "none" THEN @ ELSE backup[s]]
        /\ todo' = todo \ {s}
    BY <1>15 DEF Restore
  <2>3. backup[s] # "self"
    BY <2>1, <1>0 DEF BackupGood
  <2>4. backup[s] = "none" => servers[s] # "self"
    BY <2>1, <1>0 DEF BackupGood
  <2>5. servers'[s] # "self" /\ \A t \in Service \ {s} : servers'[t] = servers[t]
    BY <2>2, <2>3, <2>4, <1>0 DEF ServersTyped
  <2>6. {t \in Service : servers[t] = "self"} \subseteq todo
    BY <2>1 DEF StrandInv, DaemonKept
  <2>7. {t \in Service : servers'[t] = "self"} \subseteq todo'
    BY <2>5, <2>6, <2>2
  <2> QED
    BY <2>1, <2>2, <2>7 DEF DaemonKept
<1>16. ASSUME NEW s \in Service, Reset(s) PROVE FALSE
  BY <1>16, <1>0, LoopStep DEF Reset, BackupGood
<1> QED
  BY Steps, <1>1, <1>2, <1>3, <1>4, <1>5, <1>6, <1>7, <1>8, <1>9, <1>10, <1>11, <1>12,
     <1>13, <1>14, <1>15, <1>16 DEF Scripts

\* Between scripts, a service that was redirected has a daemon that launchd runs and
\* will start again, unless something failed or the originals are lost.
THEOREM NobodyIsStrandedTheorem == Spec => []NobodyIsStranded
<1>1. StrandInv => NobodyIsStranded
  BY DEF StrandInv, DaemonKept, NobodyIsStranded
<1> QED
  BY <1>1, StrandInit, StrandNext, PTL DEF Spec

-----------------------------------------------------------------------------
(* What was fetched is served *)

ServedInv ==
    /\ phase \in {"down", "updating"} => up = {}
    /\ phase \in {"serving", "stopping"} => (dir \in fetched => engine \/ unloaded \/ late)
    /\ phase # "down" /\ dir # "unlinked" => "unlinked" \notin fetched
    /\ phase \in {"down", "updating", "serving", "stopping"}

LEMMA Loads ==
  ASSUME LoadLists
  PROVE  Lists' => engine' \/ unloaded'
<1>1. CASE engine' = Lists' /\ unloaded' = FALSE
  BY <1>1
<1>2. CASE unloaded' = ~engine /\ engine' = engine
  <2>1. ASSUME ~engine PROVE unloaded'
    <3>1. (~engine) = TRUE
      BY <2>1
    <3> QED
      BY <1>2, <3>1
  <2> QED
    BY <1>2, <2>1
<1> QED
  BY <1>1, <1>2 DEF LoadLists

LEMMA ServedInit == Init => ServedInv
  BY DEF Init, LifecycleInit, ServedInv

LEMMA ServedNext == ServedInv /\ [Next]_vars => ServedInv'
<1> SUFFICES ASSUME ServedInv, [Next]_vars PROVE ServedInv'
  OBVIOUS
<1> USE DEF ServedInv
<1>1. CASE UNCHANGED lifecycleVars
  BY <1>1 DEF lifecycleVars, processVars
<1>2. ASSUME Gone PROVE ServedInv'
  BY <1>2 DEF Gone
<1>3. CASE LifecycleNext
  <2>1. CASE Boot \/ FirstUpdate
    BY <2>1, Loads DEF Boot, FirstUpdate, Lists
  <2>2. ASSUME NEW l \in Listener, Listen(l) \/ PortFreed(l) PROVE ServedInv'
    BY <2>2 DEF Listen, PortFreed, processVars
  <2>3. CASE UpdateByHand \/ Reload
    BY <2>3, Loads DEF UpdateByHand, Reload, Lists
  <2>4. ASSUME NEW b \in BOOLEAN, SwitchBy(b) PROVE ServedInv'
    BY <2>4 DEF SwitchBy
  <2> QED
    BY <1>3, <1>2, <2>1, <2>2, <2>3, <2>4 DEF LifecycleNext, Exit, Crash
<1>4. CASE Scripts
  <2>1. CASE Kickstart
    BY <2>1, <1>2 DEF Kickstart
  <2>2. CASE Bootout("bootout", "bootstrap") \/ Bootout("stop", "remove")
    BY <2>2, <1>2 DEF Bootout, Terminated, processVars
  <2>3. CASE Purge
    <3>1. UNCHANGED <<phase, engine, unloaded, late, up>>
      BY <2>3 DEF Purge
    <3>2. phase # "down" => (dir' \in fetched' => dir \in fetched)
      <4>1. CASE phase # "down" /\ dir = "prefix"
        <5>1. dir' = "unlinked" /\ fetched' = (fetched \ {"prefix"}) \cup {d \in {"unlinked"} : Lists}
          BY <2>3, <4>1 DEF Purge
        <5>2. "unlinked" \in fetched' => Lists \/ "unlinked" \in fetched
          BY <5>1
        <5> QED
          BY <4>1, <5>1, <5>2 DEF Lists
      <4>2. CASE ~(phase # "down" /\ dir = "prefix")
        BY <2>3, <4>2 DEF Purge
      <4> QED
        BY <4>1, <4>2
    <3>3. phase # "down" /\ dir' # "unlinked" => "unlinked" \notin fetched'
      <4>1. CASE phase # "down" /\ dir = "prefix"
        BY <2>3, <4>1 DEF Purge
      <4>2. CASE ~(phase # "down" /\ dir = "prefix")
        BY <2>3, <4>2 DEF Purge
      <4> QED
        BY <4>1, <4>2
    <3> QED
      BY <3>1, <3>2, <3>3
  <2>4. CASE StartInstall \/ WriteConfig \/ WritePlist \/ Bootstrap \/ RemovePlist
    BY <2>4 DEF StartInstall, WriteConfig, WritePlist, Bootstrap, RemovePlist, processVars
  <2>5. CASE Probe \/ OpenBackup \/ StartUninstall \/ Interrupt
    BY <2>5, <1>1 DEF Probe, OpenBackup, StartUninstall, Interrupt, OnlyScript
  <2>6. ASSUME NEW s \in Service, CopyServers(s) \/ Redirect(s) \/ Restore(s) \/ Reset(s)
        PROVE  ServedInv'
    BY <2>6, <1>1 DEF CopyServers, Redirect, Restore, Reset, OnlyScript, processVars
  <2> QED
    BY <1>4, <2>1, <2>2, <2>3, <2>4, <2>5, <2>6 DEF Scripts
<1>5. CASE IconNext
  BY <1>5, <1>1 DEF IconNext, PollAsks, PollShows, Click, MenuPosts, MenuAsks, MenuShows,
                    SwitchBy, OnlyIcon
<1>6. CASE MacRestart
  BY <1>6, <1>2 DEF MacRestart
<1> QED
  BY <1>1, <1>3, <1>4, <1>5, <1>6 DEF Next, InstallerNext, Scripts, vars

\* Whatever ended a process, the next one blocks what was fetched before, once it
\* answers, also when it could fetch nothing: unless it could not read its database.
THEOREM OnceFetchedTheorem == Spec => []OnceFetchedAlwaysServed
<1>1. ServedInv => OnceFetchedAlwaysServed
  BY DEF ServedInv, OnceFetchedAlwaysServed
<1> QED
  BY <1>1, ServedInit, ServedNext, PTL DEF Spec

-----------------------------------------------------------------------------
(* How far the process is from answering *)

Missing(l) == IF l \in up THEN 0 ELSE 1

ToAnswer ==
    CASE phase = "stopping" -> 6
      [] phase = "down"     -> 5
      [] phase = "updating" -> 4
      [] OTHER              -> Missing("udp") + Missing("tcp") + Missing("http")

OwnStep == Boot \/ FirstUpdate \/ Exit \/ \E l \in Listener : Listen(l)

Approach ==
    /\ ToAnswer' \in 0..6 /\ ToAnswer' <= ToAnswer
    /\ OwnStep => ToAnswer' < ToAnswer

LEMMA ApproachStays ==
  ASSUME UNCHANGED <<phase, up>>
  PROVE  Approach
<1>1. ToAnswer' = ToAnswer /\ ToAnswer \in 0..6
  BY DEF ToAnswer, Missing
<1>2. ~OwnStep
  BY DEF OwnStep, Boot, FirstUpdate, Exit, Gone, Listen
<1> QED
  BY <1>1, <1>2 DEF Approach

LEMMA OwnStepApproaches ==
  ASSUME OwnStep, busy = {}
  PROVE  Approach
<1>1. CASE Boot
  BY <1>1 DEF Boot, Approach, ToAnswer
<1>2. CASE FirstUpdate
  BY <1>2 DEF FirstUpdate, Approach, ToAnswer, Missing
<1>3. CASE Exit
  BY <1>3 DEF Exit, Gone, Approach, ToAnswer
<1>4. ASSUME NEW l \in Listener, Listen(l) PROVE Approach
  <2>1. phase = "serving" /\ phase' = "serving" /\ l \notin up /\ up' = up \cup {l}
    BY <1>4 DEF Listen
  <2>2. ToAnswer = Missing("udp") + Missing("tcp") + Missing("http")
        /\ ToAnswer' = Missing("udp")' + Missing("tcp")' + Missing("http")'
    BY <2>1 DEF ToAnswer
  <2>3. \A m \in Listener : /\ Missing(m) \in 0..1 /\ Missing(m)' \in 0..1
                            /\ Missing(m)' <= Missing(m)
                            /\ m = l => Missing(m) = 1 /\ Missing(m)' = 0
    BY <2>1 DEF Missing
  <2>4. "udp" \in Listener /\ "tcp" \in Listener /\ "http" \in Listener
        /\ (l = "udp" \/ l = "tcp" \/ l = "http")
    BY DEF Listener
  <2> QED
    BY <2>2, <2>3, <2>4 DEF Approach
<1> QED
  BY <1>1, <1>2, <1>3, <1>4 DEF OwnStep

\* With its ports free and a job that launchd keeps, a daemon answers on all of them
\* after at most six steps of its own, unless it is killed: it is not turned back by
\* an update that fails, by whatever the user does, nor by a script that leaves it
\* running; and from then on it stays.
DaemonAdvances ==
    [][job' /\ busy = {} => Kickstart \/ Crash \/ MacRestart \/ Approach]_vars

\* main.go:69 - the start of runServe, under launchd, comes nearer to its end.
THEOREM DaemonStepsTheorem == Spec => DaemonAdvances
<1>1. [Next]_vars => [job' /\ busy = {} => Kickstart \/ Crash \/ MacRestart \/ Approach]_vars
  <2> SUFFICES ASSUME Next, job', busy = {} PROVE Kickstart \/ Crash \/ MacRestart \/ Approach
    OBVIOUS
  <2>1. CASE LifecycleNext
    BY <2>1, ApproachStays, OwnStepApproaches
       DEF LifecycleNext, OwnStep, UpdateByHand, Reload, PortFreed, SwitchBy
  <2>2. CASE InstallerNext
    <3>1. CASE Bootout("bootout", "bootstrap") \/ Bootout("stop", "remove")
      BY <3>1, ApproachStays DEF Bootout, processVars
    <3>2. CASE StartInstall \/ WriteConfig \/ WritePlist \/ Bootstrap \/ RemovePlist \/ Purge
      BY <3>2, ApproachStays DEF StartInstall, WriteConfig, WritePlist, Bootstrap, RemovePlist, Purge, processVars
    <3>3. CASE Probe \/ OpenBackup \/ StartUninstall \/ Interrupt
      BY <3>3, ApproachStays
         DEF Probe, OpenBackup, StartUninstall, Interrupt, OnlyScript, lifecycleVars, processVars
    <3>4. ASSUME NEW s \in Service, CopyServers(s) \/ Redirect(s) \/ Restore(s) \/ Reset(s)
          PROVE  Approach
      BY <3>4, ApproachStays
         DEF CopyServers, Redirect, Restore, Reset, OnlyScript, lifecycleVars, processVars
    <3> QED
      BY <2>2, <3>1, <3>2, <3>3, <3>4 DEF InstallerNext
  <2>3. CASE IconNext
    <3>1. UNCHANGED <<phase, up>>
      BY <2>3, Zenon
         DEF IconNext, PollAsks, PollShows, Click, MenuPosts, MenuAsks, MenuShows, SwitchBy,
             OnlyIcon, lifecycleVars, processVars
    <3> QED
      BY <3>1, ApproachStays
  <2> QED
    BY <2>1, <2>2, <2>3 DEF Next
<1> QED
  BY <1>1, PTL DEF Spec, DaemonAdvances

-----------------------------------------------------------------------------
(* Late answers *)

\* What the icon shows, or an answer says, against the switch as it is.
Wrong(shown) == shown = IF paused THEN "on" ELSE "off"

\* An answer that comes late may set the icon wrong, but each only once, and no new
\* one comes up while the switch stays as it is: so the icon goes wrong at most twice,
\* once by the loop that polls and once by the menu, however often both ask and
\* whatever becomes of the process and of the Mac.
LateOnce ==
    [][paused' = paused =>
        /\ Wrong(poll)' => Wrong(poll)
        /\ Wrong(menu)' => Wrong(menu)
        /\ ~Wrong(icon) /\ Wrong(icon)' =>
             \/ Wrong(poll) /\ ~Wrong(poll)'
             \/ Wrong(menu) /\ ~Wrong(menu)']_vars

\* yoshi-menubar/main.go:73 - a late answer is shown once and no other is late after it.
THEOREM LateAnswersTheorem == Spec => LateOnce
<1> DEFINE Once == paused' = paused =>
        /\ Wrong(poll)' => Wrong(poll)
        /\ Wrong(menu)' => Wrong(menu)
        /\ ~Wrong(icon) /\ Wrong(icon)' =>
             \/ Wrong(poll) /\ ~Wrong(poll)'
             \/ Wrong(menu) /\ ~Wrong(menu)'
<1>1. [Next]_vars => [Once]_vars
  <2> SUFFICES ASSUME Next, paused' = paused PROVE Once
    OBVIOUS
  <2>1. CASE UNCHANGED iconVars
    BY <2>1 DEF iconVars, Wrong
  <2>2. CASE IconNext
    <3>1. CASE PollAsks
      BY <3>1 DEF PollAsks, Wrong, Answer
    <3>2. CASE PollShows
      BY <3>2 DEF PollShows, Wrong
    <3>3. ASSUME UNCHANGED <<icon, poll>>, menu' \notin {"on", "off"} PROVE Once
      BY <3>3 DEF Wrong
    <3>4. CASE MenuPosts
      <4>1. UNCHANGED <<icon, poll>> /\ (menu' = "get" \/ menu' = "waiting")
        BY <3>4, Zenon DEF MenuPosts
      <4> QED
        BY <3>3, <4>1
    <3>5. CASE MenuAsks
      BY <3>5 DEF MenuAsks, Wrong, Answer
    <3>6. CASE MenuShows
      BY <3>6 DEF MenuShows, Wrong
    <3>7. ASSUME NEW command \in {"post off", "post on"}, Click(command) PROVE Once
      <4>1. UNCHANGED <<icon, poll>> /\ menu' = command
        BY <3>7, Zenon DEF Click
      <4>2. /\ "post off" # "on" /\ "post off" # "off"
            /\ "post on" # "on" /\ "post on" # "off"
        BY Zenon
      <4>3. command \notin {"on", "off"}
        BY <3>7, <4>2, Zenon
      <4> QED
        BY <3>3, <4>1, <4>3, Zenon
    <3> HIDE DEF Once
    <3> QED
      BY <2>2, <3>1, <3>2, <3>4, <3>5, <3>6, <3>7, Zenon DEF IconNext
  <2>3. CASE MacRestart
    BY <2>3 DEF MacRestart, Gone, Wrong
  <2> QED
    BY <2>1, <2>2, <2>3 DEF Next
<1> HIDE DEF Once
<1>2. Spec => [][Once]_vars
  BY <1>1, PTL DEF Spec
<1> QED
  BY <1>2 DEF LateOnce, Once
=============================================================================
