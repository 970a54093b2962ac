----------------------------- MODULE StatusIcon -----------------------------
(***************************************************************************)
(* The helper in the menu bar, cmd/yoshi-menubar/main.go: one goroutine    *)
(* asks for the state of the switch every five seconds, another carries    *)
(* out clicks and asks then.  Each sets the icon to the answer it got, in  *)
(* the order it comes to it, which is not the order of the answers.        *)
(***************************************************************************)
EXTENDS Lifecycle

VARIABLES
    icon,   \* on or off: the icon that is shown
    poll,   \* pollStatusLoop: asleep, or the answer refreshIcon got
    menu    \* the loop of onReady: waiting, a command to post, get, or an answer

iconVars == <<icon, poll, menu>>

OnlyIcon == UNCHANGED lifecycleVars
Answer == IF paused THEN "off" ELSE "on"

\* The loop ends when the service cannot be reached.
MutPollAsks ==
    /\ poll = "asleep"
    /\ poll' = IF "http" \in up THEN Answer ELSE "over"
    /\ OnlyIcon /\ UNCHANGED <<icon, menu>>

\* refreshIcon: a service that cannot be reached changes the tooltip only.
PollAsks ==
    /\ poll = "asleep" /\ "http" \in up
    /\ poll' = Answer
    /\ OnlyIcon /\ UNCHANGED <<icon, menu>>

PollShows ==
    /\ poll \in {"on", "off"}
    /\ icon' = poll /\ poll' = "asleep"
    /\ OnlyIcon /\ UNCHANGED menu

\* A loop of its own, so clicks that come while it is busy are lost.
Click(command) ==
    /\ menu = "waiting"
    /\ menu' = command
    /\ OnlyIcon /\ UNCHANGED <<icon, poll>>

\* setBlocking: the icon is refreshed if the service took the command.
MenuPosts ==
    /\ menu \in {"post off", "post on"}
    /\ \/ /\ SwitchBy(menu = "post off")
          /\ menu' = "get"
       \/ /\ phase # "serving" \/ "http" \notin up
          /\ menu' = "waiting" /\ OnlyIcon
    /\ UNCHANGED <<icon, poll>>

MenuAsks ==
    /\ menu = "get"
    /\ menu' = IF "http" \in up THEN Answer ELSE "waiting"
    /\ OnlyIcon /\ UNCHANGED <<icon, poll>>

MenuShows ==
    /\ menu \in {"on", "off"}
    /\ icon' = menu /\ menu' = "waiting"
    /\ OnlyIcon /\ UNCHANGED poll

IconInit == icon = "on" /\ poll = "asleep" /\ menu = "waiting"

IconNext ==
    \/ PollAsks \/ PollShows
    \/ \E command \in {"post off", "post on"} : Click(command)
    \/ MenuPosts \/ MenuAsks \/ MenuShows

\* The goroutines run, the timer ends, and a request is answered or refused.
IconFairness ==
    /\ WF_iconVars(PollAsks) /\ WF_iconVars(PollShows)
    /\ WF_iconVars(MenuPosts) /\ WF_iconVars(MenuAsks) /\ WF_iconVars(MenuShows)
=============================================================================
