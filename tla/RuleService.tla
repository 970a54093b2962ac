---------------------------- MODULE RuleService ----------------------------
(***************************************************************************)
(* What the API of Yoshi Pi-hole (internal/api/router.go) is for, as its   *)
(* user sees it: rules are stored and queries are evaluated against them.  *)
(* While one request or update is at work the rules may change as it likes *)
(* and the queries go by what was last answered; when it has ended they go *)
(* by all that is stored, at once.  The user who lets two overlap, or      *)
(* whose database fails, is promised less: queries go by some rules, and   *)
(* by the stored ones again with the next change that is made alone.  A    *)
(* process that starts has no rules, and takes queries when it has tried   *)
(* to read them.  How they are kept, read and compiled is left open.       *)
(***************************************************************************)
CONSTANTS
    Rules,    \* what the rules may be
    NoRules   \* a process that has read none

VARIABLES
    stored,    \* the rules that are stored
    applied,   \* the rules that queries are evaluated against
    open,      \* TRUE when queries are taken
    answered,  \* TRUE when nothing is asked for or going on
    calm       \* TRUE when the last change began alone and nothing has failed since

Init ==
    /\ stored \in Rules
    /\ applied = NoRules
    /\ open = FALSE
    /\ answered = FALSE
    /\ calm = TRUE

\* A change begins, alone or while another goes on, or goes on itself.
Change ==
    /\ stored' \in Rules
    /\ answered' = FALSE
    /\ calm' \in {answered, calm}
    /\ UNCHANGED <<applied, open>>

\* The change that was made alone has ended, and is in force.
Answer ==
    /\ calm
    /\ ~answered /\ answered' = TRUE
    /\ applied' = stored
    /\ open' = TRUE
    /\ UNCHANGED <<stored, calm>>

\* Of several changes one ends, with the rules it has read.
Overtaken ==
    /\ ~calm
    /\ ~answered /\ answered' \in BOOLEAN
    /\ applied' \in Rules
    /\ open' \in {open, TRUE}
    /\ UNCHANGED <<stored, calm>>

\* A change ends and could not read the rules.
Failed ==
    /\ ~answered /\ answered' \in BOOLEAN
    /\ open' \in {open, TRUE}
    /\ calm' = FALSE
    /\ UNCHANGED <<stored, applied>>

Restart ==
    /\ answered' = FALSE
    /\ applied' = NoRules
    /\ open' = FALSE
    /\ calm' = TRUE
    /\ UNCHANGED stored

Next == Change \/ Answer \/ Overtaken \/ Failed \/ Restart

Spec == Init /\ [][Next]_<<stored, applied, open, answered, calm>>
=============================================================================
