----------------------------- MODULE RuleReload -----------------------------
(***************************************************************************)
(* How a write to gravity.db becomes a rule the resolver applies: the API  *)
(* handlers of internal/api (router.go, domains.go, lists.go, groups.go)   *)
(* write through the store and call Reload, the closure of main.go that    *)
(* reads a snapshot with two queries and swaps it into the matcher engine. *)
(*                                                                         *)
(* A process is a goroutine: Main until the servers start, a request being *)
(* handled, or the update that handleListsUpdate leaves running when it    *)
(* has answered.  The two queries and the swap are separate steps, and the *)
(* one connection of the database is held while the rows of the first      *)
(* query are open.                                                         *)
(* GravityUpdate has the details of Builder.Run; here a running builder    *)
(* stores the domains of any list, any number of times.                    *)
(***************************************************************************)
EXTENDS GravityDB

CONSTANTS
    Main,        \* the goroutine of runServe
    Handler,     \* the goroutines of the HTTP server
    Updater,     \* the goroutines handleListsUpdate starts
    Free,        \* the value of conn when no goroutine holds the connection
    ValidRegex,  \* the texts ParseRegex accepts
    ReadFaults   \* TRUE: a query of LoadSnapshot may fail

Proc == {Main} \cup Handler \cup Updater

ASSUME RuleReloadAssumption ==
    /\ Main \notin Handler \cup Updater
    /\ Handler \cap Updater = {}
    /\ Free \notin Proc
    /\ ReadFaults \in BOOLEAN

VARIABLES
    pc,             \* where each goroutine is
    conn,           \* who holds the one connection of gravity.db
    rows,           \* the rows a reload has read so far, by goroutine
    engine,         \* the compiled snapshot the resolver evaluates against
    serving,        \* the HTTP and DNS servers are up
    readCurrent,    \* history: reloads that started after the last write of a rule
    engineCurrent,  \* history: the engine was loaded by one of those
    orderly         \* history: whoever last began to change the rules found nobody
                    \* else at it, and no query has failed since

reloadVars == <<conn, rows, engine, serving, engineCurrent>>
vars == <<dbVars, pc, reloadVars, readCurrent, orderly>>

NoRows == [gravity |-> {}, domains |-> {}]

\* Load: exact maps and regex lists.  A manual deny hides a gravity one, and a
\* regex that does not parse is skipped.
Compile(r) ==
    LET listed(t) == {g[1] : g \in {x \in r.gravity : x[2] = t}}
        manual(t) == {d[2] : d \in {x \in r.domains : x[3] = t}}
        regex(t) == {<<d[1], d[2]>> : d \in {x \in r.domains : x[3] = t /\ x[2] \in ValidRegex}}
    IN [ExactAllow |-> listed(AdlistAllow) \cup manual(TypeAllowExact),
        ExactDeny |-> {<<d, "manual">> : d \in manual(TypeDenyExact)}
                        \cup {<<d, "gravity">> : d \in listed(AdlistBlock) \ manual(TypeDenyExact)},
        RegexAllow |-> regex(TypeAllowRegex),
        RegexDeny |-> regex(TypeDenyRegex)]

\* What the engine holds after a reload that nothing disturbs.
Snapshot == Compile([gravity |-> GravityRows, domains |-> DomainRows])

Goto(p, label) == pc' = [pc EXCEPT ![p] = label]

\* Every request is answered and no update runs.
AllAnswered == serving /\ \A p \in Proc : pc[p] = "idle"

\* A request is handled when the servers are up, and uses the database when its
\* goroutine gets the connection.
Arrives(p) == p \in Handler /\ pc[p] = "idle" /\ serving
Ready(p) == Arrives(p) /\ conn = Free

\* A write of a rule: every copy read before it is out of date.
RuleWritten ==
    /\ readCurrent' = {}
    /\ engineCurrent' = FALSE
    /\ UNCHANGED <<conn, rows, engine, serving>>

\* What a handler does after its write; the mutant answers without a reload.
MutThenReload(p) == Goto(p, "idle") /\ RuleWritten /\ orderly' = AllAnswered
ThenReload(p) == Goto(p, "reload") /\ RuleWritten /\ orderly' = AllAnswered

Answer(p) == Goto(p, "idle") /\ UNCHANGED <<reloadVars, readCurrent, orderly>>

-----------------------------------------------------------------------------
(* The handlers *)

handleDomainsCreate(p, d, t) ==
    /\ Ready(p)
    /\ t \in {TypeAllowRegex, TypeDenyRegex} => d \in ValidRegex
    /\ AddDomain(d, t)
    /\ ThenReload(p)

handleDomainsPatch(p, i, on) == Ready(p) /\ SetDomainEnabled(i, on) /\ ThenReload(p)

handleDomainsDelete(p, i) == Ready(p) /\ RemoveDomain(i) /\ ThenReload(p)

\* A new list has no domains yet: the handler does not reload.
handleListsCreate(p, u, t) == Ready(p) /\ AddAdlist(u, t) /\ Answer(p)

handleListsPatch(p, i, on) == Ready(p) /\ SetAdlistEnabled(i, on) /\ ThenReload(p)

handleListsDelete(p, i) == Ready(p) /\ RemoveAdlist(i) /\ ThenReload(p)

\* Answered at once, without a look at the database: a goroutine of its own runs a
\* builder and then reloads, while the next requests come.
handleListsUpdate(p) ==
    /\ Arrives(p)
    /\ \E u \in Updater : pc[u] = "idle" /\ Goto(u, "building")
    /\ orderly' = AllAnswered
    /\ UNCHANGED <<dbVars, reloadVars, readCurrent>>

\* No list or entry is ever put in a new group: the handler does not reload.
handleGroupsCreate(p, n) == Ready(p) /\ AddGroup(n) /\ Answer(p)

handleGroupsPatch(p, i, on) == Ready(p) /\ SetGroupEnabled(i, on) /\ ThenReload(p)

Handle(p) ==
    \/ \E d \in Domain, t \in DomainType : handleDomainsCreate(p, d, t)
    \/ \E i \in Id, on \in BOOLEAN : handleDomainsPatch(p, i, on)
    \/ \E i \in Id : handleDomainsDelete(p, i)
    \/ \E u \in Address, t \in AdlistType : handleListsCreate(p, u, t)
    \/ \E i \in Id, on \in BOOLEAN : handleListsPatch(p, i, on)
    \/ \E i \in Id : handleListsDelete(p, i)
    \/ handleListsUpdate(p)
    \/ \E n \in GroupName : handleGroupsCreate(p, n)
    \/ \E i \in Id \cup {DefaultGroup}, on \in BOOLEAN : handleGroupsPatch(p, i, on)

-----------------------------------------------------------------------------
(* Builder.Run *)

BuilderStores(p, i, ds) ==
    /\ pc[p] = "building" /\ conn = Free
    /\ ReplaceGravityDomains(i, ds)
    /\ RuleWritten
    /\ UNCHANGED <<pc, orderly>>

BuilderEnds(p) ==
    /\ pc[p] = "building"
    /\ Goto(p, "reload")
    /\ UNCHANGED <<dbVars, reloadVars, readCurrent, orderly>>

-----------------------------------------------------------------------------
(* Reload: LoadSnapshot, then engine.Load *)

\* Back from reload: a handler answers, Main starts the servers.
Done(p) ==
    /\ Goto(p, "idle")
    /\ rows' = [rows EXCEPT ![p] = NoRows]
    /\ serving' = (serving \/ p = Main)
    /\ readCurrent' = readCurrent \ {p}

\* The old rules are let go of before the new ones are there.
MutQueryGravity(p) ==
    /\ pc[p] = "reload" /\ conn = Free
    /\ conn' = p
    /\ rows' = [rows EXCEPT ![p].gravity = GravityRows]
    /\ readCurrent' = readCurrent \cup {p}
    /\ engine' = Compile(NoRows)
    /\ Goto(p, "gravity")
    /\ UNCHANGED <<dbVars, serving, engineCurrent, orderly>>

QueryGravity(p) ==
    /\ pc[p] = "reload" /\ conn = Free
    /\ conn' = p
    /\ rows' = [rows EXCEPT ![p].gravity = GravityRows]
    /\ readCurrent' = readCurrent \cup {p}
    /\ Goto(p, "gravity")
    /\ UNCHANGED <<dbVars, engine, serving, engineCurrent, orderly>>

\* The rows are left to the deferred Close, as those of the second query are.
MutCloseGravityRows(p) ==
    /\ pc[p] = "gravity"
    /\ Goto(p, "domains")
    /\ UNCHANGED <<dbVars, reloadVars, readCurrent, orderly>>

CloseGravityRows(p) ==
    /\ pc[p] = "gravity"
    /\ conn' = Free
    /\ Goto(p, "domains")
    /\ UNCHANGED <<dbVars, rows, engine, serving, readCurrent, engineCurrent, orderly>>

\* The second query takes the connection, is read and is closed on return.
QueryDomains(p) ==
    /\ pc[p] = "domains" /\ conn = Free
    /\ rows' = [rows EXCEPT ![p].domains = DomainRows]
    /\ Goto(p, "load")
    /\ UNCHANGED <<dbVars, conn, engine, serving, readCurrent, engineCurrent, orderly>>

\* The swap; the mutant merges what it read into what the engine holds.
MutLoaded(r) == [Compile(r) EXCEPT !.ExactAllow = @ \cup engine.ExactAllow]
Loaded(r) == Compile(r)

Load(p) ==
    /\ pc[p] = "load"
    /\ engine' = Loaded(rows[p])
    /\ engineCurrent' = (p \in readCurrent)
    /\ Done(p)
    /\ UNCHANGED <<dbVars, conn, orderly>>

\* Either query fails: the error is logged and the engine stays as it was.
ReloadFails(p) ==
    /\ ReadFaults
    /\ pc[p] \in {"reload", "domains"} /\ conn = Free
    /\ Done(p)
    /\ orderly' = FALSE
    /\ UNCHANGED <<dbVars, conn, engine, engineCurrent>>

Reload(p) ==
    QueryGravity(p) \/ CloseGravityRows(p) \/ QueryDomains(p) \/ Load(p) \/ ReloadFails(p)

-----------------------------------------------------------------------------
\* The process dies and is started again; the database is what it was.
Booting == [p \in Proc |-> IF p = Main THEN "building" ELSE "idle"]

Restart ==
    /\ pc' = Booting
    /\ conn' = Free
    /\ rows' = [p \in Proc |-> NoRows]
    /\ engine' = Compile(NoRows)
    /\ serving' = FALSE
    /\ readCurrent' = {}
    /\ engineCurrent' = FALSE
    /\ orderly' = TRUE
    /\ UNCHANGED dbVars

Init ==
    /\ DBInit
    /\ pc = Booting
    /\ conn = Free
    /\ rows = [p \in Proc |-> NoRows]
    /\ engine = Compile(NoRows)
    /\ serving = FALSE
    /\ readCurrent = {}
    /\ engineCurrent = FALSE
    /\ orderly = TRUE

Next ==
    \/ \E p \in Proc :
         \/ Handle(p)
         \/ \E i \in Id, ds \in SUBSET Domain : BuilderStores(p, i, ds)
         \/ BuilderEnds(p)
         \/ Reload(p)
    \/ Restart

\* Go runs every goroutine that can run.  database/sql hands a connection that
\* is put back to a goroutine that waits for one, so a query cannot be refused
\* it for ever: strong fairness.
Proceed(p) ==
    BuilderEnds(p) \/ QueryGravity(p) \/ CloseGravityRows(p) \/ QueryDomains(p) \/ Load(p)
Fairness == \A p \in Proc : SF_vars(Proceed(p))

Spec == Init /\ [][Next]_vars
FairSpec == Spec /\ Fairness

-----------------------------------------------------------------------------
(* Properties *)

\* Goroutines, connection and copies are of their types.
TypeOK ==
    /\ pc \in [Proc -> {"idle", "building", "reload", "gravity", "domains", "load"}]
    /\ conn \in Proc \cup {Free}
    /\ rows \in [Proc -> [gravity : SUBSET (Domain \X AdlistType),
                          domains : SUBSET (Id \X Domain \X DomainType)]]
    /\ serving \in BOOLEAN
    /\ readCurrent \subseteq Proc
    /\ engineCurrent \in BOOLEAN
    /\ orderly \in BOOLEAN

\* However many handlers and builders are at work, an engine loaded by a reload
\* that started after the last write of a rule holds exactly the rules of the
\* database, though the two queries are not one transaction.
EngineMatches == engineCurrent => engine = Snapshot

\* router.go:24 - with every request answered and no update running, the engine is
\* that of the database.
ChangesAreInForce == AllAnswered => engine = Snapshot

\* Two goroutines that change the rules at once can break that.  What does hold is
\* that it is never broken for good: when everything has come to rest, the engine is
\* that of the database if the last of the changes, a request or an update, began
\* after all before it had ended, whatever had overlapped or failed before.
FreshWhenIdle == AllAnswered /\ orderly => engine = Snapshot

\* router.go:22 - under the same conditions, queries go by the rules of the last
\* answer until they go by those of the next one: half a reload, half an update of
\* the lists or an engine that was emptied is never seen, and a request that changed
\* the rules is not forgotten.  Where changes overlap, an engine that serves still
\* holds rules that were read, and serves on.
RuleSet ==
    [ExactAllow : SUBSET Domain,
     ExactDeny : SUBSET (Domain \X {"manual", "gravity"}),
     RegexAllow : SUBSET (Id \X Domain),
     RegexDeny : SUBSET (Id \X Domain)]

Service == INSTANCE RuleService WITH
    Rules <- RuleSet, NoRules <- Compile(NoRows),
    stored <- Snapshot, applied <- engine, open <- serving,
    answered <- AllAnswered, calm <- orderly

ServesAnswered == Service!Spec

\* Only the goroutine between its two queries keeps the connection, so no
\* reload waits for a connection that it holds itself (sqlite.go, one connection).
ConnHeldBriefly == \A p \in Proc : conn = p <=> pc[p] = "gravity"

\* A goroutine that waits for the connection gets it: every request is answered
\* and every update ends with the engine swapped, whatever the others do, unless
\* a query fails or the process dies.
Answered == \A p \in Handler \cup Updater : pc[p] # "idle" ~> pc[p] = "idle"
=============================================================================
