---------------------------- MODULE GravityUpdate ----------------------------
(***************************************************************************)
(* How adlists get their domains: EnsureDefaultAdlists and Builder.Run of  *)
(* internal/gravity/build.go, with Fetcher.Fetch of fetch.go, run by       *)
(* runServe at every start and by a goroutine of its own for each          *)
(* POST /api/lists/update, while the other handlers of lists.go edit the   *)
(* adlist table the run has listed.                                        *)
(*                                                                         *)
(* An upstream is the number of the version it publishes.  Its entity tag, *)
(* when it sends one, is that number, and it never returns to an older     *)
(* version.  Corpus is what DetectAndParse makes of a version.             *)
(***************************************************************************)
EXTENDS GravityDB

CONSTANTS
    MaxVersion,  \* bound: versions an upstream publishes
    Corpus,      \* Corpus[u][v]: the domains parsed from version v of u
    Default,     \* config.Gravity.DefaultAdlists
    Main,        \* the goroutine of runServe
    Updater      \* the goroutines handleListsUpdate starts

Version == 1..MaxVersion
Builder == {Main} \cup Updater

ASSUME GravityUpdateAssumption ==
    /\ MaxVersion \in Nat \ {0}
    /\ Etag = Version
    /\ Corpus \in [Address -> [Version -> SUBSET Domain]]
    /\ Default \subseteq Address
    /\ Main \notin Updater

VARIABLES
    upstream,   \* the version each address publishes
    pc,         \* where each builder is
    listing,    \* the rows of adlist the run listed when it began
    todo,       \* the ids of the listing the run has not finished with
    got,        \* the version and the entity tag of the body being stored
    asked,      \* history: what upstream was when the run began
    failed      \* history: the lists the run could not fetch or store

runVars == <<pc, listing, todo, got>>
history == <<asked, failed>>
vars == <<dbVars, upstream, runVars, history>>

NoListing == [i \in {} |-> {}]
NoBody == [version |-> 1, tag |-> NoEtag]
FirstVersions == [u \in Address |-> 1]

DomainsOf(i) == {g[1] : g \in {x \in gravity : x[2] = i}}

\* The servers start once Main is through with its own run.
Serving == pc[Main] = "idle"

\* The rows come ordered by id, and the run goes through them in that order.
Current(b) == CHOOSE i \in todo[b] : \A j \in todo[b] : i <= j
Row(b) == listing[b][Current(b)]

Continue(b) ==
    /\ pc' = [pc EXCEPT ![b] = "next"]
    /\ todo' = [todo EXCEPT ![b] = @ \ {Current(b)}]

-----------------------------------------------------------------------------
(* EnsureDefaultAdlists *)

Seed(u) ==
    /\ pc[Main] = "seeding"
    /\ AddAdlist(u, AdlistBlock)
    /\ UNCHANGED <<upstream, runVars, history>>

Seeded == Default \subseteq {adlist[i].address : i \in DOMAIN adlist} \/ adlistSeq = MaxId

-----------------------------------------------------------------------------
(* Builder.Run *)

BeginRun(b) ==
    /\ \/ b = Main /\ pc[b] = "seeding" /\ Seeded
       \/ b \in Updater /\ pc[b] = "idle" /\ Serving
    /\ pc' = [pc EXCEPT ![b] = "next"]
    /\ listing' = [listing EXCEPT ![b] = adlist]
    /\ todo' = [todo EXCEPT ![b] = DOMAIN adlist]
    /\ asked' = [asked EXCEPT ![b] = upstream]
    /\ failed' = [failed EXCEPT ![b] = {}]
    /\ UNCHANGED <<dbVars, upstream, got>>

AtList(b) == pc[b] = "next" /\ todo[b] # {}

SkipDisabled(b) ==
    /\ AtList(b) /\ ~Row(b).enabled
    /\ Continue(b)
    /\ UNCHANGED <<dbVars, upstream, listing, got, history>>

\* A list that fails is tried again until it does not.
MutGiveUp(b) ==
    /\ pc' = [pc EXCEPT ![b] = "next"]
    /\ failed' = [failed EXCEPT ![b] = @ \cup {Current(b)}]
    /\ UNCHANGED todo

\* The error is logged, and the run goes on with the next list.
GiveUp(b) ==
    /\ Continue(b)
    /\ failed' = [failed EXCEPT ![b] = @ \cup {Current(b)}]

\* No answer, a status other than 200 and 304, or the run's context is over.
FetchFails(b) ==
    /\ AtList(b) /\ Row(b).enabled
    /\ \/ UpdateAdlistMeta(Current(b), "error", Row(b).etag)
       \/ UNCHANGED dbVars   \* the write fails, too
    /\ GiveUp(b)
    /\ UNCHANGED <<upstream, listing, got, asked>>

\* Any list with an entity tag is taken to be unchanged.
MutFetchNotModified(b) ==
    /\ AtList(b) /\ Row(b).enabled
    /\ Row(b).etag # NoEtag
    /\ Continue(b)
    /\ UNCHANGED <<dbVars, upstream, listing, got, history>>

FetchNotModified(b) ==
    /\ AtList(b) /\ Row(b).enabled
    /\ Row(b).etag = upstream[Row(b).address]
    /\ Continue(b)
    /\ UNCHANGED <<dbVars, upstream, listing, got, history>>

\* The metadata is written before the domains it describes.
MutFetchBody(b, tag) ==
    /\ AtList(b) /\ Row(b).enabled
    /\ tag \in {NoEtag, upstream[Row(b).address]}
    /\ got' = [got EXCEPT ![b] = [version |-> upstream[Row(b).address], tag |-> tag]]
    /\ pc' = [pc EXCEPT ![b] = "store"]
    /\ UpdateAdlistMeta(Current(b), "ok", tag)
    /\ UNCHANGED <<upstream, listing, todo, history>>

\* A 200, with the entity tag of the version or with none.
FetchBody(b, tag) ==
    /\ AtList(b) /\ Row(b).enabled
    /\ tag \in {NoEtag, upstream[Row(b).address]}
    /\ got' = [got EXCEPT ![b] = [version |-> upstream[Row(b).address], tag |-> tag]]
    /\ pc' = [pc EXCEPT ![b] = "store"]
    /\ UNCHANGED <<dbVars, upstream, listing, todo, history>>

Body(b) == Corpus[Row(b).address][got[b].version]

\* Foreign keys are not enforced: what was fetched goes in whatever became of
\* the list.
MutStoreDomains(b) ==
    /\ pc[b] = "store"
    /\ gravity' = GravityWithout(Current(b)) \cup (Body(b) \X {Current(b)})
    /\ pc' = [pc EXCEPT ![b] = "meta"]
    /\ UNCHANGED <<adlist, adlist_by_group, adlistSeq, domainVars, groupVars,
                   upstream, listing, todo, got, history>>

StoreDomains(b) ==
    /\ pc[b] = "store"
    /\ ReplaceGravityDomains(Current(b), Body(b))
    /\ pc' = [pc EXCEPT ![b] = "meta"]
    /\ UNCHANGED <<upstream, listing, todo, got, history>>

\* Rolled back: by the foreign key when the list was deleted meanwhile, or by
\* any other fault of the database.
StoreFails(b) ==
    /\ pc[b] = "store"
    /\ GiveUp(b)
    /\ UNCHANGED <<dbVars, upstream, listing, got, asked>>

StoreMeta(b) ==
    /\ pc[b] = "meta"
    /\ UpdateAdlistMeta(Current(b), "ok", got[b].tag)
    /\ Continue(b)
    /\ UNCHANGED <<upstream, listing, got, history>>

StoreMetaFails(b) ==
    /\ pc[b] = "meta"
    /\ GiveUp(b)
    /\ UNCHANGED <<dbVars, upstream, listing, got, asked>>

\* What a run held is gone when it returns.
Forget(b) ==
    /\ listing' = [listing EXCEPT ![b] = NoListing]
    /\ got' = [got EXCEPT ![b] = NoBody]
    /\ asked' = [asked EXCEPT ![b] = FirstVersions]
    /\ failed' = [failed EXCEPT ![b] = {}]

\* The run ends with lists to go.
MutEndRun(b) ==
    /\ pc[b] = "next"
    /\ pc' = [pc EXCEPT ![b] = "idle"]
    /\ Forget(b)
    /\ UNCHANGED <<dbVars, upstream, todo>>

EndRun(b) ==
    /\ pc[b] = "next" /\ todo[b] = {}
    /\ pc' = [pc EXCEPT ![b] = "idle"]
    /\ Forget(b)
    /\ UNCHANGED <<dbVars, upstream, todo>>

Run(b) ==
    \/ SkipDisabled(b)
    \/ FetchFails(b)
    \/ FetchNotModified(b)
    \/ \E tag \in Etag \cup {NoEtag} : FetchBody(b, tag)
    \/ StoreDomains(b)
    \/ StoreFails(b)
    \/ StoreMeta(b)
    \/ StoreMetaFails(b)
    \/ EndRun(b)

-----------------------------------------------------------------------------
(* The user, through lists.go; the upstreams; the death of the process *)

\* Of either type in the code; the type decides nothing here.
UserAdds(u) ==
    /\ Serving
    /\ AddAdlist(u, AdlistBlock)
    /\ UNCHANGED <<upstream, runVars, history>>

UserRemoves(i) ==
    /\ Serving /\ i \in DOMAIN adlist
    /\ RemoveAdlist(i)
    /\ UNCHANGED <<upstream, runVars, history>>

UserSwitches(i, on) ==
    /\ Serving /\ i \in DOMAIN adlist
    /\ SetAdlistEnabled(i, on)
    /\ UNCHANGED <<upstream, runVars, history>>

Publish(u) ==
    /\ upstream[u] < MaxVersion
    /\ upstream' = [upstream EXCEPT ![u] = @ + 1]
    /\ UNCHANGED <<dbVars, runVars, history>>

Booting == [b \in Builder |-> IF b = Main THEN "seeding" ELSE "idle"]
NoListings == [b \in Builder |-> NoListing]
NothingToDo == [b \in Builder |-> {}]
NoBodies == [b \in Builder |-> NoBody]
NothingAsked == [b \in Builder |-> FirstVersions]
NothingFailed == [b \in Builder |-> {}]

Restart ==
    /\ pc' = Booting
    /\ listing' = NoListings /\ todo' = NothingToDo /\ got' = NoBodies
    /\ asked' = NothingAsked /\ failed' = NothingFailed
    /\ UNCHANGED <<dbVars, upstream>>

Init ==
    /\ DBInit
    /\ upstream = FirstVersions
    /\ pc = Booting
    /\ listing = NoListings /\ todo = NothingToDo /\ got = NoBodies
    /\ asked = NothingAsked /\ failed = NothingFailed

Next ==
    \/ \E u \in Default : Seed(u)
    \/ \E b \in Builder : BeginRun(b) \/ Run(b)
    \/ \E u \in Address : UserAdds(u)
    \/ \E i \in Id : UserRemoves(i)
    \/ \E i \in Id, on \in BOOLEAN : UserSwitches(i, on)
    \/ \E u \in Address : Publish(u)
    \/ Restart

\* A run goes on: a request has an answer within 30 seconds or fails.  Nobody
\* has to start one, save runServe.
Fairness ==
    /\ \A b \in Builder : WF_vars(Run(b))
    /\ WF_vars(BeginRun(Main))
    /\ \A u \in Default : WF_vars(Seed(u))

Spec == Init /\ [][Next]_vars
FairSpec == Spec /\ Fairness

-----------------------------------------------------------------------------
(* Properties *)

\* Builders, upstreams and histories are of their types.
TypeOK ==
    /\ upstream \in [Address -> Version]
    /\ pc \in [Builder -> {"seeding", "next", "store", "meta", "idle"}]
    /\ DOMAIN listing = Builder /\ DOMAIN todo = Builder
    /\ \A b \in Builder :
        /\ todo[b] \subseteq DOMAIN listing[b] /\ DOMAIN listing[b] \subseteq 1..adlistSeq
        /\ listing[b] \in [DOMAIN listing[b] -> Adlist]
        /\ pc[b] \in {"store", "meta"} => todo[b] # {}
    /\ got \in [Builder -> [version : Version, tag : Version \cup {NoEtag}]]
    /\ asked \in [Builder -> [Address -> Version]]
    /\ failed \in [Builder -> SUBSET Id]

\* The domains of a list are those of one version its own address published:
\* never a mixture, never those of a deleted list, however many builders run.
RowsAreOneVersion ==
    \A i \in DOMAIN adlist :
        \/ DomainsOf(i) = {}
        \/ \E v \in 1..upstream[adlist[i].address] :
               DomainsOf(i) = Corpus[adlist[i].address][v]

\* build.go:21 - a list whose tag would be answered 304 has the domains of the
\* version its upstream publishes, also after a crash between the two writes
\* of a list.  It takes one run at a time.
UnchangedMeansCurrent ==
    \A i \in DOMAIN adlist :
        LET u == adlist[i].address IN
        adlist[i].etag = upstream[u] => DomainsOf(i) = Corpus[u][upstream[u]]

\* Lists the run was to refresh and could, and that are still there.
Refreshed(b) ==
    {i \in (DOMAIN adlist \cap DOMAIN listing[b]) \ failed[b] : listing[b][i].enabled}

\* A run leaves every list it did not report a failure of with domains no older
\* than its start.  It takes one run at a time.
RefreshIsCurrent ==
    [][\A b \in Builder : EndRun(b) =>
         \A i \in Refreshed(b) :
            LET u == adlist[i].address IN
            \E v \in asked[b][u]..upstream[u] : DomainsOf(i) = Corpus[u][v]]_vars

\* Every update the user starts comes to its end.
RunEnds == \A b \in Updater : pc[b] # "idle" ~> pc[b] = "idle"
=============================================================================
