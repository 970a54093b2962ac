------------------------ MODULE GravityUpdate_proofs ------------------------
(***************************************************************************)
(* Proofs about GravityUpdate, for any lists, upstreams and versions.      *)
(*                                                                         *)
(* However many builders run: the types, that every step is one of the     *)
(* store, so that no domain outlives its list, and, by VersionInv, that    *)
(* the rows of a list are those of one version.  With one updater,         *)
(* OneRunInv says what a run has in hand: nobody else writes the tags of   *)
(* the lists it has before it, and what it stores is no older than its     *)
(* start; from it follow that a tag never hides stale domains and that a   *)
(* run refreshes what it can.  Last, however many run, how many steps a    *)
(* run may take.                                                           *)
(***************************************************************************)
EXTENDS GravityUpdate, GravityDB_proofs, WellFoundedInduction, FiniteSetTheorems

\* A run has a next list as long as it has lists to go.
LEMMA LeastIn ==
  ASSUME NEW T, T \subseteq Nat, T # {}
  PROVE  (CHOOSE i \in T : \A j \in T : i <= j) \in T
<1> DEFINE Less == {ss \in Nat \X Nat : ss[1] < ss[2]}
<1>0. IsWellFoundedOn(Less, Nat)
  BY NatLessThanWellFounded DEF OpToRel
<1>1. PICK i \in T : \A j \in T : ~(<<j, i>> \in Less)
  <2> HIDE DEF Less
  <2> QED
    BY <1>0, WFMin
<1>2. \A j \in T : i <= j
  <2> TAKE j \in T
  <2>1. i \in Nat /\ j \in Nat
    OBVIOUS
  <2>2. ~(j < i)
    <3>1. <<j, i>> \in Nat \X Nat /\ <<j, i>>[1] = j /\ <<j, i>>[2] = i
      BY <2>1
    <3> QED
      BY <1>1, <3>1
  <2> QED
    BY <2>1, <2>2
<1> QED
  BY <1>2

LEMMA CurrentIn ==
  ASSUME DBInv, TypeOK, NEW b \in Builder, todo[b] # {}
  PROVE  /\ Current(b) \in todo[b] /\ Current(b) \in Id
         /\ Current(b) \in DOMAIN listing[b] /\ Row(b) \in Adlist
         /\ Row(b).address \in Address /\ Row(b).etag \in Etag \cup {NoEtag}
<1>1. todo[b] \subseteq DOMAIN listing[b] /\ DOMAIN listing[b] \subseteq 1..adlistSeq
      /\ listing[b] \in [DOMAIN listing[b] -> Adlist] /\ adlistSeq \in 0..MaxId
  BY DEF TypeOK, DBInv, DBTypeOK
<1>2. todo[b] \subseteq Nat
  BY <1>1
<1>3. Current(b) \in todo[b]
  BY <1>2, LeastIn DEF Current
<1>4. Current(b) \in 1..adlistSeq /\ \A i \in 1..adlistSeq : i \in 1..MaxId
  BY <1>1, <1>3, GravityDBAssumption
<1>5. Current(b) \in DOMAIN listing[b] /\ Row(b) \in Adlist
  BY <1>1, <1>3 DEF Row
<1> QED
  BY <1>3, <1>4, <1>5 DEF Adlist, Id

\* Every step is a step of the store on the tables, or none.
LEMMA UpdateIsDBNext == DBInv /\ TypeOK /\ [Next]_vars => [DBNext]_dbVars
<1> SUFFICES ASSUME DBInv, TypeOK, Next PROVE DBNext \/ UNCHANGED dbVars
  BY DEF vars
<1>1. ASSUME NEW u \in Address, AddAdlist(u, AdlistBlock) PROVE DBNext
  BY <1>1 DEF DBNext, AdlistType
<1>2. ASSUME NEW u \in Default, Seed(u) PROVE DBNext
  BY <1>1, <1>2, GravityUpdateAssumption DEF Seed
<1>3. ASSUME NEW b \in Builder, BeginRun(b) PROVE UNCHANGED dbVars
  BY <1>3 DEF BeginRun
<1>4. ASSUME NEW b \in Builder, Run(b) PROVE DBNext \/ UNCHANGED dbVars
  <2>1. CASE \/ SkipDisabled(b) \/ FetchNotModified(b) \/ StoreFails(b) \/ StoreMetaFails(b)
             \/ EndRun(b) \/ \E tag \in Etag \cup {NoEtag} : FetchBody(b, tag)
    BY <2>1 DEF SkipDisabled, FetchNotModified, StoreFails, StoreMetaFails, EndRun, FetchBody
  <2>2. CASE FetchFails(b)
    <3>1. Current(b) \in Id /\ Row(b).etag \in Etag \cup {NoEtag}
      BY <2>2, CurrentIn DEF FetchFails, AtList
    <3> QED
      BY <2>2, <3>1 DEF FetchFails, DBNext, Status
  <2>3. CASE StoreDomains(b)
    <3>1. todo[b] # {}
      BY <2>3 DEF StoreDomains, TypeOK
    <3>2. Current(b) \in Id /\ Row(b).address \in Address
      BY <3>1, CurrentIn
    <3>3. got[b].version \in Version
      BY DEF TypeOK
    <3>4. Body(b) \in SUBSET Domain
      BY <3>2, <3>3, GravityUpdateAssumption DEF Body
    <3> QED
      BY <2>3, <3>2, <3>4 DEF StoreDomains, DBNext
  <2>4. CASE StoreMeta(b)
    <3>1. todo[b] # {}
      BY <2>4 DEF StoreMeta, TypeOK
    <3>2. Current(b) \in Id /\ got[b].tag \in Etag \cup {NoEtag}
      BY <3>1, CurrentIn, GravityUpdateAssumption DEF TypeOK
    <3> QED
      BY <2>4, <3>2 DEF StoreMeta, DBNext, Status
  <2> QED
    BY <1>4, <2>1, <2>2, <2>3, <2>4 DEF Run
<1>5. ASSUME NEW u \in Address, UserAdds(u) PROVE DBNext
  BY <1>1, <1>5 DEF UserAdds
<1>6. ASSUME NEW i \in Id, UserRemoves(i) PROVE DBNext
  BY <1>6 DEF UserRemoves, DBNext
<1>7. ASSUME NEW i \in Id, NEW on \in BOOLEAN, UserSwitches(i, on) PROVE DBNext
  BY <1>7 DEF UserSwitches, DBNext
<1>8. CASE (\E u \in Address : Publish(u)) \/ Restart
  BY <1>8 DEF Publish, Restart
<1> QED
  BY <1>2, <1>3, <1>4, <1>5, <1>6, <1>7, <1>8 DEF Next

\* What a step does to the lists: they keep their addresses, a new one is above
\* every id handed out so far.
ListsKept ==
    /\ adlistSeq <= adlistSeq'
    /\ \A i \in DOMAIN adlist' :
          \/ i > adlistSeq
          \/ i \in DOMAIN adlist /\ adlist'[i].address = adlist[i].address

LEMMA ListsStep == DBInv /\ [DBNext]_dbVars => ListsKept
<1> SUFFICES ASSUME DBInv, [DBNext]_dbVars PROVE ListsKept
  OBVIOUS
<1>0. adlistSeq \in Nat /\ \A i \in DOMAIN adlist : adlist[i] \in Adlist
  BY GravityDBAssumption DEF DBInv, DBTypeOK
<1>1. ASSUME UNCHANGED adlistVars PROVE ListsKept
  BY <1>0, <1>1 DEF adlistVars, ListsKept
<1>2. CASE UNCHANGED dbVars
  BY <1>1, <1>2 DEF dbVars
<1>3. ASSUME NEW d \in Domain, NEW t \in DomainType, AddDomain(d, t) PROVE ListsKept
  BY <1>1, <1>3 DEF AddDomain
<1>4. ASSUME NEW i \in Id, RemoveDomain(i) PROVE ListsKept
  BY <1>1, <1>4 DEF RemoveDomain
<1>5. ASSUME NEW i \in Id, NEW on \in BOOLEAN, SetDomainEnabled(i, on) PROVE ListsKept
  BY <1>1, <1>5 DEF SetDomainEnabled
<1>6. ASSUME NEW u \in Address, NEW t \in AdlistType, AddAdlist(u, t) PROVE ListsKept
  <2>1. /\ adlistSeq' = adlistSeq + 1
        /\ DOMAIN adlist' = (DOMAIN adlist) \cup {adlistSeq + 1}
        /\ \A i \in DOMAIN adlist : i # adlistSeq + 1 => adlist'[i] = adlist[i]
    BY <1>6 DEF AddAdlist, NextAdlistId, Inserted
  <2> QED
    BY <1>0, <2>1 DEF ListsKept
<1>7. ASSUME NEW i \in Id, RemoveAdlist(i) PROVE ListsKept
  BY <1>0, <1>7 DEF RemoveAdlist, Deleted, ListsKept
<1>8. ASSUME NEW i \in Id, NEW on \in BOOLEAN, SetAdlistEnabled(i, on) PROVE ListsKept
  BY <1>0, <1>8 DEF SetAdlistEnabled, ListsKept, Adlist
<1>9. ASSUME NEW i \in Id, NEW s \in Status, NEW e \in Etag \cup {NoEtag},
             UpdateAdlistMeta(i, s, e)
      PROVE  ListsKept
  <2>1. adlistSeq' = adlistSeq /\ DOMAIN adlist' = DOMAIN adlist
        /\ \A j \in DOMAIN adlist :
              adlist'[j] = IF j = i THEN WithMeta(adlist[j], s, e) ELSE adlist[j]
    BY <1>9 DEF UpdateAdlistMeta
  <2>2. \A j \in DOMAIN adlist : WithMeta(adlist[j], s, e).address = adlist[j].address
    BY <1>0, WithMetaKeeps
  <2> QED
    BY <1>0, <2>1, <2>2 DEF ListsKept
<1>10. ASSUME NEW i \in Id, NEW ds \in SUBSET Domain, ReplaceGravityDomains(i, ds)
       PROVE  ListsKept
  BY <1>0, <1>10 DEF ReplaceGravityDomains, ListsKept
<1>11. ASSUME NEW n \in GroupName, AddGroup(n) PROVE ListsKept
  BY <1>1, <1>11 DEF AddGroup
<1>12. ASSUME NEW i \in Id \cup {DefaultGroup}, NEW on \in BOOLEAN, SetGroupEnabled(i, on)
       PROVE  ListsKept
  BY <1>1, <1>12 DEF SetGroupEnabled
<1> QED
  BY <1>2, <1>3, <1>4, <1>5, <1>6, <1>7, <1>8, <1>9, <1>10, <1>11, <1>12 DEF DBNext

-----------------------------------------------------------------------------
(* Types *)

LEMMA TypesInit == Init => DBInv /\ TypeOK
<1> SUFFICES ASSUME Init PROVE DBInv /\ TypeOK
  OBVIOUS
<1>1. 1 \in Version /\ \A u \in Address : FirstVersions[u] = 1
  BY GravityUpdateAssumption DEF Version, FirstVersions
<1>2. upstream \in [Address -> Version] /\ asked \in [Builder -> [Address -> Version]]
  BY <1>1 DEF Init, FirstVersions, NothingAsked
<1>3. got \in [Builder -> [version : Version, tag : Version \cup {NoEtag}]]
  BY <1>1 DEF Init, NoBodies, NoBody
<1>4. \A b \in Builder : DOMAIN listing[b] = {} /\ todo[b] = {} /\ pc[b] \in {"seeding", "idle"}
  BY DEF Init, NoListings, NoListing, NothingToDo, Booting
<1>5. \A b \in Builder : listing[b] \in [DOMAIN listing[b] -> Adlist]
  BY DEF Init, NoListings, NoListing
<1>6. /\ pc \in [Builder -> {"seeding", "next", "store", "meta", "idle"}]
      /\ failed \in [Builder -> SUBSET Id]
      /\ DOMAIN listing = Builder /\ DOMAIN todo = Builder
  BY DEF Init, Booting, NothingFailed, NoListings, NothingToDo
<1>7. DBInv
  BY InitInv DEF Init
<1> QED
  BY <1>2, <1>3, <1>4, <1>5, <1>6, <1>7 DEF TypeOK

\* The types of a builder b in the state the step leads to.
BuilderTypes(b) ==
    /\ todo[b] \subseteq DOMAIN listing[b] /\ DOMAIN listing[b] \subseteq 1..adlistSeq
    /\ listing[b] \in [DOMAIN listing[b] -> Adlist]
    /\ pc[b] \in {"store", "meta"} => todo[b] # {}

LEMMA TypesNext == DBInv /\ TypeOK /\ [Next]_vars => TypeOK'
<1> SUFFICES ASSUME DBInv, TypeOK, [Next]_vars PROVE TypeOK'
  OBVIOUS
<1>0. \A i \in Int : i \in 1..adlistSeq => i \in 1..adlistSeq'
  <2>1. ListsKept
    BY UpdateIsDBNext, ListsStep
  <2>2. adlistSeq \in Nat /\ adlistSeq' \in Nat
    BY UpdateIsDBNext, NextInv, GravityDBAssumption DEF DBInv, DBTypeOK
  <2> QED
    BY <2>1, <2>2 DEF ListsKept
<1>a. /\ upstream \in [Address -> Version]
      /\ pc \in [Builder -> {"seeding", "next", "store", "meta", "idle"}]
      /\ DOMAIN listing = Builder /\ DOMAIN todo = Builder
      /\ got \in [Builder -> [version : Version, tag : Version \cup {NoEtag}]]
      /\ asked \in [Builder -> [Address -> Version]]
      /\ failed \in [Builder -> SUBSET Id]
      /\ \A b \in Builder : BuilderTypes(b)
  BY DEF TypeOK, BuilderTypes
<1>b. SUFFICES /\ upstream' \in [Address -> Version]
               /\ pc' \in [Builder -> {"seeding", "next", "store", "meta", "idle"}]
               /\ DOMAIN listing' = Builder /\ DOMAIN todo' = Builder
               /\ got' \in [Builder -> [version : Version, tag : Version \cup {NoEtag}]]
               /\ asked' \in [Builder -> [Address -> Version]]
               /\ failed' \in [Builder -> SUBSET Id]
               /\ \A b \in Builder : BuilderTypes(b)'
  BY DEF TypeOK, BuilderTypes
<1>c. ASSUME NEW b \in Builder, UNCHANGED <<pc[b], todo[b], listing[b]>>
      PROVE  BuilderTypes(b)'
  BY <1>0, <1>a, <1>c DEF BuilderTypes
<1>1. ASSUME UNCHANGED <<upstream, runVars, history>> PROVE TypeOK'
  BY <1>1, <1>a, <1>c DEF TypeOK, BuilderTypes, runVars, history
<1>2. CASE UNCHANGED vars \/ (\E u \in Default : Seed(u)) \/ (\E u \in Address : UserAdds(u))
           \/ (\E i \in Id : UserRemoves(i)) \/ (\E i \in Id, on \in BOOLEAN : UserSwitches(i, on))
  BY <1>1, <1>2 DEF vars, Seed, UserAdds, UserRemoves, UserSwitches, TypeOK, BuilderTypes
<1>3. ASSUME NEW b \in Builder, BeginRun(b) PROVE TypeOK'
  <2>1. /\ pc' = [pc EXCEPT ![b] = "next"] /\ listing' = [listing EXCEPT ![b] = adlist]
        /\ todo' = [todo EXCEPT ![b] = DOMAIN adlist]
        /\ asked' = [asked EXCEPT ![b] = upstream] /\ failed' = [failed EXCEPT ![b] = {}]
        /\ UNCHANGED <<upstream, got, adlistSeq>>
    BY <1>3 DEF BeginRun, dbVars, adlistVars
  <2>2. DOMAIN adlist \subseteq 1..adlistSeq /\ adlist \in [DOMAIN adlist -> Adlist]
    BY DEF DBInv, DBTypeOK
  <2>3. BuilderTypes(b)'
    BY <1>a, <2>1, <2>2 DEF BuilderTypes
  <2>4. \A c \in Builder : c # b => BuilderTypes(c)'
    BY <1>a, <1>c, <2>1
  <2>5. /\ pc' \in [Builder -> {"seeding", "next", "store", "meta", "idle"}]
        /\ asked' \in [Builder -> [Address -> Version]] /\ failed' \in [Builder -> SUBSET Id]
        /\ DOMAIN listing' = Builder /\ DOMAIN todo' = Builder
    BY <1>a, <2>1
  <2> QED
    BY <1>a, <2>1, <2>3, <2>4, <2>5 DEF TypeOK, BuilderTypes
<1>4. ASSUME NEW b \in Builder, todo[b] # {}, Continue(b),
             UNCHANGED <<upstream, listing, got, asked>>,
             UNCHANGED failed \/ GiveUp(b)
      PROVE  TypeOK'
  <2>1. Current(b) \in Id
    BY <1>4, CurrentIn
  <2>2. failed' \in [Builder -> SUBSET Id]
    BY <1>4, <1>a, <2>1 DEF GiveUp
  <2>3. \A c \in Builder : todo'[c] \subseteq todo[c] /\ (c # b => todo'[c] = todo[c] /\ pc'[c] = pc[c])
    BY <1>4, <1>a DEF Continue
  <2>4. pc'[b] = "next" /\ pc' \in [Builder -> {"seeding", "next", "store", "meta", "idle"}]
        /\ DOMAIN todo' = Builder
    BY <1>4, <1>a DEF Continue
  <2>5. \A c \in Builder : BuilderTypes(c)'
    BY <1>0, <1>4, <1>a, <2>3, <2>4 DEF BuilderTypes
  <2> QED
    BY <1>4, <1>a, <2>2, <2>4, <2>5 DEF TypeOK, BuilderTypes
<1>5. ASSUME NEW b \in Builder, NEW label \in {"store", "meta"}, todo[b] # {},
             pc' = [pc EXCEPT ![b] = label], UNCHANGED <<upstream, listing, todo, asked, failed>>,
             got' \in [Builder -> [version : Version, tag : Version \cup {NoEtag}]]
      PROVE  TypeOK'
  <2>1. pc' \in [Builder -> {"seeding", "next", "store", "meta", "idle"}]
    BY <1>5, <1>a
  <2>2. \A c \in Builder : BuilderTypes(c)'
    BY <1>0, <1>5, <1>a DEF BuilderTypes
  <2> QED
    BY <1>5, <1>a, <2>1, <2>2 DEF TypeOK, BuilderTypes
<1>6. ASSUME NEW b \in Builder, Run(b) PROVE TypeOK'
  <2>0. pc[b] \in {"store", "meta"} => todo[b] # {}
    BY <1>a DEF BuilderTypes
  <2>1. CASE SkipDisabled(b) \/ FetchFails(b) \/ FetchNotModified(b) \/ StoreFails(b)
             \/ StoreMeta(b) \/ StoreMetaFails(b)
    BY <1>4, <2>0, <2>1 DEF SkipDisabled, FetchFails, FetchNotModified, StoreFails, StoreMeta,
       StoreMetaFails, AtList, GiveUp, history
  <2>2. ASSUME NEW tag \in Etag \cup {NoEtag}, FetchBody(b, tag) PROVE TypeOK'
    <3>1. todo[b] # {} /\ Row(b).address \in Address
      BY <2>2, CurrentIn DEF FetchBody, AtList
    <3>2. [version |-> upstream[Row(b).address], tag |-> tag]
              \in [version : Version, tag : Version \cup {NoEtag}]
      BY <1>a, <3>1, GravityUpdateAssumption
    <3> QED
      BY <1>5, <1>a, <2>2, <3>1, <3>2 DEF FetchBody, history
  <2>3. CASE StoreDomains(b)
    BY <1>5, <1>a, <2>0, <2>3 DEF StoreDomains, history
  <2>4. CASE EndRun(b)
    <3>1. /\ pc' = [pc EXCEPT ![b] = "idle"] /\ listing' = [listing EXCEPT ![b] = NoListing]
          /\ got' = [got EXCEPT ![b] = NoBody] /\ asked' = [asked EXCEPT ![b] = FirstVersions]
          /\ failed' = [failed EXCEPT ![b] = {}] /\ UNCHANGED <<upstream, todo>> /\ todo[b] = {}
      BY <2>4 DEF EndRun, Forget
    <3>2. NoBody \in [version : Version, tag : Version \cup {NoEtag}]
          /\ FirstVersions \in [Address -> Version]
      BY GravityUpdateAssumption DEF NoBody, FirstVersions, Version
    <3>3. DOMAIN NoListing = {} /\ NoListing \in [DOMAIN NoListing -> Adlist]
      BY DEF NoListing
    <3>4. BuilderTypes(b)'
      BY <1>a, <3>1, <3>3 DEF BuilderTypes
    <3>5. \A c \in Builder : c # b => BuilderTypes(c)'
      BY <1>a, <1>c, <3>1
    <3> QED
      BY <1>a, <3>1, <3>2, <3>4, <3>5 DEF TypeOK, BuilderTypes
  <2> QED
    BY <1>6, <2>1, <2>2, <2>3, <2>4 DEF Run
<1>7. ASSUME NEW u \in Address, Publish(u) PROVE TypeOK'
  <2>1. upstream' \in [Address -> Version]
    BY <1>7, <1>a, GravityUpdateAssumption DEF Publish, Version
  <2> QED
    BY <1>7, <1>a, <1>c, <2>1 DEF Publish, TypeOK, BuilderTypes, runVars, history
<1>8. CASE Restart
  <2>1. \A b \in Builder : listing'[b] = NoListing /\ todo'[b] = {} /\ pc'[b] \in {"seeding", "idle"}
    BY <1>8 DEF Restart, Booting, NoListings, NothingToDo
  <2>2. DOMAIN NoListing = {} /\ NoListing \in [DOMAIN NoListing -> Adlist]
    BY DEF NoListing
  <2>3. \A b \in Builder : BuilderTypes(b)'
    BY <2>1, <2>2 DEF BuilderTypes
  <2>4. NoBody \in [version : Version, tag : Version \cup {NoEtag}]
        /\ FirstVersions \in [Address -> Version]
    BY GravityUpdateAssumption DEF NoBody, FirstVersions, Version
  <2>5. /\ pc' \in [Builder -> {"seeding", "next", "store", "meta", "idle"}]
        /\ DOMAIN listing' = Builder /\ DOMAIN todo' = Builder
        /\ got' \in [Builder -> [version : Version, tag : Version \cup {NoEtag}]]
        /\ asked' \in [Builder -> [Address -> Version]] /\ failed' \in [Builder -> SUBSET Id]
        /\ UNCHANGED upstream
    BY <1>8, <2>4 DEF Restart, Booting, NoListings, NothingToDo, NoBodies, NothingAsked, NothingFailed
  <2> QED
    BY <1>a, <2>3, <2>5 DEF TypeOK, BuilderTypes
<1> QED
  BY <1>2, <1>3, <1>6, <1>7, <1>8 DEF Next, TypeOK, BuilderTypes

LEMMA UpdateTypes == Spec => [](DBInv /\ TypeOK)
<1>1. DBInv /\ TypeOK /\ [Next]_vars => (DBInv /\ TypeOK)'
  BY UpdateIsDBNext, NextInv, TypesNext
<1> QED
  BY <1>1, TypesInit, PTL DEF Spec

\* Builders and upstreams keep their types.
THEOREM UpdateTypesTheorem == Spec => []TypeOK
BY UpdateTypes, PTL

\* However many runs and handlers write, and whatever is deleted while its body is on
\* the way, every compiled domain is that of a list that is there.
THEOREM NoOrphansTheorem == Spec => []NoOrphans
<1>1. DBInv => NoOrphans
  BY DEF DBInv, DBIntegrity
<1> QED
  BY <1>1, UpdateTypes, PTL

-----------------------------------------------------------------------------
(* What a step does to one builder, to the upstreams and to the domains *)

Waits(b) == UNCHANGED <<pc[b], listing[b], todo[b], got[b]>>

Moves(b) ==
    /\ pc'[b] # "store"
    /\ \/ listing'[b] = listing[b]
       \/ listing'[b] = NoListing
       \/ listing'[b] = adlist /\ adlist' = adlist

Fetches(b) == \E tag \in Etag \cup {NoEtag} : FetchBody(b, tag)

OwnStep(b) == Waits(b) \/ Moves(b) \/ Fetches(b)

LEMMA BuilderStep ==
  ASSUME TypeOK, [Next]_vars, NEW b \in Builder
  PROVE  OwnStep(b)
<1>0. DOMAIN listing = Builder /\ DOMAIN todo = Builder /\ DOMAIN pc = Builder /\ DOMAIN got = Builder
  BY DEF TypeOK
<1>1. ASSUME UNCHANGED runVars PROVE OwnStep(b)
  BY <1>1 DEF runVars, OwnStep, Waits, Moves, Fetches
<1>2. CASE UNCHANGED vars \/ (\E u \in Default : Seed(u)) \/ (\E u \in Address : UserAdds(u))
           \/ (\E i \in Id : UserRemoves(i)) \/ (\E i \in Id, on \in BOOLEAN : UserSwitches(i, on))
           \/ (\E u \in Address : Publish(u))
  BY <1>1, <1>2 DEF vars, Seed, UserAdds, UserRemoves, UserSwitches, Publish
<1>3. ASSUME NEW c \in Builder, BeginRun(c) PROVE OwnStep(b)
  BY <1>0, <1>3 DEF BeginRun, OwnStep, Waits, Moves, Fetches, dbVars, adlistVars
<1>4. ASSUME NEW c \in Builder, Run(c) PROVE OwnStep(b)
  <2>1. CASE c # b
    BY <1>0, <1>4, <2>1 DEF Run, SkipDisabled, FetchFails, FetchNotModified, FetchBody, StoreDomains,
       StoreFails, StoreMeta, StoreMetaFails, EndRun, Continue, GiveUp, Forget, OwnStep, Waits, Moves, Fetches
  <2>2. CASE c = b
    BY <1>0, <1>4, <2>2 DEF Run, SkipDisabled, FetchFails, FetchNotModified, StoreDomains,
       StoreFails, StoreMeta, StoreMetaFails, EndRun, Continue, GiveUp, Forget, OwnStep, Waits, Moves, Fetches
  <2> QED
    BY <2>1, <2>2
<1>5. CASE Restart
  BY <1>5 DEF Restart, OwnStep, Waits, Moves, Fetches, Booting, NoListings
<1> QED
  BY <1>2, <1>3, <1>4, <1>5 DEF Next

\* Upstreams go forward.
Forward == \A u \in Address : upstream[u] <= upstream'[u]

LEMMA ForwardStep == TypeOK /\ [Next]_vars => Forward
<1> SUFFICES ASSUME TypeOK, [Next]_vars PROVE Forward
  OBVIOUS
<1>0. upstream \in [Address -> Nat]
  BY GravityUpdateAssumption DEF TypeOK, Version
<1>1. ASSUME UNCHANGED upstream PROVE Forward
  BY <1>0, <1>1 DEF Forward
<1>2. ASSUME NEW u \in Address, Publish(u) PROVE Forward
  BY <1>0, <1>2 DEF Publish, Forward
<1>3. ASSUME NEW b \in Builder, BeginRun(b) \/ Run(b) PROVE UNCHANGED upstream
  BY <1>3 DEF BeginRun, Run, SkipDisabled, FetchFails, FetchNotModified, FetchBody, StoreDomains,
     StoreFails, StoreMeta, StoreMetaFails, EndRun
<1> QED
  BY <1>1, <1>2, <1>3 DEF Next, vars, Seed, UserAdds, UserRemoves, UserSwitches, Restart

\* Only the removal of a list and a builder that stores change domains.
LEMMA DomainsStep ==
  [Next]_vars => \/ UNCHANGED gravity
                 \/ \E i \in Id : UserRemoves(i)
                 \/ \E b \in Builder : StoreDomains(b)
<1>1. ASSUME NEW b \in Builder, BeginRun(b) \/ Run(b) PROVE UNCHANGED gravity \/ StoreDomains(b)
  BY <1>1 DEF BeginRun, Run, SkipDisabled, FetchFails, FetchNotModified, FetchBody,
     StoreFails, StoreMeta, StoreMetaFails, EndRun, UpdateAdlistMeta, dbVars, adlistVars
<1> QED
  BY <1>1 DEF Next, vars, Seed, UserAdds, UserSwitches, Publish, Restart, AddAdlist,
     SetAdlistEnabled, dbVars, adlistVars

LEMMA StoredDomains ==
  ASSUME NEW b \in Builder, StoreDomains(b), NEW k
  PROVE  DomainsOf(k)' = IF k = Current(b) THEN Body(b) ELSE DomainsOf(k)
<1>1. gravity' = GravityWithout(Current(b)) \cup (Body(b) \X {Current(b)})
  BY DEF StoreDomains, ReplaceGravityDomains
<1>2. CASE k = Current(b)
  <2>1. {x \in gravity' : x[2] = k} = Body(b) \X {k}
    BY <1>1, <1>2 DEF GravityWithout
  <2>2. {g[1] : g \in Body(b) \X {k}} = Body(b)
    <3>1. \A d \in Body(b) : <<d, k>> \in Body(b) \X {k} /\ <<d, k>>[1] = d
      OBVIOUS
    <3>2. \A g \in Body(b) \X {k} : g[1] \in Body(b)
      OBVIOUS
    <3> QED
      BY <3>1, <3>2
  <2> QED
    BY <1>2, <2>1, <2>2 DEF DomainsOf
<1>3. CASE k # Current(b)
  <2>1. {x \in gravity' : x[2] = k} = {x \in gravity : x[2] = k}
    BY <1>1, <1>3 DEF GravityWithout
  <2> QED
    BY <1>3, <2>1 DEF DomainsOf
<1> QED
  BY <1>2, <1>3

LEMMA RemovedDomains ==
  ASSUME NEW i \in Id, UserRemoves(i), NEW k \in DOMAIN adlist'
  PROVE  DomainsOf(k)' = DomainsOf(k)
<1>1. gravity' = {g \in gravity : g[2] # i} /\ k # i
  BY DEF UserRemoves, RemoveAdlist, GravityWithout, Deleted
<1>2. {x \in gravity' : x[2] = k} = {x \in gravity : x[2] = k}
  BY <1>1
<1> QED
  BY <1>2 DEF DomainsOf

LEMMA NoDomainsYet ==
  ASSUME DBInv, NEW k, k \notin DOMAIN adlist
  PROVE  DomainsOf(k) = {}
BY DEF DBInv, DBIntegrity, NoOrphans, DomainsOf

-----------------------------------------------------------------------------
(* Whole versions, however many builders run *)

\* A listing has the addresses the lists still have, and what is about to be
\* stored was published.
Held(b) ==
    /\ \A i \in DOMAIN listing[b] : i \in DOMAIN adlist => listing[b][i].address = adlist[i].address
    /\ pc[b] = "store" => got[b].version <= upstream[Row(b).address]

VersionInv == RowsAreOneVersion /\ \A b \in Builder : Held(b)

LEMMA VersionInit == Init => VersionInv
<1> SUFFICES ASSUME Init PROVE VersionInv
  OBVIOUS
<1>1. DOMAIN adlist = {}
  BY DEF Init, DBInit
<1>2. \A b \in Builder : pc[b] # "store"
  BY DEF Init, Booting
<1> QED
  BY <1>1, <1>2 DEF VersionInv, RowsAreOneVersion, Held

LEMMA HeldStep ==
  ASSUME DBInv, TypeOK, [Next]_vars, TypeOK', NEW b \in Builder, Held(b)
  PROVE  Held(b)'
<1>1. ListsKept /\ Forward /\ OwnStep(b)
  BY UpdateIsDBNext, ListsStep, ForwardStep, BuilderStep
<1>2. DOMAIN listing[b] \subseteq 1..adlistSeq /\ adlistSeq \in Nat
  BY GravityDBAssumption DEF TypeOK, DBInv, DBTypeOK
<1>3. ASSUME listing'[b] = listing[b]
      PROVE  \A i \in DOMAIN listing'[b] :
                i \in DOMAIN adlist' => listing'[b][i].address = adlist'[i].address
  <2>1. \A i \in DOMAIN listing[b] : ~(i > adlistSeq)
    BY <1>2
  <2> QED
    BY <1>1, <1>3, <2>1 DEF ListsKept, Held
<1>4. CASE Waits(b)
  <2>1. pc'[b] = "store" => got'[b].version <= upstream'[Row(b)'.address]
    <3> SUFFICES ASSUME pc[b] = "store" PROVE got[b].version <= upstream'[Row(b)'.address]
      BY <1>4 DEF Waits
    <3>1. Row(b)' = Row(b)
      BY <1>4 DEF Row, Current, Waits
    <3>2. Row(b).address \in Address
      BY CurrentIn DEF TypeOK
    <3>3. got[b].version <= upstream[Row(b).address]
      BY DEF Held
    <3>4. /\ got[b].version \in Int
          /\ upstream[Row(b).address] \in Int /\ upstream'[Row(b).address] \in Int
      BY <3>2 DEF TypeOK, Version
    <3> QED
      BY <1>1, <3>1, <3>2, <3>3, <3>4 DEF Forward
  <2> QED
    BY <1>3, <1>4, <2>1 DEF Held, Waits
<1>5. CASE pc'[b] # "store" /\ listing'[b] = listing[b]
  BY <1>3, <1>5 DEF Held
<1>6. CASE pc'[b] # "store" /\ listing'[b] = NoListing
  BY <1>6 DEF Held, NoListing
<1>10. CASE pc'[b] # "store" /\ listing'[b] = adlist /\ adlist' = adlist
  BY <1>10 DEF Held
<1>7. ASSUME NEW tag \in Etag \cup {NoEtag}, FetchBody(b, tag) PROVE Held(b)'
  <2>1. Row(b)' = Row(b) /\ UNCHANGED <<upstream, listing>>
        /\ got'[b].version = upstream[Row(b).address] /\ todo[b] # {}
    BY <1>7 DEF FetchBody, AtList, TypeOK, Row, Current
  <2>2. upstream[Row(b).address] \in Int
    BY <2>1, CurrentIn DEF TypeOK, Version
  <2> QED
    BY <1>3, <2>1, <2>2 DEF Held
<1>8. CASE Moves(b)
  BY <1>5, <1>6, <1>8, <1>10 DEF Moves
<1>9. CASE Fetches(b)
  BY <1>7, <1>9 DEF Fetches
<1> QED
  BY <1>1, <1>4, <1>8, <1>9 DEF OwnStep

LEMMA VersionStep ==
  ASSUME DBInv, TypeOK, [Next]_vars, DBInv', TypeOK', VersionInv
  PROVE  RowsAreOneVersion'
<1>1. ListsKept /\ Forward
  BY UpdateIsDBNext, ListsStep, ForwardStep
<1>2. adlistSeq \in Nat /\ DOMAIN adlist \subseteq 1..adlistSeq
  BY GravityDBAssumption DEF DBInv, DBTypeOK
<1>a. \A i \in DOMAIN adlist' : adlist'[i].address \in Address
  <2>1. \A i \in DOMAIN adlist' : adlist'[i] \in Adlist
    BY DEF DBInv, DBTypeOK
  <2> QED
    BY <2>1 DEF Adlist
<1>3. \A u \in Address : upstream[u] \in Int /\ upstream'[u] \in Int
  BY DEF TypeOK, Version
<1>4. \A u \in Address : \A v \in 1..upstream[u] : v \in 1..upstream'[u]
  BY <1>1, <1>3 DEF Forward
<1> SUFFICES ASSUME NEW i \in DOMAIN adlist'
             PROVE  \/ DomainsOf(i)' = {}
                    \/ \E v \in 1..upstream'[adlist'[i].address] :
                           DomainsOf(i)' = Corpus[adlist'[i].address][v]
  BY DEF RowsAreOneVersion
<1>5. ASSUME DomainsOf(i)' = DomainsOf(i)
      PROVE  \/ DomainsOf(i)' = {}
             \/ \E v \in 1..upstream'[adlist'[i].address] :
                    DomainsOf(i)' = Corpus[adlist'[i].address][v]
  <2>1. CASE i \in DOMAIN adlist /\ adlist'[i].address = adlist[i].address
    BY <1>a, <1>4, <1>5, <2>1 DEF VersionInv, RowsAreOneVersion
  <2>2. CASE i > adlistSeq
    BY <1>2, <1>5, <2>2, NoDomainsYet
  <2> QED
    BY <1>1, <2>1, <2>2 DEF ListsKept
<1>6. CASE UNCHANGED gravity
  BY <1>5, <1>6 DEF DomainsOf
<1>7. ASSUME NEW k \in Id, UserRemoves(k) PROVE DomainsOf(i)' = DomainsOf(i)
  BY <1>7, RemovedDomains
<1>8. ASSUME NEW b \in Builder, StoreDomains(b), i = Current(b)
      PROVE  \E v \in 1..upstream'[adlist'[i].address] :
                 DomainsOf(i)' = Corpus[adlist'[i].address][v]
  <2>1. DomainsOf(i)' = Corpus[Row(b).address][got[b].version]
    BY <1>8, StoredDomains DEF Body
  <2>2. pc[b] = "store" /\ todo[b] # {} /\ adlist' = adlist
    BY <1>8 DEF StoreDomains, TypeOK, ReplaceGravityDomains
  <2>3. Row(b).address = adlist'[i].address
    BY <1>8, <2>2, CurrentIn DEF VersionInv, Held, Row
  <2>4. got[b].version \in Nat \ {0} /\ got[b].version <= upstream[Row(b).address]
    BY <2>2 DEF TypeOK, Version, VersionInv, Held
  <2>5. got[b].version \in 1..upstream'[adlist'[i].address]
    BY <1>a, <1>3, <1>4, <2>3, <2>4
  <2> QED
    BY <2>1, <2>3, <2>5
<1>9. ASSUME NEW b \in Builder, StoreDomains(b), i # Current(b) PROVE DomainsOf(i)' = DomainsOf(i)
  BY <1>9, StoredDomains
<1> QED
  BY <1>5, <1>6, <1>7, <1>8, <1>9, DomainsStep

LEMMA VersionInvariant == Spec => [](DBInv /\ TypeOK /\ VersionInv)
<1>1. DBInv /\ TypeOK /\ VersionInv /\ [Next]_vars => (DBInv /\ TypeOK /\ VersionInv)'
  <2> SUFFICES ASSUME DBInv, TypeOK, VersionInv, [Next]_vars PROVE (DBInv /\ TypeOK /\ VersionInv)'
    OBVIOUS
  <2>1. DBInv' /\ TypeOK'
    BY UpdateIsDBNext, NextInv, TypesNext
  <2> QED
    BY <2>1, HeldStep, VersionStep DEF VersionInv
<1> QED
  BY <1>1, TypesInit, VersionInit, PTL DEF Spec

\* A list has the domains of one version of its own address, and of no other
\* list, whatever builders and handlers run at the same time.
THEOREM RowsTheorem == Spec => []RowsAreOneVersion
BY VersionInvariant, PTL DEF VersionInv

-----------------------------------------------------------------------------
(* Entity tags and freshness, one run at a time *)

OneAtATime == \A v, w \in Updater : v = w

\* While one builder is at work the others have nothing in hand.
Alone == \A b, c \in Builder : b # c => pc[b] = "idle" \/ pc[c] = "idle"

\* A tag is of a version that was published.
Etags == \A i \in DOMAIN adlist :
            adlist[i].etag # NoEtag => adlist[i].etag <= upstream[adlist[i].address]

FreshSince(b, i) ==
    LET u == adlist[i].address IN
    \E v \in asked[b][u]..upstream[u] : DomainsOf(i) = Corpus[u][v]

\* Nobody else writes the tags of the lists a run has before it; what it stores
\* is no older than its start and than the tag the list has.
RunOf(b) ==
    /\ pc[b] \in {"idle", "seeding"} => DOMAIN listing[b] = {}
    /\ \A i \in todo[b] : i \in DOMAIN adlist => adlist[i].etag = listing[b][i].etag
    /\ pc[b] \in {"store", "meta"} =>
          /\ got[b].tag \in {NoEtag, got[b].version}
          /\ asked[b][Row(b).address] <= got[b].version
          /\ got[b].version <= upstream[Row(b).address]
          /\ Current(b) \in DOMAIN adlist /\ adlist[Current(b)].etag # NoEtag
                => adlist[Current(b)].etag <= got[b].version
    /\ pc[b] = "meta" /\ Current(b) \in DOMAIN adlist => DomainsOf(Current(b)) = Body(b)
    /\ \A u \in Address : asked[b][u] <= upstream[u]
    /\ \A i \in Refreshed(b) \ todo[b] : FreshSince(b, i)

OneRunInv == Alone /\ Etags /\ (\A b \in Builder : RunOf(b)) /\ UnchangedMeansCurrent

\* What is known of the state of a step, and of where it leads.
Known == DBInv /\ TypeOK /\ VersionInv /\ OneRunInv

LEMMA OneRunInit == OneAtATime /\ Init => OneRunInv
<1> SUFFICES ASSUME Init PROVE OneRunInv
  OBVIOUS
<1>1. DOMAIN adlist = {} /\ \A b \in Builder : pc[b] \in {"idle", "seeding"} /\ DOMAIN listing[b] = {}
                                               /\ todo[b] = {}
  BY DEF Init, DBInit, Booting, NoListings, NoListing, NothingToDo
<1>2. \A b, c \in Builder : b # c => pc[b] = "idle" \/ pc[c] = "idle"
  BY DEF Init, Booting
<1>3. \A b \in Builder, u \in Address : asked[b][u] <= upstream[u]
  BY DEF Init, NothingAsked, FirstVersions
<1> QED
  BY <1>1, <1>2, <1>3 DEF OneRunInv, Alone, Etags, RunOf, UnchangedMeansCurrent, Refreshed

LEMMA NumberFacts ==
  ASSUME TypeOK
  PROVE  /\ \A u \in Address : upstream[u] \in Nat \ {0} /\ upstream[u] \in Version
         /\ \A b \in Builder, u \in Address : asked[b][u] \in Nat
         /\ \A b \in Builder : got[b].version \in Version /\ got[b].version \in Nat
                               /\ got[b].tag \in Version \cup {NoEtag}
         /\ Version \subseteq Nat
BY DEF TypeOK, Version

LEMMA ListFacts ==
  ASSUME DBInv
  PROVE  \A i \in DOMAIN adlist : /\ adlist[i] \in Adlist /\ adlist[i].address \in Address
                                  /\ adlist[i].etag \in Version \cup {NoEtag}
<1>1. \A i \in DOMAIN adlist : adlist[i] \in Adlist
  BY DEF DBInv, DBTypeOK
<1> QED
  BY <1>1, GravityUpdateAssumption DEF Adlist

\* A builder with nothing in hand.
LEMMA IdleRun ==
  ASSUME TypeOK', NEW b \in Builder, pc'[b] \in {"idle", "seeding"}, DOMAIN listing'[b] = {},
         \A u \in Address : asked'[b][u] <= upstream'[u]
  PROVE  RunOf(b)'
<1>1. todo'[b] = {}
  BY DEF TypeOK
<1> QED
  BY <1>1 DEF RunOf, Refreshed

LEMMA AskedForward ==
  ASSUME TypeOK, TypeOK', Forward, NEW b \in Builder, asked'[b] = asked[b],
         \A u \in Address : asked[b][u] <= upstream[u]
  PROVE  \A u \in Address : asked'[b][u] <= upstream'[u]
BY NumberFacts DEF Forward, TypeOK, Version

\* Domains that were fresh and are not touched stay fresh.
LEMMA FreshKept ==
  ASSUME TypeOK, TypeOK', Forward, NEW b \in Builder, NEW i \in DOMAIN adlist,
         adlist[i].address \in Address, FreshSince(b, i), asked'[b] = asked[b],
         adlist'[i].address = adlist[i].address, DomainsOf(i)' = DomainsOf(i)
  PROVE  FreshSince(b, i)'
<1> DEFINE u == adlist[i].address
<1>1. PICK v \in asked[b][u]..upstream[u] : DomainsOf(i) = Corpus[u][v]
  BY DEF FreshSince
<1>2. upstream[u] \in Int /\ upstream'[u] \in Int /\ upstream[u] <= upstream'[u]
      /\ asked[b][u] \in Int
  BY NumberFacts DEF Forward, TypeOK, Version
<1>3. v \in asked[b][u]..upstream'[u]
  BY <1>1, <1>2
<1> QED
  BY <1>1, <1>3 DEF FreshSince

\* A step that leaves a builder's run alone, and the lists of its listing that are
\* still there with their tags and domains.
LEMMA OthersRun ==
  ASSUME Known, TypeOK', Forward, NEW b \in Builder,
         UNCHANGED <<pc[b], listing[b], todo[b], got[b], asked[b], failed[b]>>,
         \A i \in DOMAIN adlist' : i \in DOMAIN listing[b] =>
            /\ i \in DOMAIN adlist /\ adlist'[i].etag = adlist[i].etag
            /\ adlist'[i].address = adlist[i].address /\ DomainsOf(i)' = DomainsOf(i)
  PROVE  RunOf(b)'
<1>0. RunOf(b) /\ todo[b] \subseteq DOMAIN listing[b]
  BY DEF Known, OneRunInv, TypeOK
<1>1. \A u \in Address : asked'[b][u] <= upstream'[u]
  BY <1>0, AskedForward DEF Known, RunOf
<1>2. ASSUME pc[b] \in {"store", "meta"}
      PROVE  /\ got'[b].tag \in {NoEtag, got'[b].version}
             /\ asked'[b][Row(b)'.address] <= got'[b].version
             /\ got'[b].version <= upstream'[Row(b)'.address]
             /\ Current(b)' \in DOMAIN adlist' /\ adlist'[Current(b)'].etag # NoEtag
                   => adlist'[Current(b)'].etag <= got'[b].version
             /\ pc'[b] = "meta" /\ Current(b)' \in DOMAIN adlist'
                   => DomainsOf(Current(b))' = Body(b)'
  <2>1. Current(b)' = Current(b) /\ Row(b)' = Row(b) /\ Body(b)' = Body(b)
    BY DEF Current, Row, Body
  <2>2. Current(b) \in todo[b] /\ Row(b).address \in Address
    BY <1>2, CurrentIn DEF Known, TypeOK
  <2>3. got[b].version <= upstream'[Row(b).address]
    BY <1>0, <1>2, <2>2, NumberFacts DEF Known, RunOf, Forward, TypeOK, Version
  <2>4. Current(b) \in DOMAIN adlist' => DomainsOf(Current(b))' = DomainsOf(Current(b))
    BY <1>0, <2>1, <2>2 DEF DomainsOf
  <2> QED
    BY <1>0, <1>2, <2>1, <2>2, <2>3, <2>4 DEF RunOf
<1>3. ASSUME NEW i \in Refreshed(b)' \ todo'[b] PROVE FreshSince(b, i)'
  <2>1. i \in Refreshed(b) \ todo[b] /\ i \in DOMAIN adlist /\ i \in DOMAIN adlist'
        /\ i \in DOMAIN listing[b]
    BY DEF Refreshed
  <2>2. FreshSince(b, i) /\ adlist[i].address \in Address
    BY <1>0, <2>1, ListFacts DEF RunOf, Known
  <2> QED
    BY <2>1, <2>2, FreshKept DEF Known
<1> QED
  BY <1>0, <1>1, <1>2, <1>3 DEF RunOf

\* What a step other than the end of a list does to the tags: a list keeps its own,
\* a new one has none.
TagsKept ==
    \A i \in DOMAIN adlist' :
        \/ i > adlistSeq /\ adlist'[i].etag = NoEtag
        \/ i \in DOMAIN adlist /\ adlist'[i].etag = adlist[i].etag

LEMMA NewTag ==
  ASSUME DBInv, NEW u \in Address, AddAdlist(u, AdlistBlock)
  PROVE  TagsKept
<1>1. /\ DOMAIN adlist' = (DOMAIN adlist) \cup {adlistSeq + 1}
      /\ \A i \in DOMAIN adlist : i # adlistSeq + 1 => adlist'[i] = adlist[i]
      /\ adlist'[adlistSeq + 1].etag = NoEtag
  BY DEF AddAdlist, NextAdlistId, Inserted
<1>2. adlistSeq \in Nat
  BY GravityDBAssumption DEF DBInv, DBTypeOK
<1> QED
  BY <1>1, <1>2 DEF TagsKept

\* UpdateAdlistMeta writes one row: its address stays, its tag is the one given.
LEMMA MetaRow ==
  ASSUME DBInv, NEW k \in Id, NEW s \in Status, NEW e \in Etag \cup {NoEtag},
         UpdateAdlistMeta(k, s, e), NEW i \in DOMAIN adlist'
  PROVE  /\ i \in DOMAIN adlist /\ adlist'[i].address = adlist[i].address
         /\ adlist'[i].etag = IF i = k THEN e ELSE adlist[i].etag
<1>1. /\ i \in DOMAIN adlist
      /\ adlist'[i] = IF i = k THEN WithMeta(adlist[i], s, e) ELSE adlist[i]
  BY DEF UpdateAdlistMeta
<1>2. adlist[i] \in Adlist
  BY <1>1, ListFacts
<1>3. WithMeta(adlist[i], s, e).address = adlist[i].address
  BY <1>2, WithMetaKeeps
<1>4. WithMeta(adlist[i], s, e).etag = e
  BY <1>2 DEF WithMeta, Adlist
<1> QED
  BY <1>1, <1>3, <1>4

LEMMA TagsStep ==
  ASSUME Known, [Next]_vars
  PROVE  TagsKept \/ \E b \in Builder : StoreMeta(b)
<1>0. DBInv /\ TypeOK /\ \A b \in Builder : RunOf(b)
  BY DEF Known, OneRunInv
<1>1. ASSUME UNCHANGED adlist PROVE TagsKept
  BY <1>1 DEF TagsKept
<1>2. CASE (\E u \in Default : Seed(u)) \/ (\E u \in Address : UserAdds(u))
  BY <1>0, <1>2, NewTag, GravityUpdateAssumption DEF Seed, UserAdds
<1>3. ASSUME NEW i \in Id, UserRemoves(i) PROVE TagsKept
  BY <1>3 DEF UserRemoves, RemoveAdlist, Deleted, TagsKept
<1>4. ASSUME NEW i \in Id, NEW on \in BOOLEAN, UserSwitches(i, on) PROVE TagsKept
  <2>1. /\ DOMAIN adlist' = DOMAIN adlist
        /\ \A j \in DOMAIN adlist :
              adlist'[j] = IF j = i THEN [adlist[j] EXCEPT !.enabled = on] ELSE adlist[j]
    BY <1>4 DEF UserSwitches, SetAdlistEnabled
  <2>2. \A j \in DOMAIN adlist : adlist[j] \in Adlist
    BY <1>0, ListFacts
  <2>3. \A j \in DOMAIN adlist : [adlist[j] EXCEPT !.enabled = on].etag = adlist[j].etag
    BY <2>2 DEF Adlist
  <2> QED
    BY <2>1, <2>3 DEF TagsKept
<1>5. ASSUME NEW b \in Builder, FetchFails(b) PROVE TagsKept
  <2>1. todo[b] # {} /\ (UpdateAdlistMeta(Current(b), "error", Row(b).etag) \/ UNCHANGED dbVars)
    BY <1>5 DEF FetchFails, AtList
  <2>2. CASE UNCHANGED dbVars
    BY <1>1, <2>2 DEF dbVars, adlistVars
  <2>3. CASE UpdateAdlistMeta(Current(b), "error", Row(b).etag)
    <3>1. Current(b) \in Id /\ Row(b).etag \in Etag \cup {NoEtag} /\ Current(b) \in todo[b]
      BY <1>0, <2>1, CurrentIn
    <3>2. "error" \in Status
      BY DEF Status
    <3>3. \A i \in DOMAIN adlist' :
            /\ i \in DOMAIN adlist
            /\ adlist'[i].etag = IF i = Current(b) THEN Row(b).etag ELSE adlist[i].etag
      BY <1>0, <2>3, <3>1, <3>2, MetaRow
    <3>4. Current(b) \in DOMAIN adlist => adlist[Current(b)].etag = Row(b).etag
      BY <1>0, <3>1 DEF RunOf, Row
    <3> QED
      BY <3>3, <3>4 DEF TagsKept
  <2> QED
    BY <2>1, <2>2, <2>3
<1>6. ASSUME NEW b \in Builder, BeginRun(b) \/ Run(b)
      PROVE  UNCHANGED adlist \/ FetchFails(b) \/ StoreMeta(b)
  BY <1>6 DEF BeginRun, Run, SkipDisabled, FetchNotModified, FetchBody, StoreDomains,
     StoreFails, StoreMetaFails, EndRun, ReplaceGravityDomains, dbVars, adlistVars
<1> QED
  BY <1>1, <1>2, <1>3, <1>4, <1>5, <1>6 DEF Next, vars, Publish, Restart, dbVars, adlistVars

LEMMA CurrentStep ==
  ASSUME Known, [Next]_vars, DBInv', TypeOK'
  PROVE  Etags' /\ UnchangedMeansCurrent'
<1>0. /\ DBInv /\ TypeOK /\ VersionInv /\ (\A b \in Builder : RunOf(b))
      /\ Etags /\ UnchangedMeansCurrent /\ ListsKept /\ Forward
  BY UpdateIsDBNext, ListsStep, ForwardStep DEF Known, OneRunInv
<1>1. /\ \A u \in Address : /\ upstream[u] \in Version /\ upstream'[u] \in Version
                            /\ upstream[u] <= upstream'[u] /\ upstream'[u] # NoEtag
      /\ Version \subseteq Nat /\ NoEtag \notin Version
      /\ adlistSeq \in Nat /\ DOMAIN adlist \subseteq 1..adlistSeq
  BY <1>0, GravityDBAssumption, GravityUpdateAssumption
     DEF TypeOK, Version, Forward, DBInv, DBTypeOK
<1> SUFFICES ASSUME NEW i \in DOMAIN adlist'
             PROVE  LET u == adlist'[i].address IN
                    /\ adlist'[i].etag # NoEtag => adlist'[i].etag <= upstream'[u]
                    /\ adlist'[i].etag = upstream'[u] => DomainsOf(i)' = Corpus[u][upstream'[u]]
  BY DEF Etags, UnchangedMeansCurrent
<1> DEFINE u == adlist'[i].address
<1>2. u \in Address
  <2>1. adlist'[i] \in Adlist
    BY DEF DBInv, DBTypeOK
  <2> QED
    BY <2>1 DEF Adlist
<1>3. ASSUME adlist'[i].etag = NoEtag PROVE adlist'[i].etag # upstream'[u]
  BY <1>1, <1>2, <1>3
<1>4. ASSUME i \in DOMAIN adlist, adlist[i].address = u,
             adlist'[i].etag = adlist[i].etag, adlist[i].etag # NoEtag
      PROVE  /\ adlist'[i].etag <= upstream'[u]
             /\ adlist'[i].etag = upstream'[u]
                   => upstream'[u] = upstream[u] /\ DomainsOf(i) = Corpus[u][upstream[u]]
  <2>1. adlist[i].etag \in Version
    BY <1>0, <1>4, ListFacts
  <2>2. adlist[i].etag <= upstream[u]
    BY <1>0, <1>4 DEF Etags
  <2>3. upstream[u] <= upstream'[u] /\ upstream[u] \in Nat /\ upstream'[u] \in Nat
        /\ adlist[i].etag \in Nat
    BY <1>1, <1>2, <2>1
  <2>4. adlist[i].etag = upstream'[u] => adlist[i].etag = upstream[u]
    BY <2>2, <2>3
  <2> QED
    BY <1>0, <1>4, <2>2, <2>3, <2>4 DEF UnchangedMeansCurrent
<1>5. CASE TagsKept
  <2> SUFFICES ASSUME adlist'[i].etag # NoEtag
               PROVE  /\ adlist'[i].etag <= upstream'[u]
                      /\ adlist'[i].etag = upstream'[u] => DomainsOf(i)' = Corpus[u][upstream'[u]]
    BY <1>3
  <2>1. i \in DOMAIN adlist /\ adlist'[i].etag = adlist[i].etag /\ adlist[i].address = u
    <3>1. i \in DOMAIN adlist /\ adlist'[i].etag = adlist[i].etag
      BY <1>5 DEF TagsKept
    <3>2. ~(i > adlistSeq)
      BY <1>1, <3>1
    <3> QED
      BY <1>0, <3>1, <3>2 DEF ListsKept
  <2>2. CASE DomainsOf(i)' = DomainsOf(i)
    BY <1>4, <2>1, <2>2
  <2>3. ASSUME NEW b \in Builder, StoreDomains(b), i = Current(b)
        PROVE  adlist'[i].etag = upstream'[u] => DomainsOf(i)' = Corpus[u][upstream'[u]]
    <3>1. DomainsOf(i)' = Corpus[Row(b).address][got[b].version] /\ pc[b] = "store"
          /\ upstream' = upstream /\ todo[b] # {}
      BY <1>0, <2>3, StoredDomains DEF Body, StoreDomains, TypeOK
    <3>2. Row(b).address = u
      BY <1>0, <2>1, <2>3, <3>1, CurrentIn DEF VersionInv, Held, Row
    <3>3. got[b].version <= upstream[u] /\ adlist[i].etag <= got[b].version
      BY <1>0, <2>1, <2>3, <3>1, <3>2 DEF RunOf
    <3>4. got[b].version \in Nat /\ upstream[u] \in Nat
      BY <1>0, <1>1, <1>2, NumberFacts
    <3> QED
      BY <2>1, <3>1, <3>2, <3>3, <3>4
  <2>4. \/ DomainsOf(i)' = DomainsOf(i)
        \/ \E b \in Builder : StoreDomains(b) /\ i = Current(b)
    <3>1. CASE UNCHANGED gravity
      BY <3>1 DEF DomainsOf
    <3>2. ASSUME NEW k \in Id, UserRemoves(k) PROVE DomainsOf(i)' = DomainsOf(i)
      BY <3>2, RemovedDomains
    <3>3. ASSUME NEW b \in Builder, StoreDomains(b), i # Current(b)
          PROVE  DomainsOf(i)' = DomainsOf(i)
      BY <3>3, StoredDomains
    <3> QED
      BY <3>1, <3>2, <3>3, DomainsStep
  <2> QED
    BY <1>4, <2>1, <2>2, <2>3, <2>4
<1>6. ASSUME NEW b \in Builder, StoreMeta(b)
      PROVE  /\ adlist'[i].etag # NoEtag => adlist'[i].etag <= upstream'[u]
             /\ adlist'[i].etag = upstream'[u] => DomainsOf(i)' = Corpus[u][upstream'[u]]
  <2>1. /\ pc[b] = "meta" /\ todo[b] # {} /\ upstream' = upstream
        /\ UpdateAdlistMeta(Current(b), "ok", got[b].tag) /\ gravity' = gravity
    BY <1>0, <1>6 DEF StoreMeta, TypeOK, UpdateAdlistMeta
  <2>2. Current(b) \in Id /\ got[b].tag \in Etag \cup {NoEtag} /\ "ok" \in Status
    BY <1>0, <2>1, CurrentIn, NumberFacts, GravityUpdateAssumption DEF Status
  <2>3. /\ i \in DOMAIN adlist /\ adlist[i].address = u
        /\ adlist'[i].etag = IF i = Current(b) THEN got[b].tag ELSE adlist[i].etag
    BY <1>0, <2>1, <2>2, MetaRow
  <2>4. DomainsOf(i)' = DomainsOf(i)
    BY <2>1 DEF DomainsOf
  <2>5. CASE i # Current(b)
    BY <1>3, <1>4, <2>3, <2>4, <2>5
  <2>6. CASE i = Current(b)
    <3>1. got[b].tag \in {NoEtag, got[b].version} /\ got[b].version <= upstream[Row(b).address]
          /\ DomainsOf(i) = Corpus[Row(b).address][got[b].version]
      BY <1>0, <2>1, <2>3, <2>6 DEF RunOf, Body
    <3>2. Row(b).address = u
      BY <1>0, <2>1, <2>3, <2>6, CurrentIn DEF VersionInv, Held, Row
    <3> QED
      BY <1>1, <1>2, <2>1, <2>3, <2>4, <2>6, <3>1, <3>2
  <2> QED
    BY <2>5, <2>6
<1> QED
  BY <1>0, <1>5, <1>6, TagsStep

\* A step of one builder finds the others idle and leaves them alone.
LEMMA ActorFrame ==
  ASSUME Known, OneAtATime, NEW b \in Builder, BeginRun(b) \/ Run(b)
  PROVE  \A c \in Builder : c # b =>
            /\ pc[c] = "idle"
            /\ UNCHANGED <<pc[c], listing[c], todo[c], got[c], asked[c], failed[c]>>
<1>0. Alone /\ DOMAIN listing = Builder /\ DOMAIN todo = Builder /\ DOMAIN pc = Builder
      /\ DOMAIN got = Builder /\ DOMAIN asked = Builder /\ DOMAIN failed = Builder
  BY DEF Known, OneRunInv, TypeOK
<1> SUFFICES ASSUME NEW c \in Builder, c # b
             PROVE  /\ pc[c] = "idle"
                    /\ UNCHANGED <<pc[c], listing[c], todo[c], got[c], asked[c], failed[c]>>
  OBVIOUS
<1>1. CASE BeginRun(b)
  <2>1. pc[c] = "idle"
    <3>1. CASE b = Main
      BY <1>0, <1>1, <3>1, GravityUpdateAssumption DEF BeginRun, Alone
    <3>2. CASE b # Main
      BY <1>1, <3>2 DEF BeginRun, Builder, OneAtATime, Serving
    <3> QED
      BY <3>1, <3>2
  <2> QED
    BY <1>0, <1>1, <2>1 DEF BeginRun
<1>2. CASE Run(b)
  <2>1. pc[b] \in {"next", "store", "meta"}
    BY <1>2 DEF Run, SkipDisabled, FetchFails, FetchNotModified, FetchBody, StoreDomains,
       StoreFails, StoreMeta, StoreMetaFails, EndRun, AtList
  <2>2. pc[c] = "idle"
    BY <1>0, <2>1 DEF Alone
  <2> QED
    BY <1>0, <1>2, <2>2 DEF Run, SkipDisabled, FetchFails, FetchNotModified, FetchBody, StoreDomains,
       StoreFails, StoreMeta, StoreMetaFails, EndRun, Continue, GiveUp, Forget, history
<1> QED
  BY <1>1, <1>2

\* The end of a list: it is reported, disabled, gone or fresh.
LEMMA ContinueRun ==
  ASSUME Known, TypeOK', NEW b \in Builder, todo[b] # {}, Continue(b),
         UNCHANGED <<upstream, listing, asked, gravity>>, failed[b] \subseteq failed'[b],
         \A i \in DOMAIN adlist' :
            /\ i \in DOMAIN adlist /\ adlist'[i].address = adlist[i].address
            /\ i # Current(b) => adlist'[i].etag = adlist[i].etag,
         Current(b) \in Refreshed(b)' => FreshSince(b, Current(b))
  PROVE  RunOf(b)'
<1>0. RunOf(b) /\ TypeOK /\ Forward /\ Current(b) \in todo[b]
      /\ pc'[b] = "next" /\ todo'[b] = todo[b] \ {Current(b)}
  <2>1. Forward
    BY NumberFacts DEF Forward, Known
  <2>2. pc'[b] = "next" /\ todo'[b] = todo[b] \ {Current(b)}
    BY DEF Known, Continue, TypeOK
  <2> QED
    BY <2>1, <2>2, CurrentIn DEF Known, OneRunInv
<1>1. \A u \in Address : asked'[b][u] <= upstream'[u]
  BY <1>0, AskedForward DEF RunOf
<1>2. \A i \in todo'[b] : i \in DOMAIN adlist' => adlist'[i].etag = listing'[b][i].etag
  BY <1>0 DEF RunOf
<1>3. ASSUME NEW i \in Refreshed(b)' \ todo'[b] PROVE FreshSince(b, i)'
  <2>1. i \in DOMAIN adlist' /\ i \in DOMAIN adlist /\ i \in DOMAIN listing[b]
        /\ listing[b][i].enabled /\ i \notin failed[b]
    BY DEF Refreshed
  <2>2. FreshSince(b, i)
    <3>1. CASE i = Current(b)
      BY <1>3, <3>1
    <3>2. CASE i # Current(b)
      BY <1>0, <1>3, <2>1, <3>2 DEF Refreshed, RunOf
    <3> QED
      BY <3>1, <3>2
  <2>3. adlist[i].address \in Address /\ DomainsOf(i)' = DomainsOf(i)
    BY <2>1, ListFacts DEF DomainsOf, Known
  <2> QED
    BY <1>0, <2>1, <2>2, <2>3, FreshKept
<1> QED
  BY <1>0, <1>1, <1>2, <1>3 DEF RunOf

\* A builder that is through with a list left it reported, disabled, gone or fresh.
LEMMA EndOfList ==
  ASSUME Known, TypeOK', NEW b \in Builder,
         \/ SkipDisabled(b) \/ FetchFails(b) \/ FetchNotModified(b)
         \/ StoreFails(b) \/ StoreMeta(b) \/ StoreMetaFails(b)
  PROVE  RunOf(b)'
<1> DEFINE k == Current(b)
           u == Row(b).address
<1>0. DBInv /\ TypeOK /\ RunOf(b) /\ Held(b) /\ UnchangedMeansCurrent
  BY DEF Known, OneRunInv, VersionInv
<1>1. todo[b] # {}
  BY <1>0 DEF SkipDisabled, FetchFails, FetchNotModified, StoreFails, StoreMeta, StoreMetaFails,
     AtList, TypeOK
<1>2. /\ k \in todo[b] /\ k \in Id /\ k \in DOMAIN listing[b]
      /\ u \in Address /\ Row(b).etag \in Etag \cup {NoEtag}
  BY <1>0, <1>1, CurrentIn
<1>3. k \in DOMAIN adlist => adlist[k].address = u
  BY <1>0, <1>2 DEF Held, Row
<1>4. ASSUME NEW v \in Nat, asked[b][u] <= v, v <= upstream[u],
             k \in DOMAIN adlist => DomainsOf(k) = Corpus[u][v]
      PROVE  k \in DOMAIN adlist => FreshSince(b, k)
  <2>1. v \in asked[b][u]..upstream[u]
    BY <1>0, <1>2, <1>4, NumberFacts
  <2> QED
    BY <1>3, <1>4, <2>1 DEF FreshSince
<1>5. ASSUME GiveUp(b) PROVE Continue(b) /\ failed[b] \subseteq failed'[b] /\ k \notin Refreshed(b)'
  <2>1. Continue(b) /\ failed'[b] = failed[b] \cup {k}
    BY <1>0, <1>5 DEF GiveUp, TypeOK
  <2> QED
    BY <2>1 DEF Refreshed
<1>6. ASSUME UNCHANGED <<dbVars, upstream, listing, asked>>, Continue(b), failed[b] \subseteq failed'[b],
             k \in Refreshed(b)' => FreshSince(b, k)
      PROVE  RunOf(b)'
  BY <1>1, <1>6, ContinueRun DEF dbVars, adlistVars
<1>7. ASSUME NEW s \in Status, NEW e \in Etag \cup {NoEtag}, UpdateAdlistMeta(k, s, e),
             UNCHANGED <<upstream, listing, asked>>, Continue(b), failed[b] \subseteq failed'[b],
             k \in Refreshed(b)' => FreshSince(b, k)
      PROVE  RunOf(b)'
  <2>1. gravity' = gravity
    BY <1>7 DEF UpdateAdlistMeta
  <2>2. \A i \in DOMAIN adlist' : /\ i \in DOMAIN adlist /\ adlist'[i].address = adlist[i].address
                                  /\ i # k => adlist'[i].etag = adlist[i].etag
    BY <1>0, <1>2, <1>7, MetaRow
  <2> QED
    BY <1>1, <1>7, <2>1, <2>2, ContinueRun
<1>8. CASE SkipDisabled(b)
  <2>1. k \notin Refreshed(b)'
    BY <1>8 DEF SkipDisabled, Refreshed, Row
  <2> QED
    BY <1>6, <1>8, <2>1 DEF SkipDisabled, history
<1>9. CASE FetchFails(b)
  <2>1. CASE UNCHANGED dbVars
    BY <1>5, <1>6, <1>9, <2>1 DEF FetchFails
  <2>2. CASE UpdateAdlistMeta(k, "error", Row(b).etag)
    BY <1>2, <1>5, <1>7, <1>9, <2>2 DEF FetchFails, Status
  <2> QED
    BY <1>9, <2>1, <2>2 DEF FetchFails
<1>10. CASE FetchNotModified(b)
  <2>1. Row(b).etag = upstream[u]
    BY <1>10 DEF FetchNotModified
  <2>2. k \in DOMAIN adlist => DomainsOf(k) = Corpus[u][upstream[u]]
    <3> SUFFICES ASSUME k \in DOMAIN adlist PROVE DomainsOf(k) = Corpus[u][upstream[u]]
      OBVIOUS
    <3>1. adlist[k].etag = Row(b).etag
      BY <1>0, <1>2 DEF RunOf, Row
    <3> QED
      BY <1>0, <1>3, <2>1, <3>1 DEF UnchangedMeansCurrent
  <2>3. asked[b][u] <= upstream[u] /\ upstream[u] \in Nat /\ upstream[u] <= upstream[u]
    BY <1>0, <1>2, NumberFacts DEF RunOf
  <2>4. k \in Refreshed(b)' => FreshSince(b, k)
    <3>1. adlist' = adlist
      BY <1>10 DEF FetchNotModified, dbVars, adlistVars
    <3> QED
      BY <1>4, <2>2, <2>3, <3>1 DEF Refreshed
  <2> QED
    BY <1>6, <1>10, <2>4 DEF FetchNotModified, history
<1>11. CASE StoreFails(b) \/ StoreMetaFails(b)
  BY <1>5, <1>6, <1>11 DEF StoreFails, StoreMetaFails
<1>12. CASE StoreMeta(b)
  <2>1. got[b].tag \in Etag \cup {NoEtag} /\ got[b].version \in Nat /\ "ok" \in Status
    BY <1>0, NumberFacts, GravityUpdateAssumption DEF Status
  <2>2. /\ asked[b][u] <= got[b].version /\ got[b].version <= upstream[u]
        /\ k \in DOMAIN adlist => DomainsOf(k) = Corpus[u][got[b].version]
    BY <1>0, <1>12 DEF StoreMeta, RunOf, Body
  <2>3. k \in DOMAIN adlist' => k \in DOMAIN adlist
    BY <1>12 DEF StoreMeta, UpdateAdlistMeta
  <2>4. k \in Refreshed(b)' => FreshSince(b, k)
    BY <1>4, <2>1, <2>2, <2>3 DEF Refreshed
  <2> QED
    BY <1>7, <1>12, <2>1, <2>4 DEF StoreMeta, history
<1> QED
  BY <1>8, <1>9, <1>10, <1>11, <1>12

\* Every other step of a builder of its own.
LEMMA OwnRunStep ==
  ASSUME Known, TypeOK', NEW b \in Builder, BeginRun(b) \/ Run(b)
  PROVE  RunOf(b)'
<1>0. DBInv /\ TypeOK /\ RunOf(b) /\ Held(b) /\ Etags
  BY DEF Known, OneRunInv, VersionInv
<1>1. CASE BeginRun(b)
  <2>1. /\ pc'[b] = "next" /\ listing'[b] = adlist /\ todo'[b] = DOMAIN adlist
        /\ asked'[b] = upstream /\ adlist' = adlist /\ upstream' = upstream
    BY <1>0, <1>1 DEF BeginRun, TypeOK, dbVars, adlistVars
  <2>2. \A a \in Address : asked'[b][a] <= upstream'[a]
    BY <1>0, <2>1, NumberFacts
  <2>3. Refreshed(b)' \ todo'[b] = {}
    BY <2>1 DEF Refreshed
  <2> QED
    BY <2>1, <2>2, <2>3 DEF RunOf
<1>2. ASSUME NEW tag \in Etag \cup {NoEtag}, FetchBody(b, tag) PROVE RunOf(b)'
  <2> DEFINE k == Current(b)
             u == Row(b).address
  <2>1. /\ pc'[b] = "store" /\ got'[b] = [version |-> upstream[u], tag |-> tag]
        /\ tag \in {NoEtag, upstream[u]} /\ todo[b] # {}
        /\ UNCHANGED <<dbVars, upstream, listing, todo, asked, failed>>
    BY <1>0, <1>2 DEF FetchBody, AtList, TypeOK, history
  <2>2. k \in todo[b] /\ k \in DOMAIN listing[b] /\ u \in Address
    BY <1>0, <2>1, CurrentIn
  <2>3. Current(b)' = k /\ Row(b)' = Row(b) /\ adlist' = adlist /\ gravity' = gravity
    BY <2>1 DEF Current, Row, dbVars, adlistVars
  <2>4. upstream[u] \in Nat /\ asked[b][u] <= upstream[u] /\ upstream[u] <= upstream[u]
    BY <1>0, <2>2, NumberFacts DEF RunOf
  <2>5. k \in DOMAIN adlist /\ adlist[k].etag # NoEtag => adlist[k].etag <= upstream[u]
    BY <1>0, <2>2 DEF Etags, Held, Row
  <2>6. Refreshed(b)' = Refreshed(b) /\ \A i \in Refreshed(b) : FreshSince(b, i)' = FreshSince(b, i)
    BY <2>1, <2>3 DEF Refreshed, FreshSince, DomainsOf
  <2> QED
    BY <1>0, <2>1, <2>3, <2>4, <2>5, <2>6 DEF RunOf
<1>3. CASE StoreDomains(b)
  <2> DEFINE k == Current(b)
             u == Row(b).address
  <2>1. /\ pc[b] = "store" /\ pc'[b] = "meta" /\ todo[b] # {} /\ adlist' = adlist
        /\ UNCHANGED <<upstream, listing, todo, got, asked, failed>>
    BY <1>0, <1>3 DEF StoreDomains, ReplaceGravityDomains, TypeOK, history
  <2>2. k \in todo[b]
    BY <1>0, <2>1, CurrentIn
  <2>3. Current(b)' = k /\ Row(b)' = Row(b) /\ Body(b)' = Body(b)
    BY <2>1 DEF Current, Row, Body
  <2>4. DomainsOf(k)' = Body(b) /\ \A i \in Refreshed(b) \ todo[b] : DomainsOf(i)' = DomainsOf(i)
    <3>1. \A i : DomainsOf(i)' = IF i = k THEN Body(b) ELSE DomainsOf(i)
      BY <1>3, StoredDomains
    <3>2. DomainsOf(k)' = Body(b)
      BY <2>3, <3>1
    <3> QED
      BY <2>2, <3>1, <3>2
  <2>5. Refreshed(b)' = Refreshed(b)
    BY <2>1 DEF Refreshed
  <2>6. \A i \in Refreshed(b) \ todo[b] : FreshSince(b, i)'
    BY <1>0, <2>1, <2>4 DEF RunOf, FreshSince
  <2> QED
    BY <1>0, <2>1, <2>3, <2>4, <2>5, <2>6 DEF RunOf
<1>4. CASE EndRun(b)
  <2>1. pc'[b] = "idle" /\ listing'[b] = NoListing /\ asked'[b] = FirstVersions /\ upstream' = upstream
    BY <1>0, <1>4 DEF EndRun, Forget, TypeOK
  <2>2. DOMAIN listing'[b] = {}
    BY <2>1 DEF NoListing
  <2>3. \A a \in Address : asked'[b][a] <= upstream'[a]
    BY <1>0, <2>1, NumberFacts DEF FirstVersions
  <2> QED
    BY <2>1, <2>2, <2>3, IdleRun
<1> QED
  BY <1>1, <1>2, <1>3, <1>4, EndOfList DEF Run

\* Steps of the user, of the upstreams and of the process leave every run as good
\* as it was.
LEMMA EnvironmentRuns ==
  ASSUME Known, TypeOK', NEW b \in Builder,
         \/ UNCHANGED vars \/ (\E u \in Default : Seed(u)) \/ (\E u \in Address : UserAdds(u))
         \/ (\E i \in Id : UserRemoves(i)) \/ (\E i \in Id, on \in BOOLEAN : UserSwitches(i, on))
         \/ (\E u \in Address : Publish(u)) \/ Restart
  PROVE  RunOf(b)'
<1>0. DBInv /\ TypeOK /\ [Next]_vars /\ DOMAIN listing[b] \subseteq 1..adlistSeq
  <2>1. DBInv /\ TypeOK
    BY DEF Known
  <2>2. DOMAIN listing[b] \subseteq 1..adlistSeq
    BY <2>1 DEF TypeOK
  <2> QED
    BY <2>1, <2>2 DEF Next
<1>1. ListsKept /\ Forward /\ adlistSeq \in Nat
  BY <1>0, UpdateIsDBNext, ListsStep, ForwardStep, GravityDBAssumption DEF DBInv, DBTypeOK
<1>2. CASE Restart
  <2>1. pc'[b] \in {"idle", "seeding"} /\ DOMAIN listing'[b] = {}
        /\ asked'[b] = FirstVersions /\ upstream' = upstream
    BY <1>2 DEF Restart, Booting, NoListings, NoListing, NothingAsked
  <2>2. \A a \in Address : asked'[b][a] <= upstream'[a]
    BY <1>0, <2>1, NumberFacts DEF FirstVersions
  <2> QED
    BY <2>1, <2>2, IdleRun
<1>3. ASSUME UNCHANGED <<runVars, history>>, TagsKept,
             UNCHANGED gravity \/ \E i \in Id : UserRemoves(i)
      PROVE  RunOf(b)'
  <2>1. UNCHANGED <<pc[b], listing[b], todo[b], got[b], asked[b], failed[b]>>
    BY <1>3 DEF runVars, history
  <2>2. ASSUME NEW i \in DOMAIN adlist', i \in DOMAIN listing[b]
        PROVE  /\ i \in DOMAIN adlist /\ adlist'[i].etag = adlist[i].etag
               /\ adlist'[i].address = adlist[i].address /\ DomainsOf(i)' = DomainsOf(i)
    <3>1. ~(i > adlistSeq)
      BY <1>0, <1>1, <2>2
    <3>2. CASE UNCHANGED gravity
      BY <3>2, <1>1, <1>3, <3>1 DEF ListsKept, TagsKept, DomainsOf
    <3>3. ASSUME NEW j \in Id, UserRemoves(j) PROVE DomainsOf(i)' = DomainsOf(i)
      BY <3>3, RemovedDomains
    <3>4. CASE \E j \in Id : UserRemoves(j)
      BY <1>1, <1>3, <3>1, <3>3, <3>4 DEF ListsKept, TagsKept
    <3> QED
      BY <1>3, <3>2, <3>4
  <2> QED
    BY <1>1, <2>1, <2>2, OthersRun
<1>4. CASE \/ UNCHANGED vars \/ (\E u \in Default : Seed(u)) \/ (\E u \in Address : UserAdds(u))
           \/ (\E i \in Id : UserRemoves(i)) \/ (\E i \in Id, on \in BOOLEAN : UserSwitches(i, on))
           \/ (\E u \in Address : Publish(u))
  <2>1. UNCHANGED <<runVars, history>>
    BY <1>4 DEF vars, Seed, UserAdds, UserRemoves, UserSwitches, Publish
  <2>2. UNCHANGED gravity \/ \E i \in Id : UserRemoves(i)
    BY <1>4 DEF vars, Seed, UserAdds, UserSwitches, Publish, AddAdlist, SetAdlistEnabled,
       dbVars, adlistVars
  <2>3. ASSUME NEW c \in Builder, StoreMeta(c) PROVE FALSE
    BY <2>1, <2>3 DEF StoreMeta, Continue, TypeOK, runVars, Known
  <2> QED
    BY <1>0, <1>3, <2>1, <2>2, <2>3, TagsStep
<1> QED
  BY <1>2, <1>4

LEMMA AloneStep ==
  ASSUME Known, OneAtATime, [Next]_vars
  PROVE  Alone'
<1>0. Alone /\ TypeOK
  BY DEF Known, OneRunInv
<1>1. ASSUME UNCHANGED pc PROVE Alone'
  BY <1>0, <1>1 DEF Alone
<1>2. ASSUME NEW b \in Builder, BeginRun(b) \/ Run(b) PROVE Alone'
  <2>1. \A c \in Builder : c # b => pc'[c] = "idle"
    BY <1>2, ActorFrame
  <2> QED
    BY <2>1 DEF Alone
<1>3. CASE Restart
  BY <1>3 DEF Restart, Booting, Alone
<1> QED
  BY <1>1, <1>2, <1>3 DEF Next, vars, Seed, UserAdds, UserRemoves, UserSwitches, Publish, runVars

LEMMA OneRunStep ==
  ASSUME Known, OneAtATime, [Next]_vars, DBInv', TypeOK'
  PROVE  OneRunInv'
<1>1. ASSUME NEW b \in Builder, NEW c \in Builder, c # b, BeginRun(b) \/ Run(b)
      PROVE  RunOf(c)'
  <2>1. /\ pc'[c] = "idle" /\ listing'[c] = listing[c] /\ pc[c] = "idle" /\ asked'[c] = asked[c]
    BY <1>1, ActorFrame
  <2>2. DOMAIN listing'[c] = {} /\ \A u \in Address : asked[c][u] <= upstream[u]
    BY <2>1 DEF Known, OneRunInv, RunOf
  <2>3. \A u \in Address : asked'[c][u] <= upstream'[u]
    BY <2>1, <2>2, ForwardStep, AskedForward DEF Known
  <2> QED
    BY <2>1, <2>2, <2>3, IdleRun
<1>2. ASSUME NEW b \in Builder, NEW c \in Builder, BeginRun(b) \/ Run(b) PROVE RunOf(c)'
  <2>1. CASE c = b
    BY <1>2, <2>1, OwnRunStep
  <2> QED
    BY <1>1, <1>2, <2>1
<1>3. \A b \in Builder : RunOf(b)'
  BY <1>2, EnvironmentRuns DEF Next
<1> QED
  BY <1>3, AloneStep, CurrentStep DEF OneRunInv

LEMMA OneRunInvariant ==
  ASSUME OneAtATime
  PROVE  Spec => []Known
<1>1. Init => Known
  BY TypesInit, VersionInit, OneRunInit DEF Known
<1>2. Known /\ [Next]_vars => Known'
  <2> SUFFICES ASSUME Known, [Next]_vars PROVE Known'
    OBVIOUS
  <2>0. DBInv /\ TypeOK /\ VersionInv
    BY DEF Known
  <2>1. DBInv' /\ TypeOK'
    BY <2>0, UpdateIsDBNext, NextInv, TypesNext
  <2>2. VersionInv'
    BY <2>0, <2>1, HeldStep, VersionStep DEF VersionInv
  <2> QED
    BY <2>1, <2>2, OneRunStep DEF Known
<1> QED
  BY <1>1, <1>2, PTL DEF Spec

\* With one run at a time, a list that would be answered "not modified" has the
\* domains of what its upstream publishes, wherever a run failed or died.
THEOREM CurrentTheorem ==
  ASSUME OneAtATime
  PROVE  Spec => []UnchangedMeansCurrent
<1>1. Known => UnchangedMeansCurrent
  BY DEF Known, OneRunInv
<1> QED
  BY <1>1, OneRunInvariant, PTL

\* With one run at a time, a run leaves what it did not report domains no older
\* than its start.
THEOREM RefreshTheorem ==
  ASSUME OneAtATime
  PROVE  Spec => RefreshIsCurrent
<1> DEFINE Ended ==
             \A b \in Builder : EndRun(b) =>
               \A i \in Refreshed(b) :
                  LET u == adlist[i].address IN
                  \E v \in asked[b][u]..upstream[u] : DomainsOf(i) = Corpus[u][v]
<1>1. Known => Ended
  BY DEF Known, OneRunInv, RunOf, FreshSince, EndRun
<1>2. RefreshIsCurrent <=> [][Ended]_vars
  BY DEF RefreshIsCurrent
<1> HIDE DEF Ended
<1>3. Known /\ [Next]_vars => [Ended]_vars
  BY <1>1
<1> QED
  BY <1>2, <1>3, OneRunInvariant, PTL DEF Spec

-----------------------------------------------------------------------------
(* How far a run has to go *)

\* Three steps for each list to come, save those a list has behind it, and the end.
RunLeft(b) ==
    CASE pc[b] = "next"  -> 3 * Cardinality(todo[b]) + 1
      [] pc[b] = "store" -> 3 * Cardinality(todo[b])
      [] pc[b] = "meta"  -> 3 * Cardinality(todo[b]) - 1
      [] OTHER           -> 0

Running(b) == pc[b] \in {"next", "store", "meta"}

RunsOn(b) ==
    \/ Run(b) /\ RunLeft(b)' < RunLeft(b) /\ RunLeft(b)' \in Nat
    \/ UNCHANGED RunLeft(b)

LEMMA FiniteTodo ==
  ASSUME DBInv, TypeOK, NEW b \in Builder
  PROVE  /\ IsFiniteSet(todo[b]) /\ Cardinality(todo[b]) \in Nat
         /\ todo[b] # {} => Cardinality(todo[b] \ {Current(b)}) = Cardinality(todo[b]) - 1
<1>1. IsFiniteSet(todo[b])
  <2>1. todo[b] \subseteq 1..adlistSeq /\ adlistSeq \in Int
    BY GravityDBAssumption DEF TypeOK, DBInv, DBTypeOK
  <2>2. IsFiniteSet(1..adlistSeq)
    BY <2>1, FS_Interval
  <2> QED
    BY <2>1, <2>2, FS_Subset
<1>2. Cardinality(todo[b]) \in Nat
  BY <1>1, FS_CardinalityType
<1>3. ASSUME todo[b] # {} PROVE Cardinality(todo[b] \ {Current(b)}) = Cardinality(todo[b]) - 1
  <2>1. Current(b) \in todo[b]
    BY <1>3, CurrentIn
  <2> QED
    BY <1>1, <2>1, FS_RemoveElement
<1> QED
  BY <1>1, <1>2, <1>3

RunLeftInNat == \A b \in Builder : RunLeft(b) \in Nat

LEMMA RunLeftType == DBInv /\ TypeOK => RunLeftInNat
<1> SUFFICES ASSUME DBInv, TypeOK, NEW b \in Builder PROVE RunLeft(b) \in Nat
  BY DEF RunLeftInNat
<1>1. Cardinality(todo[b]) \in Nat
  BY FiniteTodo
<1>2. pc[b] = "meta" => Cardinality(todo[b]) >= 1
  <2>1. ASSUME pc[b] = "meta", Cardinality(todo[b]) = 0 PROVE FALSE
    BY <2>1, FiniteTodo, FS_EmptySet DEF TypeOK
  <2> QED
    BY <1>1, <2>1
<1> QED
  BY <1>1, <1>2 DEF RunLeft

\* A step of its own takes a run on.
LEMMA RunStepsOn ==
  ASSUME DBInv, TypeOK, NEW b \in Builder, Run(b)
  PROVE  RunLeft(b)' < RunLeft(b)
<1>0. /\ b \in DOMAIN pc /\ b \in DOMAIN todo
      /\ Cardinality(todo[b]) \in Nat
      /\ todo[b] # {} => Cardinality(todo[b] \ {Current(b)}) = Cardinality(todo[b]) - 1
  BY FiniteTodo DEF TypeOK
<1>1. ASSUME Continue(b), Running(b), todo[b] # {} PROVE RunLeft(b)' < RunLeft(b)
  <2>1. pc'[b] = "next" /\ Cardinality(todo'[b]) = Cardinality(todo[b]) - 1
    BY <1>0, <1>1 DEF Continue
  <2>2. RunLeft(b)' = 3 * (Cardinality(todo[b]) - 1) + 1
    BY <2>1 DEF RunLeft
  <2>3. RunLeft(b) >= 3 * Cardinality(todo[b]) - 1
    BY <1>0, <1>1 DEF RunLeft, Running
  <2>4. RunLeft(b) \in Int
    BY <1>0 DEF RunLeft
  <2> QED
    BY <1>0, <2>2, <2>3, <2>4
<1>2. CASE SkipDisabled(b) \/ FetchFails(b) \/ FetchNotModified(b)
  BY <1>1, <1>2 DEF SkipDisabled, FetchFails, FetchNotModified, GiveUp, AtList, Running
<1>3. CASE StoreFails(b) \/ StoreMeta(b) \/ StoreMetaFails(b)
  <2>1. Running(b) /\ todo[b] # {} /\ Continue(b)
    BY <1>3 DEF StoreFails, StoreMeta, StoreMetaFails, GiveUp, Running, TypeOK
  <2> QED
    BY <1>1, <2>1
<1>4. ASSUME NEW tag \in Etag \cup {NoEtag}, FetchBody(b, tag) PROVE RunLeft(b)' < RunLeft(b)
  <2>1. pc[b] = "next" /\ pc'[b] = "store" /\ todo'[b] = todo[b]
    BY <1>0, <1>4 DEF FetchBody, AtList
  <2> QED
    BY <1>0, <2>1 DEF RunLeft
<1>5. CASE StoreDomains(b)
  <2>1. pc[b] = "store" /\ pc'[b] = "meta" /\ todo'[b] = todo[b]
    BY <1>0, <1>5 DEF StoreDomains
  <2> QED
    BY <1>0, <2>1 DEF RunLeft
<1>6. CASE EndRun(b)
  <2>1. pc[b] = "next" /\ pc'[b] = "idle"
    BY <1>0, <1>6 DEF EndRun
  <2> QED
    BY <1>0, <2>1 DEF RunLeft
<1> QED
  BY <1>2, <1>3, <1>4, <1>5, <1>6 DEF Run

\* Nobody but a restart takes a run out of its builder's hands.
LEMMA RunIsItsOwn ==
  ASSUME TypeOK, [Next]_vars, NEW b \in Builder, Running(b)
  PROVE  Restart \/ Run(b) \/ UNCHANGED <<pc[b], todo[b]>>
<1>0. DOMAIN pc = Builder /\ DOMAIN todo = Builder
  BY DEF TypeOK
<1>1. CASE UNCHANGED vars \/ (\E u \in Default : Seed(u)) \/ (\E u \in Address : UserAdds(u))
           \/ (\E i \in Id : UserRemoves(i)) \/ (\E i \in Id, on \in BOOLEAN : UserSwitches(i, on))
           \/ (\E u \in Address : Publish(u))
  BY <1>1 DEF vars, runVars, Seed, UserAdds, UserRemoves, UserSwitches, Publish
<1>2. ASSUME NEW c \in Builder, BeginRun(c) PROVE UNCHANGED <<pc[b], todo[b]>>
  <2>1. c # b
    BY <1>2 DEF BeginRun, Running
  <2> QED
    BY <1>0, <1>2, <2>1 DEF BeginRun
<1>3. ASSUME NEW c \in Builder, c # b, Run(c) PROVE UNCHANGED <<pc[b], todo[b]>>
  BY <1>0, <1>3 DEF Run, SkipDisabled, FetchFails, FetchNotModified, FetchBody, StoreDomains,
     StoreFails, StoreMeta, StoreMetaFails, EndRun, Continue, GiveUp, Forget
<1> QED
  BY <1>1, <1>2, <1>3 DEF Next

\* A run over n lists is through after 3n + 1 steps of its own at most, whatever the
\* user and the other runs do to the tables meanwhile: a list deleted, added or
\* switched, and a row deleted under its feet, neither lengthen it nor hold it up.
RunAdvances ==
    [][\A b \in Builder : Running(b) => Restart \/ RunsOn(b)]_vars

\* build.go:25 - the loop of Run over the lists it read has a bounded number of steps.
THEOREM RunStepsTheorem == Spec => RunAdvances
<1>1. DBInv /\ TypeOK /\ RunLeftInNat' /\ [Next]_vars
        => [\A b \in Builder : Running(b) => Restart \/ RunsOn(b)]_vars
  <2> SUFFICES ASSUME DBInv, TypeOK, RunLeftInNat', [Next]_vars, NEW b \in Builder, Running(b)
               PROVE  Restart \/ RunsOn(b)
    OBVIOUS
  <2>1. ASSUME UNCHANGED <<pc[b], todo[b]>> PROVE UNCHANGED RunLeft(b)
    BY <2>1 DEF RunLeft
  <2>2. RunLeft(b)' \in Nat
    BY DEF RunLeftInNat
  <2> QED
    BY <2>1, <2>2, RunStepsOn, RunIsItsOwn DEF RunsOn
<1> QED
  BY <1>1, UpdateTypes, RunLeftType, PTL DEF Spec, RunAdvances
=============================================================================
