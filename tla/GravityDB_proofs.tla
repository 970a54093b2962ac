-------------------------- MODULE GravityDB_proofs --------------------------
(***************************************************************************)
(* Proofs about GravityDB, for any set of domains, addresses, tags and     *)
(* group names and any bound on the ids.  The inductive invariant is       *)
(* DBInv: the types of the tables, which also say that no id is above its  *)
(* sequence (so a fresh id meets no row), and the three parts of           *)
(* DBIntegrity.  Each store method preserves it, and the initial database  *)
(* satisfies it.                                                           *)
(***************************************************************************)
EXTENDS GravityDB, TLAPS

USE DEF DefaultGroup, Id, AdlistBlock, AdlistAllow, AdlistType,
        TypeAllowExact, TypeDenyExact, TypeAllowRegex, TypeDenyRegex, DomainType,
        Status, Adlist, DomainEntry, Group, NewGroups

DBInv == DBTypeOK /\ DBIntegrity

\* The database as it is created satisfies the invariant.
LEMMA InitInv == DBInit => DBInv
  BY GravityDBAssumption
     DEF DBInit, DBInv, DBTypeOK, DBIntegrity, NoOrphans, Membership, UniqueKeys

\* A new entry keeps the invariant.
LEMMA AddDomainInv ==
  ASSUME DBInv, NEW d \in Domain, NEW t \in DomainType, AddDomain(d, t)
  PROVE  DBInv'
<1> DEFINE id == domainSeq + 1
           row == [domain |-> d, type |-> t, enabled |-> TRUE]
<1>0. /\ id \in 1..MaxId /\ domainSeq' = id
      /\ domainlist' = Inserted(domainlist, id, row)
      /\ domainlist_by_group' = domainlist_by_group \cup ({id} \X {0})
      /\ UNCHANGED <<adlist, gravity, adlist_by_group, adlistSeq, group, groupSeq>>
  BY DEF AddDomain, adlistVars, groupVars
<1>1. DBTypeOK'
  <2>1. DOMAIN domainlist' = (DOMAIN domainlist) \cup {id}
    BY <1>0 DEF Inserted
  <2>2. row \in DomainEntry
    OBVIOUS
  <2>3. \A j \in DOMAIN domainlist' : domainlist'[j] \in DomainEntry
    BY <1>0, <2>1, <2>2 DEF Inserted, DBInv, DBTypeOK
  <2>4. domainlist' \in [DOMAIN domainlist' -> DomainEntry]
    BY <1>0, <2>1, <2>3 DEF Inserted
  <2>5. DOMAIN domainlist' \subseteq 1..domainSeq' /\ domainSeq' \in 0..MaxId
    <3>1. DOMAIN domainlist \subseteq 1..domainSeq /\ domainSeq \in 0..MaxId
      BY DEF DBInv, DBTypeOK
    <3> QED
      BY <1>0, <2>1, <3>1, GravityDBAssumption
  <2> QED
    BY <1>0, <2>4, <2>5 DEF DBInv, DBTypeOK
<1>2. NoOrphans'
  BY <1>0 DEF DBInv, DBIntegrity, NoOrphans
<1>3. Membership'
  BY <1>0 DEF DBInv, DBIntegrity, Membership, Inserted
<1>4. UniqueKeys'
  <2>1. \A i \in DOMAIN domainlist :
           domainlist[i].domain # d \/ domainlist[i].type # t
    BY DEF AddDomain
  <2>2. \A j \in DOMAIN domainlist' :
           domainlist'[j] = IF j = id THEN row ELSE domainlist[j]
    BY <1>0 DEF Inserted
  <2>3. row.domain = d /\ row.type = t
    OBVIOUS
  <2> QED
    BY <1>0, <2>1, <2>2, <2>3 DEF DBInv, DBIntegrity, UniqueKeys, Inserted
<1> QED
  BY <1>1, <1>2, <1>3, <1>4 DEF DBInv, DBIntegrity

\* So does the removal of one, with its membership,
LEMMA RemoveDomainInv ==
  ASSUME DBInv, NEW i \in Id, RemoveDomain(i)
  PROVE  DBInv'
<1>0. /\ domainlist' = [j \in (DOMAIN domainlist) \ {i} |-> domainlist[j]]
      /\ domainlist_by_group' = {m \in domainlist_by_group : m[1] # i}
      /\ UNCHANGED <<domainSeq, adlist, gravity, adlist_by_group, adlistSeq, group, groupSeq>>
  BY DEF RemoveDomain, Deleted, adlistVars, groupVars
<1>1. DBTypeOK'
  BY <1>0 DEF DBInv, DBTypeOK
<1>2. NoOrphans'
  BY <1>0 DEF DBInv, DBIntegrity, NoOrphans
<1>3. Membership'
  BY <1>0 DEF DBInv, DBIntegrity, Membership
<1>4. UniqueKeys'
  BY <1>0 DEF DBInv, DBIntegrity, UniqueKeys
<1> QED
  BY <1>1, <1>2, <1>3, <1>4 DEF DBInv, DBIntegrity

\* switching one on or off,
LEMMA SetDomainEnabledInv ==
  ASSUME DBInv, NEW i \in Id, NEW on \in BOOLEAN, SetDomainEnabled(i, on)
  PROVE  DBInv'
<1>0. /\ domainlist' = [j \in DOMAIN domainlist |->
                        IF j = i THEN [domainlist[j] EXCEPT !.enabled = on]
                                 ELSE domainlist[j]]
      /\ UNCHANGED <<domainlist_by_group, domainSeq, adlist, gravity, adlist_by_group,
                     adlistSeq, group, groupSeq>>
  BY DEF SetDomainEnabled, adlistVars, groupVars
<1>a. \A j \in DOMAIN domainlist' :
        /\ j \in DOMAIN domainlist /\ domainlist'[j] \in DomainEntry
        /\ domainlist'[j].domain = domainlist[j].domain
        /\ domainlist'[j].type = domainlist[j].type
  BY <1>0 DEF DBInv, DBTypeOK
<1>1. DBTypeOK'
  BY <1>0, <1>a DEF DBInv, DBTypeOK
<1>2. NoOrphans'
  BY <1>0 DEF DBInv, DBIntegrity, NoOrphans
<1>3. Membership'
  BY <1>0 DEF DBInv, DBIntegrity, Membership
<1>4. UniqueKeys'
  BY <1>0, <1>a DEF DBInv, DBIntegrity, UniqueKeys
<1> QED
  BY <1>1, <1>2, <1>3, <1>4 DEF DBInv, DBIntegrity

\* a new list,
LEMMA AddAdlistInv ==
  ASSUME DBInv, NEW u \in Address, NEW t \in AdlistType, AddAdlist(u, t)
  PROVE  DBInv'
<1> DEFINE id == adlistSeq + 1
           row == [address |-> u, type |-> t, enabled |-> TRUE,
                   status |-> "pending", etag |-> NoEtag]
<1>0. /\ id \in 1..MaxId /\ adlistSeq' = id
      /\ adlist' = Inserted(adlist, id, row)
      /\ adlist_by_group' = adlist_by_group \cup ({id} \X {0})
      /\ UNCHANGED <<gravity, domainlist, domainlist_by_group, domainSeq, group, groupSeq>>
  BY DEF AddAdlist, NextAdlistId, domainVars, groupVars
<1>1. DBTypeOK'
  <2>1. DOMAIN adlist' = (DOMAIN adlist) \cup {id}
    BY <1>0 DEF Inserted
  <2>2. row \in Adlist
    OBVIOUS
  <2>3. \A j \in DOMAIN adlist' : adlist'[j] \in Adlist
    BY <1>0, <2>1, <2>2 DEF Inserted, DBInv, DBTypeOK
  <2>4. adlist' \in [DOMAIN adlist' -> Adlist]
    BY <1>0, <2>1, <2>3 DEF Inserted
  <2>5. DOMAIN adlist' \subseteq 1..adlistSeq' /\ adlistSeq' \in 0..MaxId
    <3>1. DOMAIN adlist \subseteq 1..adlistSeq /\ adlistSeq \in 0..MaxId
      BY DEF DBInv, DBTypeOK
    <3> QED
      BY <1>0, <2>1, <3>1, GravityDBAssumption
  <2> QED
    BY <1>0, <2>4, <2>5 DEF DBInv, DBTypeOK
<1>2. NoOrphans'
  BY <1>0 DEF DBInv, DBIntegrity, NoOrphans, Inserted
<1>3. Membership'
  BY <1>0 DEF DBInv, DBIntegrity, Membership, Inserted
<1>4. UniqueKeys'
  <2>1. \A i \in DOMAIN adlist : adlist[i].address # u
    BY DEF AddAdlist
  <2>2. \A j \in DOMAIN adlist' : adlist'[j] = IF j = id THEN row ELSE adlist[j]
    BY <1>0 DEF Inserted
  <2>3. row.address = u
    OBVIOUS
  <2> QED
    BY <1>0, <2>1, <2>2, <2>3 DEF DBInv, DBIntegrity, UniqueKeys, Inserted
<1> QED
  BY <1>1, <1>2, <1>3, <1>4 DEF DBInv, DBIntegrity

\* the removal of a list, with the domains compiled from it,
LEMMA RemoveAdlistInv ==
  ASSUME DBInv, NEW i \in Id, RemoveAdlist(i)
  PROVE  DBInv'
<1>0. /\ adlist' = [j \in (DOMAIN adlist) \ {i} |-> adlist[j]]
      /\ gravity' = {g \in gravity : g[2] # i}
      /\ adlist_by_group' = {m \in adlist_by_group : m[1] # i}
      /\ UNCHANGED <<adlistSeq, domainlist, domainlist_by_group, domainSeq, group, groupSeq>>
  BY DEF RemoveAdlist, GravityWithout, Deleted, domainVars, groupVars
<1>1. DBTypeOK'
  BY <1>0 DEF DBInv, DBTypeOK
<1>2. NoOrphans'
  BY <1>0 DEF DBInv, DBIntegrity, NoOrphans
<1>3. Membership'
  BY <1>0 DEF DBInv, DBIntegrity, Membership
<1>4. UniqueKeys'
  BY <1>0 DEF DBInv, DBIntegrity, UniqueKeys
<1> QED
  BY <1>1, <1>2, <1>3, <1>4 DEF DBInv, DBIntegrity

\* The two updates of an adlist row: address kept, type kept.
LEMMA AdlistUpdateInv ==
  ASSUME DBInv,
         UNCHANGED <<gravity, adlist_by_group, adlistSeq, domainVars, groupVars>>,
         adlist' = [j \in DOMAIN adlist |-> adlist'[j]],
         \A j \in DOMAIN adlist :
             adlist'[j] \in Adlist /\ adlist'[j].address = adlist[j].address
  PROVE  DBInv'
<1>0. /\ DOMAIN adlist' = DOMAIN adlist
      /\ UNCHANGED <<gravity, adlist_by_group, adlistSeq, domainlist,
                     domainlist_by_group, domainSeq, group, groupSeq>>
  BY DEF domainVars, groupVars
<1>1. DBTypeOK'
  BY <1>0 DEF DBInv, DBTypeOK
<1>2. NoOrphans'
  BY <1>0 DEF DBInv, DBIntegrity, NoOrphans
<1>3. Membership'
  BY <1>0 DEF DBInv, DBIntegrity, Membership
<1>4. UniqueKeys'
  BY <1>0 DEF DBInv, DBIntegrity, UniqueKeys
<1> QED
  BY <1>1, <1>2, <1>3, <1>4 DEF DBInv, DBIntegrity

\* Switching a list keeps the invariant.
LEMMA SetAdlistEnabledInv ==
  ASSUME DBInv, NEW i \in Id, NEW on \in BOOLEAN, SetAdlistEnabled(i, on)
  PROVE  DBInv'
<1>1. adlist' = [j \in DOMAIN adlist |->
                   IF j = i THEN [adlist[j] EXCEPT !.enabled = on] ELSE adlist[j]]
  BY DEF SetAdlistEnabled
<1>2. \A j \in DOMAIN adlist :
        adlist'[j] \in Adlist /\ adlist'[j].address = adlist[j].address
  BY <1>1 DEF DBInv, DBTypeOK
<1> QED
  BY <1>1, <1>2, AdlistUpdateInv DEF SetAdlistEnabled

\* New metadata keeps the address, the type and the switch of a row.
LEMMA WithMetaKeeps ==
  ASSUME NEW a \in Adlist, NEW s \in Status, NEW e \in Etag \cup {NoEtag}
  PROVE  /\ WithMeta(a, s, e) \in Adlist
         /\ WithMeta(a, s, e).address = a.address
         /\ WithMeta(a, s, e).type = a.type
         /\ WithMeta(a, s, e).enabled = a.enabled
<1> DEFINE b == [a EXCEPT !.status = s]
<1>1. /\ b \in Adlist
      /\ b.address = a.address /\ b.type = a.type /\ b.enabled = a.enabled
  OBVIOUS
<1>2. WithMeta(a, s, e) = [b EXCEPT !.etag = e]
  BY DEF WithMeta
<1> HIDE DEF b
<1> QED
  BY <1>1, <1>2

\* So new metadata keeps the invariant.
LEMMA UpdateAdlistMetaInv ==
  ASSUME DBInv, NEW i \in Id, NEW s \in Status, NEW e \in Etag \cup {NoEtag},
         UpdateAdlistMeta(i, s, e)
  PROVE  DBInv'
<1>1. adlist' = [j \in DOMAIN adlist |->
                   IF j = i THEN WithMeta(adlist[j], s, e) ELSE adlist[j]]
  BY DEF UpdateAdlistMeta
<1>2. \A j \in DOMAIN adlist :
        adlist'[j] \in Adlist /\ adlist'[j].address = adlist[j].address
  BY <1>1, WithMetaKeeps DEF DBInv, DBTypeOK
<1> QED
  BY <1>1, <1>2, AdlistUpdateInv DEF UpdateAdlistMeta

\* Compiled domains are stored for a list that is there, or not at all.
LEMMA ReplaceGravityDomainsInv ==
  ASSUME DBInv, NEW i \in Id, NEW ds \in SUBSET Domain, ReplaceGravityDomains(i, ds)
  PROVE  DBInv'
<1>0. /\ ds = {} \/ i \in DOMAIN adlist
      /\ gravity' = {g \in gravity : g[2] # i} \cup (ds \X {i})
      /\ UNCHANGED <<adlist, adlist_by_group, adlistSeq, domainlist,
                     domainlist_by_group, domainSeq, group, groupSeq>>
  BY DEF ReplaceGravityDomains, GravityWithout, domainVars, groupVars
<1>1. DBTypeOK'
  BY <1>0 DEF DBInv, DBTypeOK
<1>2. NoOrphans'
  BY <1>0 DEF DBInv, DBIntegrity, NoOrphans
<1>3. Membership'
  BY <1>0 DEF DBInv, DBIntegrity, Membership
<1>4. UniqueKeys'
  BY <1>0 DEF DBInv, DBIntegrity, UniqueKeys
<1> QED
  BY <1>1, <1>2, <1>3, <1>4 DEF DBInv, DBIntegrity

\* A new group keeps the invariant: it has no members,
LEMMA AddGroupInv ==
  ASSUME DBInv, NEW n \in GroupName, AddGroup(n)
  PROVE  DBInv'
<1> DEFINE id == groupSeq + 1
           row == [name |-> n, enabled |-> TRUE]
<1>0. /\ id \in 1..MaxId /\ groupSeq' = id
      /\ group' = Inserted(group, id, row)
      /\ UNCHANGED <<adlist, gravity, adlist_by_group, adlistSeq, domainlist,
                     domainlist_by_group, domainSeq>>
  BY DEF AddGroup, adlistVars, domainVars
<1>1. DBTypeOK'
  <2>1. DOMAIN group' = (DOMAIN group) \cup {id}
    BY <1>0 DEF Inserted
  <2>2. row \in Group
    OBVIOUS
  <2>3. \A j \in DOMAIN group' : group'[j] \in Group
    BY <1>0, <2>1, <2>2 DEF Inserted, DBInv, DBTypeOK
  <2>4. group' \in [DOMAIN group' -> Group]
    BY <1>0, <2>1, <2>3 DEF Inserted
  <2>5. DOMAIN group' \subseteq 0..groupSeq' /\ groupSeq' \in 0..MaxId
    <3>1. DOMAIN group \subseteq 0..groupSeq /\ groupSeq \in 0..MaxId
      BY DEF DBInv, DBTypeOK
    <3> QED
      BY <1>0, <2>1, <3>1, GravityDBAssumption
  <2> QED
    BY <1>0, <2>4, <2>5 DEF DBInv, DBTypeOK
<1>2. NoOrphans'
  BY <1>0 DEF DBInv, DBIntegrity, NoOrphans
<1>3. Membership'
  BY <1>0 DEF DBInv, DBIntegrity, Membership, Inserted
<1>4. UniqueKeys'
  <2>1. \A i \in DOMAIN group : group[i].name # n
    BY DEF AddGroup
  <2>2. \A j \in DOMAIN group' : group'[j] = IF j = id THEN row ELSE group[j]
    BY <1>0 DEF Inserted
  <2>3. row.name = n
    OBVIOUS
  <2> QED
    BY <1>0, <2>1, <2>2, <2>3 DEF DBInv, DBIntegrity, UniqueKeys, Inserted
<1> QED
  BY <1>1, <1>2, <1>3, <1>4 DEF DBInv, DBIntegrity

\* and so does switching a group.
LEMMA SetGroupEnabledInv ==
  ASSUME DBInv, NEW i \in Id \cup {DefaultGroup}, NEW on \in BOOLEAN, SetGroupEnabled(i, on)
  PROVE  DBInv'
<1>0. /\ group' = [j \in DOMAIN group |->
                     IF j = i THEN [group[j] EXCEPT !.enabled = on] ELSE group[j]]
      /\ UNCHANGED <<groupSeq, adlist, gravity, adlist_by_group, adlistSeq, domainlist,
                     domainlist_by_group, domainSeq>>
  BY DEF SetGroupEnabled, adlistVars, domainVars
<1>a. \A j \in DOMAIN group' :
        j \in DOMAIN group /\ group'[j] \in Group /\ group'[j].name = group[j].name
  BY <1>0 DEF DBInv, DBTypeOK
<1>1. DBTypeOK'
  BY <1>0, <1>a DEF DBInv, DBTypeOK
<1>2. NoOrphans'
  BY <1>0 DEF DBInv, DBIntegrity, NoOrphans
<1>3. Membership'
  BY <1>0 DEF DBInv, DBIntegrity, Membership
<1>4. UniqueKeys'
  BY <1>0, <1>a DEF DBInv, DBIntegrity, UniqueKeys
<1> QED
  BY <1>1, <1>2, <1>3, <1>4 DEF DBInv, DBIntegrity

\* Steps that leave the tables alone keep the invariant.
LEMMA StutterInv == DBInv /\ UNCHANGED dbVars => DBInv'
  BY DEF DBInv, DBTypeOK, DBIntegrity, NoOrphans, Membership, UniqueKeys,
         dbVars, adlistVars, domainVars, groupVars

\* Every step of the store keeps the invariant.
LEMMA NextInv == DBInv /\ [DBNext]_dbVars => DBInv'
<1> SUFFICES ASSUME DBInv, [DBNext]_dbVars PROVE DBInv'
  OBVIOUS
<1>1. CASE UNCHANGED dbVars
  BY <1>1, StutterInv
<1>2. CASE DBNext
  BY <1>2, AddDomainInv, RemoveDomainInv, SetDomainEnabledInv, AddAdlistInv,
     RemoveAdlistInv, SetAdlistEnabledInv, UpdateAdlistMetaInv,
     ReplaceGravityDomainsInv, AddGroupInv, SetGroupEnabledInv DEF DBNext
<1> QED
  BY <1>1, <1>2

\* Types and integrity hold in every database the store methods can leave.
THEOREM DBIntegrityTheorem == DBSpec => [](DBTypeOK /\ DBIntegrity)
<1>1. DBSpec => []DBInv
  BY InitInv, NextInv, PTL DEF DBSpec
<1> QED
  BY <1>1, PTL DEF DBInv

\* Switching the default group off leaves both queries of LoadSnapshot empty:
\* with Membership no list and no entry has another group to be active in.
THEOREM DefaultGroupTheorem == DBSpec => []DefaultGroupSilences
<1>1. DBInv => DefaultGroupSilences
  <2> SUFFICES ASSUME DBInv, ~group[DefaultGroup].enabled
               PROVE  GravityRows = {} /\ DomainRows = {}
    BY DEF DefaultGroupSilences
  <2>1. \A i \in DOMAIN adlist : ~ActiveAdlist(i)
    BY DEF DBInv, DBIntegrity, Membership, ActiveAdlist
  <2>2. \A i \in DOMAIN domainlist : ~ActiveDomain(i)
    BY DEF DBInv, DBIntegrity, Membership, ActiveDomain
  <2> QED
    BY <2>1, <2>2 DEF GravityRows, DomainRows
<1>2. DBSpec => []DBInv
  BY InitInv, NextInv, PTL DEF DBSpec
<1> QED
  BY <1>1, <1>2, PTL

\* A row that was not there has an id above all that were handed out.
LEMMA NewIdsStep == DBInv /\ [DBNext]_dbVars => NewIds \/ UNCHANGED dbVars
<1> SUFFICES ASSUME DBInv, DBNext PROVE NewIds
  OBVIOUS
<1>t. DBTypeOK
  BY DEF DBInv
<1>1. ASSUME NEW d \in Domain, NEW t \in DomainType, AddDomain(d, t) PROVE NewIds
  BY <1>1, <1>t DEF AddDomain, Inserted, NewIds, DBTypeOK, adlistVars, groupVars
<1>2. ASSUME NEW i \in Id, RemoveDomain(i) PROVE NewIds
  BY <1>2, <1>t DEF RemoveDomain, Deleted, NewIds, DBTypeOK, adlistVars, groupVars
<1>3. ASSUME NEW i \in Id, NEW on \in BOOLEAN, SetDomainEnabled(i, on) PROVE NewIds
  BY <1>3 DEF SetDomainEnabled, NewIds, adlistVars, groupVars
<1>4. ASSUME NEW u \in Address, NEW t \in AdlistType, AddAdlist(u, t) PROVE NewIds
  BY <1>4, <1>t DEF AddAdlist, NextAdlistId, Inserted, NewIds, DBTypeOK, domainVars, groupVars
<1>5. ASSUME NEW i \in Id, RemoveAdlist(i) PROVE NewIds
  BY <1>5 DEF RemoveAdlist, Deleted, NewIds, domainVars, groupVars
<1>6. ASSUME NEW i \in Id, NEW on \in BOOLEAN, SetAdlistEnabled(i, on) PROVE NewIds
  BY <1>6 DEF SetAdlistEnabled, NewIds, domainVars, groupVars
<1>7. ASSUME NEW i \in Id, NEW s \in Status, NEW e \in Etag \cup {NoEtag},
             UpdateAdlistMeta(i, s, e)
      PROVE  NewIds
  BY <1>7 DEF UpdateAdlistMeta, NewIds, domainVars, groupVars
<1>8. ASSUME NEW i \in Id, NEW ds \in SUBSET Domain, ReplaceGravityDomains(i, ds)
      PROVE  NewIds
  BY <1>8 DEF ReplaceGravityDomains, NewIds, domainVars, groupVars
<1>9. ASSUME NEW n \in GroupName, AddGroup(n) PROVE NewIds
  BY <1>9, <1>t DEF AddGroup, Inserted, NewIds, DBTypeOK, adlistVars, domainVars
<1>10. ASSUME NEW i \in Id \cup {DefaultGroup}, NEW on \in BOOLEAN, SetGroupEnabled(i, on)
       PROVE  NewIds
  BY <1>10 DEF SetGroupEnabled, NewIds, adlistVars, domainVars
<1> QED
  BY <1>1, <1>2, <1>3, <1>4, <1>5, <1>6, <1>7, <1>8, <1>9, <1>10 DEF DBNext

\* No table hands an id out twice, also after deletions.
THEOREM IdsNeverReusedTheorem == DBSpec => IdsNeverReused
<1>1. DBSpec => []DBInv
  BY InitInv, NextInv, PTL DEF DBSpec
<1> QED
  BY <1>1, NewIdsStep, PTL DEF DBSpec, IdsNeverReused

\* A quiet write changes neither query, so no reload is owed after it.
LEMMA QuietWriteKeepsRows ==
  DBInv /\ DBInv' /\ QuietWrite => UNCHANGED <<GravityRows, DomainRows>>
<1> SUFFICES ASSUME DBInv, QuietWrite PROVE GravityRows' = GravityRows /\ DomainRows' = DomainRows
  OBVIOUS
<1>t. DBTypeOK /\ NoOrphans /\ Membership
  BY DEF DBInv, DBIntegrity
<1>1. ASSUME NEW u \in Address, NEW t \in AdlistType, AddAdlist(u, t)
      PROVE  GravityRows' = GravityRows /\ DomainRows' = DomainRows
  <2> DEFINE id == adlistSeq + 1
  <2>1. /\ DOMAIN adlist' = (DOMAIN adlist) \cup {id}
        /\ \A i \in DOMAIN adlist : adlist'[i] = adlist[i] /\ i # id
        /\ adlist_by_group' = adlist_by_group \cup ({id} \X {0})
        /\ UNCHANGED <<gravity, domainlist, domainlist_by_group, group>>
    BY <1>1, <1>t DEF AddAdlist, NextAdlistId, Inserted, DBTypeOK, domainVars, groupVars
  <2>2. \A i \in DOMAIN adlist : ActiveAdlist(i)' <=> ActiveAdlist(i)
    BY <2>1 DEF ActiveAdlist
  <2>3. {x \in gravity : x[2] \in DOMAIN adlist' /\ ActiveAdlist(x[2])'}
          = {x \in gravity : x[2] \in DOMAIN adlist /\ ActiveAdlist(x[2])}
    BY <2>1, <2>2, <1>t DEF NoOrphans
  <2>4. GravityRows' = GravityRows
    BY <2>1, <2>3 DEF GravityRows
  <2>5. DomainRows' = DomainRows
    BY <2>1 DEF DomainRows, ActiveDomain
  <2> QED
    BY <2>4, <2>5
<1>2. ASSUME NEW n \in GroupName, AddGroup(n)
      PROVE  GravityRows' = GravityRows /\ DomainRows' = DomainRows
  <2> DEFINE id == groupSeq + 1
  <2>1. /\ DOMAIN group' = (DOMAIN group) \cup {id}
        /\ id \in 1..MaxId /\ id # 0
        /\ \A g \in DOMAIN group : group'[g] = group[g] /\ g # id
        /\ UNCHANGED <<gravity, adlist, adlist_by_group, domainlist, domainlist_by_group>>
    BY <1>2, <1>t DEF AddGroup, Inserted, DBTypeOK, domainVars, adlistVars
  <2>2. \A i \in DOMAIN adlist : ActiveAdlist(i)' <=> ActiveAdlist(i)
    BY <2>1, <1>t DEF ActiveAdlist, Membership
  <2>3. \A i \in DOMAIN domainlist : ActiveDomain(i)' <=> ActiveDomain(i)
    BY <2>1, <1>t DEF ActiveDomain, Membership
  <2> QED
    BY <2>1, <2>2, <2>3 DEF GravityRows, DomainRows
<1>3. ASSUME NEW i \in Id, NEW s \in Status, NEW e \in Etag \cup {NoEtag},
             UpdateAdlistMeta(i, s, e)
      PROVE  GravityRows' = GravityRows /\ DomainRows' = DomainRows
  <2>1. /\ DOMAIN adlist' = DOMAIN adlist
        /\ \A j \in DOMAIN adlist :
              adlist'[j] = IF j = i THEN WithMeta(adlist[j], s, e) ELSE adlist[j]
        /\ UNCHANGED <<gravity, group, adlist_by_group, domainlist, domainlist_by_group>>
    BY <1>3 DEF UpdateAdlistMeta, domainVars, groupVars
  <2>2. \A j \in DOMAIN adlist :
          adlist'[j].type = adlist[j].type /\ adlist'[j].enabled = adlist[j].enabled
    BY <2>1, <1>t, WithMetaKeeps DEF DBTypeOK
  <2>3. \A j \in DOMAIN adlist : ActiveAdlist(j)' <=> ActiveAdlist(j)
    BY <2>1, <2>2 DEF ActiveAdlist
  <2>4. DomainRows' = DomainRows
    BY <2>1 DEF DomainRows, ActiveDomain
  <2> QED
    BY <2>1, <2>2, <2>3, <2>4 DEF GravityRows
<1> QED
  BY <1>1, <1>2, <1>3 DEF QuietWrite

\* What the handlers without a Reload write never changes a rule.
THEOREM QuietWritesTheorem == DBSpec => QuietWritesKeepRows
<1>1. DBSpec => []DBInv
  BY InitInv, NextInv, PTL DEF DBSpec
<1>2. DBInv /\ DBInv' /\ [DBNext]_dbVars
        => [QuietWrite => UNCHANGED <<GravityRows, DomainRows>>]_dbVars
  BY QuietWriteKeepsRows
<1> QED
  BY <1>1, <1>2, PTL DEF DBSpec, QuietWritesKeepRows
=============================================================================
