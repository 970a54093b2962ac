------------------------------ MODULE GravityDB ------------------------------
(***************************************************************************)
(* gravity.db as the store methods of internal/db/gravity_store.go leave   *)
(* it: adlists, the domains compiled from them, the manual domainlist, the *)
(* groups that switch both on and off, and the two queries of LoadSnapshot *)
(* that the matcher engine is built from.                                  *)
(*                                                                         *)
(* The handle has one connection (sqlite.go SetMaxOpenConns(1)), so each   *)
(* method, a statement or one transaction, is one step.  A table with an   *)
(* id is a function from the ids present to rows; a table that only        *)
(* relates ids is a set of pairs.  A method that fails changes nothing and *)
(* is left to stuttering.  Columns nobody reads back to decide anything    *)
(* (comments, dates, counters) are left out, and so are the client tables  *)
(* and the info table, which no query of the program joins with.           *)
(***************************************************************************)
EXTENDS Integers, FiniteSets

CONSTANTS
    Domain,     \* texts of domainlist.domain and gravity.domain, regexes included
    Address,    \* adlist URLs
    Etag,       \* HTTP entity tags an upstream may send
    NoEtag,     \* the NULL or empty etag
    GroupName,  \* names of groups
    DefaultName,\* the name of the seeded group
    MaxId       \* bound: the largest id a table hands out

ASSUME GravityDBAssumption ==
    /\ MaxId \in Nat
    /\ NoEtag \notin Etag
    /\ DefaultName \in GroupName

AdlistBlock == 0
AdlistAllow == 1
AdlistType == {AdlistBlock, AdlistAllow}

TypeAllowExact == 0
TypeDenyExact == 1
TypeAllowRegex == 2
TypeDenyRegex == 3
DomainType == {TypeAllowExact, TypeDenyExact, TypeAllowRegex, TypeDenyRegex}

Status == {"pending", "ok", "error"}
DefaultGroup == 0
Id == 1..MaxId

VARIABLES
    adlist,                \* id -> [address, type, enabled, status, etag]
    gravity,               \* {<<domain, adlist id>>}
    adlist_by_group,       \* {<<adlist id, group id>>}
    domainlist,            \* id -> [domain, type, enabled]
    domainlist_by_group,   \* {<<domainlist id, group id>>}
    group,                 \* id -> [name, enabled]
    adlistSeq, domainSeq, groupSeq  \* sqlite_sequence: the last id handed out

adlistVars == <<adlist, gravity, adlist_by_group, adlistSeq>>
domainVars == <<domainlist, domainlist_by_group, domainSeq>>
groupVars == <<group, groupSeq>>
dbVars == <<adlistVars, domainVars, groupVars>>

Adlist == [address : Address, type : AdlistType, enabled : BOOLEAN,
           status : Status, etag : Etag \cup {NoEtag}]
DomainEntry == [domain : Domain, type : DomainType, enabled : BOOLEAN]
Group == [name : GroupName, enabled : BOOLEAN]

\* A table with one row more, or without one.
Inserted(table, i, row) ==
    [j \in DOMAIN table \cup {i} |-> IF j = i THEN row ELSE table[j]]
Deleted(table, i) == [j \in DOMAIN table \ {i} |-> table[j]]

-----------------------------------------------------------------------------
(* domainlist *)

\* The groups a new row is put in: the default one only.
MutNewGroups == DOMAIN group
NewGroups == {DefaultGroup}

AddDomain(d, t) ==
    LET id == domainSeq + 1 IN
    /\ id \in Id
    /\ \A i \in DOMAIN domainlist :
           domainlist[i].domain # d \/ domainlist[i].type # t
    /\ domainSeq' = id
    /\ domainlist' = Inserted(domainlist, id,
                              [domain |-> d, type |-> t, enabled |-> TRUE])
    /\ domainlist_by_group' = domainlist_by_group \cup ({id} \X NewGroups)
    /\ UNCHANGED <<adlistVars, groupVars>>

RemoveDomain(i) ==
    /\ domainlist' = Deleted(domainlist, i)
    /\ domainlist_by_group' = {m \in domainlist_by_group : m[1] # i}
    /\ UNCHANGED <<domainSeq, adlistVars, groupVars>>

SetDomainEnabled(i, on) ==
    /\ domainlist' = [j \in DOMAIN domainlist |->
                        IF j = i THEN [domainlist[j] EXCEPT !.enabled = on]
                                 ELSE domainlist[j]]
    /\ UNCHANGED <<domainlist_by_group, domainSeq, adlistVars, groupVars>>

-----------------------------------------------------------------------------
(* adlist and the domains compiled from it *)

\* AUTOINCREMENT: one more than the largest id ever handed out.
MutNextAdlistId == Cardinality(DOMAIN adlist) + 1
NextAdlistId == adlistSeq + 1

AddAdlist(u, t) ==
    LET id == NextAdlistId IN
    /\ id \in Id
    /\ \A i \in DOMAIN adlist : adlist[i].address # u
    /\ adlistSeq' = id
    /\ adlist' = Inserted(adlist, id,
                          [address |-> u, type |-> t, enabled |-> TRUE,
                           status |-> "pending", etag |-> NoEtag])
    /\ adlist_by_group' = adlist_by_group \cup ({id} \X NewGroups)
    /\ UNCHANGED <<gravity, domainVars, groupVars>>

\* What is left of gravity without the rows of list i; the mutant is a table
\* whose foreign key does not cascade.
MutGravityWithout(i) == gravity
GravityWithout(i) == {g \in gravity : g[2] # i}

RemoveAdlist(i) ==
    /\ adlist' = Deleted(adlist, i)
    /\ gravity' = GravityWithout(i)
    /\ adlist_by_group' = {m \in adlist_by_group : m[1] # i}
    /\ UNCHANGED <<adlistSeq, domainVars, groupVars>>

SetAdlistEnabled(i, on) ==
    /\ adlist' = [j \in DOMAIN adlist |->
                    IF j = i THEN [adlist[j] EXCEPT !.enabled = on] ELSE adlist[j]]
    /\ UNCHANGED <<gravity, adlist_by_group, adlistSeq, domainVars, groupVars>>

\* The row a builder leaves; the mutant also switches a failing list off.
MutWithMeta(row, status, etag) ==
    [row EXCEPT !.status = status, !.etag = etag, !.enabled = status # "error"]
WithMeta(row, status, etag) == [row EXCEPT !.status = status, !.etag = etag]

UpdateAdlistMeta(i, status, etag) ==
    /\ adlist' = [j \in DOMAIN adlist |->
                    IF j = i THEN WithMeta(adlist[j], status, etag) ELSE adlist[j]]
    /\ UNCHANGED <<gravity, adlist_by_group, adlistSeq, domainVars, groupVars>>

\* The foreign key on gravity.adlist_id refuses a row of a list that is gone,
\* which rolls the transaction back; replacing by nothing cannot fail.
ReplaceGravityDomains(i, ds) ==
    /\ ds = {} \/ i \in DOMAIN adlist
    /\ gravity' = GravityWithout(i) \cup (ds \X {i})
    /\ UNCHANGED <<adlist, adlist_by_group, adlistSeq, domainVars, groupVars>>

-----------------------------------------------------------------------------
(* groups *)

AddGroup(n) ==
    LET id == groupSeq + 1 IN
    /\ id \in Id
    /\ \A i \in DOMAIN group : group[i].name # n
    /\ groupSeq' = id
    /\ group' = Inserted(group, id, [name |-> n, enabled |-> TRUE])
    /\ UNCHANGED <<adlistVars, domainVars>>

SetGroupEnabled(i, on) ==
    /\ group' = [j \in DOMAIN group |->
                   IF j = i THEN [group[j] EXCEPT !.enabled = on] ELSE group[j]]
    /\ UNCHANGED <<groupSeq, adlistVars, domainVars>>

-----------------------------------------------------------------------------
(* The two queries of LoadSnapshot *)

ActiveAdlist(i) ==
    /\ adlist[i].enabled
    /\ \E g \in DOMAIN group : <<i, g>> \in adlist_by_group /\ group[g].enabled

ActiveDomain(i) ==
    /\ domainlist[i].enabled
    /\ \E g \in DOMAIN group : <<i, g>> \in domainlist_by_group /\ group[g].enabled

\* Rows of the gravity query: a domain and the type of the list it is from.
GravityRows ==
    {<<g[1], adlist[g[2]].type>> :
        g \in {x \in gravity : x[2] \in DOMAIN adlist /\ ActiveAdlist(x[2])}}

\* Rows of the domainlist query: id, text and type of an entry; the mutant
\* scans the columns in another order.
MutDomainRows ==
    {<<i, domainlist[i].type, domainlist[i].domain>> :
        i \in {j \in DOMAIN domainlist : ActiveDomain(j)}}

DomainRows ==
    {<<i, domainlist[i].domain, domainlist[i].type>> :
        i \in {j \in DOMAIN domainlist : ActiveDomain(j)}}

-----------------------------------------------------------------------------
\* A database that was just created: the schema, and the seeded group.
DBInit ==
    /\ adlist = [i \in {} |-> {}]
    /\ gravity = {}
    /\ adlist_by_group = {}
    /\ domainlist = [i \in {} |-> {}]
    /\ domainlist_by_group = {}
    /\ group = [i \in {DefaultGroup} |-> [name |-> DefaultName, enabled |-> TRUE]]
    /\ adlistSeq = 0 /\ domainSeq = 0 /\ groupSeq = 0

DBNext ==
    \/ \E d \in Domain, t \in DomainType : AddDomain(d, t)
    \/ \E i \in Id : RemoveDomain(i)
    \/ \E i \in Id, on \in BOOLEAN : SetDomainEnabled(i, on)
    \/ \E u \in Address, t \in AdlistType : AddAdlist(u, t)
    \/ \E i \in Id : RemoveAdlist(i)
    \/ \E i \in Id, on \in BOOLEAN : SetAdlistEnabled(i, on)
    \/ \E i \in Id, s \in Status, e \in Etag \cup {NoEtag} : UpdateAdlistMeta(i, s, e)
    \/ \E i \in Id, ds \in SUBSET Domain : ReplaceGravityDomains(i, ds)
    \/ \E n \in GroupName : AddGroup(n)
    \/ \E i \in Id \cup {DefaultGroup}, on \in BOOLEAN : SetGroupEnabled(i, on)

DBSpec == DBInit /\ [][DBNext]_dbVars

-----------------------------------------------------------------------------
(* Properties *)

\* Every table holds rows of its type, under ids its sequence has handed out.
DBTypeOK ==
    /\ adlistSeq \in 0..MaxId /\ domainSeq \in 0..MaxId /\ groupSeq \in 0..MaxId
    /\ DOMAIN adlist \subseteq 1..adlistSeq
    /\ adlist \in [DOMAIN adlist -> Adlist]
    /\ gravity \subseteq Domain \X Id
    /\ DOMAIN domainlist \subseteq 1..domainSeq
    /\ domainlist \in [DOMAIN domainlist -> DomainEntry]
    /\ DOMAIN group \subseteq 0..groupSeq
    /\ group \in [DOMAIN group -> Group]

\* No compiled domain outlives its list: a rule the user deleted cannot come
\* back through gravity, whatever a builder stores late (schema l.44, FK).
NoOrphans == \A g \in gravity : g[2] \in DOMAIN adlist

\* Every list and entry is in the default group and in no other: the default
\* group, which is never deleted, is the one switch over all of them.
Membership ==
    /\ DefaultGroup \in DOMAIN group
    /\ adlist_by_group = (DOMAIN adlist) \X {DefaultGroup}
    /\ domainlist_by_group = (DOMAIN domainlist) \X {DefaultGroup}

\* The UNIQUE constraints, across every sequence of store calls.
UniqueKeys ==
    /\ \A i, j \in DOMAIN adlist : adlist[i].address = adlist[j].address => i = j
    /\ \A i, j \in DOMAIN domainlist :
           domainlist[i].domain = domainlist[j].domain
        /\ domainlist[i].type = domainlist[j].type => i = j
    /\ \A i, j \in DOMAIN group : group[i].name = group[j].name => i = j

DBIntegrity == NoOrphans /\ Membership /\ UniqueKeys

\* Switching the default group off silences every rule of both queries.
DefaultGroupSilences ==
    ~group[DefaultGroup].enabled => GravityRows = {} /\ DomainRows = {}

\* An id is never handed out twice, so a PATCH, a DELETE or a builder that
\* still holds the id of a deleted list cannot reach another one.
NewIds ==
    /\ \A i \in DOMAIN adlist' \ DOMAIN adlist : i > adlistSeq
    /\ \A i \in DOMAIN domainlist' \ DOMAIN domainlist : i > domainSeq
    /\ \A i \in DOMAIN group' \ DOMAIN group : i > groupSeq
IdsNeverReused == [][NewIds]_dbVars

\* What the handlers that do not call Reload write (lists.go create, groups.go
\* create) and the metadata a builder writes leave both queries as they were.
QuietWrite ==
    \/ \E u \in Address, t \in AdlistType : AddAdlist(u, t)
    \/ \E n \in GroupName : AddGroup(n)
    \/ \E i \in Id, s \in Status, e \in Etag \cup {NoEtag} : UpdateAdlistMeta(i, s, e)
QuietWritesKeepRows == [][QuietWrite => UNCHANGED <<GravityRows, DomainRows>>]_dbVars
=============================================================================
