-------------------------- MODULE RuleReload_proofs --------------------------
(***************************************************************************)
(* Proofs about RuleReload, for any set of handlers and any database.      *)
(*   1. Every step is a step of GravityDB or leaves the tables alone, so   *)
(*      the invariant of GravityDB_proofs holds here too.                  *)
(*   2. EngineMatches, from CopiesCurrent: what a reload in readCurrent    *)
(*      has read so far is what the queries would return now.  Writes of   *)
(*      rules empty readCurrent; the quiet ones keep both queries, which   *)
(*      is QuietWriteKeepsRows.                                            *)
(*   3. ConnHeldBriefly, by itself.                                        *)
(*   4. Solo: after a change that began alone one goroutine is at work,    *)
(*      whose copy is of the present; one that joins it, or a query that   *)
(*      fails, ends that, and the next change that begins alone restores   *)
(*      it.  From it FreshWhenIdle, what that makes of the default group,  *)
(*      and that the API is a RuleService.                                 *)
(***************************************************************************)
EXTENDS RuleReload, GravityDB_proofs

\* Every step is a step of the store on the tables, or none.
LEMMA NextIsDBNext == [Next]_vars => [DBNext]_dbVars
<1> SUFFICES ASSUME Next PROVE DBNext \/ UNCHANGED dbVars
  BY DEF vars
<1>1. ASSUME NEW p \in Proc, Handle(p) PROVE DBNext \/ UNCHANGED dbVars
  BY <1>1 DEF Handle, handleDomainsCreate, handleDomainsPatch, handleDomainsDelete,
     handleListsCreate, handleListsPatch, handleListsDelete, handleListsUpdate,
     handleGroupsCreate, handleGroupsPatch, DBNext
<1>2. ASSUME NEW p \in Proc, NEW i \in Id, NEW ds \in SUBSET Domain, BuilderStores(p, i, ds)
      PROVE  DBNext
  BY <1>2 DEF BuilderStores, DBNext
<1>3. ASSUME NEW p \in Proc, BuilderEnds(p) \/ Reload(p) PROVE UNCHANGED dbVars
  BY <1>3 DEF BuilderEnds, Reload, QueryGravity, CloseGravityRows, QueryDomains, Load,
     ReloadFails
<1>4. CASE Restart
  BY <1>4 DEF Restart
<1> QED
  BY <1>1, <1>2, <1>3, <1>4 DEF Next

\* The handlers, builders and reloads use the database only as its store lets them.
THEOREM ReloadUsesStore == Spec => DBSpec
<1>1. Init => DBInit
  BY DEF Init
<1> QED
  BY <1>1, NextIsDBNext, PTL DEF Spec, DBSpec

\* So what the store keeps of its tables holds here: types, keys and references.
THEOREM ReloadIntegrity == Spec => [](DBTypeOK /\ DBIntegrity)
BY ReloadUsesStore, DBIntegrityTheorem, PTL

-----------------------------------------------------------------------------
\* The two queries return rows of their types.
LEMMA RowTypes ==
  DBInv => /\ GravityRows \in SUBSET (Domain \X AdlistType)
           /\ DomainRows \in SUBSET (Id \X Domain \X DomainType)
<1> SUFFICES ASSUME DBInv
             PROVE  /\ GravityRows \subseteq Domain \X AdlistType
                    /\ DomainRows \subseteq Id \X Domain \X DomainType
  OBVIOUS
<1>t. DBTypeOK
  BY DEF DBInv
<1>1. \A i \in DOMAIN adlist : adlist[i].type \in AdlistType
  <2>1. \A i \in DOMAIN adlist : adlist[i] \in Adlist
    BY <1>t DEF DBTypeOK
  <2> QED
    BY <2>1 DEF Adlist
<1>2. \A g \in gravity : g[1] \in Domain
  BY <1>t DEF DBTypeOK
<1>3. \A i \in DOMAIN domainlist :
        i \in Id /\ domainlist[i].domain \in Domain /\ domainlist[i].type \in DomainType
  <2>1. DOMAIN domainlist \subseteq 1..domainSeq /\ domainSeq \in 0..MaxId
    BY <1>t DEF DBTypeOK
  <2>2. \A i \in DOMAIN domainlist : i \in 1..MaxId
    BY <2>1, GravityDBAssumption
  <2>3. \A i \in DOMAIN domainlist : domainlist[i] \in DomainEntry
    BY <1>t DEF DBTypeOK
  <2> QED
    BY <2>2, <2>3 DEF DomainEntry, Id
<1> QED
  BY <1>1, <1>2, <1>3 DEF GravityRows, DomainRows

\* What a current reload has read is what the queries would return.
CopiesCurrent ==
    \A p \in readCurrent :
        /\ pc[p] \in {"gravity", "domains", "load"}
        /\ rows[p].gravity = GravityRows
        /\ pc[p] = "load" => rows[p].domains = DomainRows

ReloadInv == DBInv /\ TypeOK /\ CopiesCurrent /\ EngineMatches

\* The initial state satisfies the inductive invariant.
LEMMA ReloadInitInv == Init => ReloadInv
<1> SUFFICES ASSUME Init PROVE ReloadInv
  OBVIOUS
<1>1. DBInv
  BY InitInv DEF Init
<1>2. TypeOK
  BY DEF Init, TypeOK, Booting, NoRows
<1>3. CopiesCurrent /\ EngineMatches
  BY DEF Init, CopiesCurrent, EngineMatches
<1> QED
  BY <1>1, <1>2, <1>3 DEF ReloadInv

\* A step that writes rules leaves no copy to answer for.
LEMMA RuleWrittenInv ==
  ASSUME TypeOK, NEW p \in Proc, NEW label \in {"reload", "building"},
         Goto(p, label), RuleWritten, orderly' \in BOOLEAN
  PROVE  TypeOK' /\ CopiesCurrent' /\ EngineMatches'
<1>1. TypeOK'
  BY DEF TypeOK, Goto, RuleWritten
<1>2. CopiesCurrent' /\ EngineMatches'
  BY DEF CopiesCurrent, EngineMatches, RuleWritten
<1> QED
  BY <1>1, <1>2

\* A step that writes no rule, or keeps both queries, leaves the copies right.
LEMMA QuietInv ==
  ASSUME TypeOK, CopiesCurrent, EngineMatches,
         NEW p \in Proc, pc[p] \in {"idle", "building"},
         NEW label \in {"idle", "building", "reload"}, Goto(p, label),
         UNCHANGED <<reloadVars, readCurrent>>, orderly' \in BOOLEAN,
         UNCHANGED <<GravityRows, DomainRows>>
  PROVE  TypeOK' /\ CopiesCurrent' /\ EngineMatches'
<1>0. UNCHANGED <<conn, rows, engine, serving, engineCurrent, readCurrent>>
  BY DEF reloadVars
<1>1. TypeOK'
  BY <1>0 DEF TypeOK, Goto
<1>2. CopiesCurrent'
  BY <1>0 DEF TypeOK, CopiesCurrent, Goto
<1>3. EngineMatches'
  BY <1>0 DEF EngineMatches, Snapshot
<1> QED
  BY <1>1, <1>2, <1>3

\* Every handler keeps it: it writes no rule, or lets no copy count as current.
LEMMA HandleInv ==
  ASSUME ReloadInv, DBInv', NEW p \in Proc, Handle(p)
  PROVE  TypeOK' /\ CopiesCurrent' /\ EngineMatches'
<1>a. TypeOK /\ CopiesCurrent /\ EngineMatches /\ DBInv
  BY DEF ReloadInv
<1>1. CASE ThenReload(p)
  <2>1. orderly' \in BOOLEAN
    BY <1>1 DEF ThenReload, AllAnswered
  <2> QED
    BY <1>1, <1>a, <2>1, RuleWrittenInv DEF ThenReload
<1>2. CASE Ready(p) /\ Answer(p) /\ QuietWrite
  <2>1. UNCHANGED <<GravityRows, DomainRows>>
    BY <1>2, <1>a, QuietWriteKeepsRows
  <2> QED
    BY <1>2, <1>a, <2>1, QuietInv DEF Ready, Arrives, Answer, TypeOK
<1>3. CASE handleListsUpdate(p)
  <2>1. UNCHANGED <<GravityRows, DomainRows>>
    BY <1>3 DEF handleListsUpdate, dbVars, adlistVars, domainVars, groupVars,
       GravityRows, DomainRows, ActiveAdlist, ActiveDomain
  <2>2. orderly' \in BOOLEAN
    BY <1>3 DEF handleListsUpdate, AllAnswered
  <2>3. PICK u \in Proc : pc[u] = "idle" /\ Goto(u, "building")
    BY <1>3 DEF handleListsUpdate, Proc
  <2> QED
    BY <1>3, <1>a, <2>1, <2>2, <2>3, QuietInv DEF handleListsUpdate
<1> QED
  BY <1>1, <1>2, <1>3 DEF Handle, handleDomainsCreate, handleDomainsPatch,
     handleDomainsDelete, handleListsCreate, handleListsPatch, handleListsDelete,
     handleGroupsCreate, handleGroupsPatch, QuietWrite

\* Every step of a reload keeps it.
LEMMA ReadStepInv ==
  ASSUME ReloadInv, NEW p \in Proc, Reload(p)
  PROVE  TypeOK' /\ CopiesCurrent' /\ EngineMatches'
<1>a. /\ TypeOK /\ CopiesCurrent /\ EngineMatches
      /\ GravityRows \in SUBSET (Domain \X AdlistType)
      /\ DomainRows \in SUBSET (Id \X Domain \X DomainType)
  BY RowTypes DEF ReloadInv
<1>b. UNCHANGED <<GravityRows, DomainRows>>
  BY DEF Reload, QueryGravity, CloseGravityRows, QueryDomains, Load, ReloadFails,
     dbVars, adlistVars, domainVars, groupVars,
     GravityRows, DomainRows, ActiveAdlist, ActiveDomain
<1>c. Snapshot' = Snapshot
  BY <1>b DEF Snapshot
<1>1. CASE QueryGravity(p)
  <2>1. TypeOK'
    BY <1>1, <1>a DEF QueryGravity, TypeOK, Goto
  <2>2. CopiesCurrent'
    BY <1>1, <1>a, <1>b DEF QueryGravity, TypeOK, CopiesCurrent, Goto
  <2>3. EngineMatches'
    BY <1>1, <1>a, <1>c DEF QueryGravity, EngineMatches
  <2> QED
    BY <2>1, <2>2, <2>3
<1>2. CASE CloseGravityRows(p)
  <2>1. TypeOK'
    BY <1>2, <1>a DEF CloseGravityRows, TypeOK, Goto
  <2>2. CopiesCurrent'
    BY <1>2, <1>a, <1>b DEF CloseGravityRows, TypeOK, CopiesCurrent, Goto
  <2>3. EngineMatches'
    BY <1>2, <1>a, <1>c DEF CloseGravityRows, EngineMatches
  <2> QED
    BY <2>1, <2>2, <2>3
<1>3. CASE QueryDomains(p)
  <2>1. TypeOK'
    BY <1>3, <1>a DEF QueryDomains, TypeOK, Goto
  <2>2. CopiesCurrent'
    BY <1>3, <1>a, <1>b DEF QueryDomains, TypeOK, CopiesCurrent, Goto
  <2>3. EngineMatches'
    BY <1>3, <1>a, <1>c DEF QueryDomains, EngineMatches
  <2> QED
    BY <2>1, <2>2, <2>3
<1>4. CASE Load(p)
  <2>1. TypeOK'
    BY <1>4, <1>a DEF Load, Done, TypeOK, Goto, NoRows
  <2>2. CopiesCurrent'
    BY <1>4, <1>a, <1>b DEF Load, Done, TypeOK, CopiesCurrent, Goto
  <2>3. EngineMatches'
    <3>1. CASE p \in readCurrent
      <4>1. rows[p].gravity = GravityRows /\ rows[p].domains = DomainRows
        BY <1>4, <1>a, <3>1 DEF Load, CopiesCurrent
      <4>2. rows[p] = [gravity |-> rows[p].gravity, domains |-> rows[p].domains]
        BY <1>a DEF TypeOK
      <4>3. Loaded(rows[p]) = Snapshot
        BY <4>1, <4>2 DEF Loaded, Snapshot
      <4> QED
        BY <1>4, <1>c, <4>3 DEF Load, EngineMatches
    <3>2. CASE p \notin readCurrent
      BY <1>4, <3>2 DEF Load, EngineMatches
    <3> QED
      BY <3>1, <3>2
  <2> QED
    BY <2>1, <2>2, <2>3
<1>5. CASE ReloadFails(p)
  <2>1. TypeOK'
    BY <1>5, <1>a DEF ReloadFails, Done, TypeOK, Goto, NoRows
  <2>2. CopiesCurrent'
    BY <1>5, <1>a, <1>b DEF ReloadFails, Done, TypeOK, CopiesCurrent, Goto
  <2>3. EngineMatches'
    BY <1>5, <1>a, <1>c DEF ReloadFails, EngineMatches
  <2> QED
    BY <2>1, <2>2, <2>3
<1> QED
  BY <1>1, <1>2, <1>3, <1>4, <1>5 DEF Reload

\* Every step keeps it.
LEMMA ReloadNextInv == ReloadInv /\ [Next]_vars => ReloadInv'
<1> SUFFICES ASSUME ReloadInv, [Next]_vars PROVE ReloadInv'
  OBVIOUS
<1>0. DBInv'
  BY NextIsDBNext, NextInv DEF ReloadInv
<1>a. TypeOK /\ CopiesCurrent /\ EngineMatches
  BY DEF ReloadInv
<1>1. ASSUME NEW p \in Proc, Handle(p) PROVE ReloadInv'
  BY <1>0, <1>1, HandleInv DEF ReloadInv
<1>2. ASSUME NEW p \in Proc, NEW i \in Id, NEW ds \in SUBSET Domain, BuilderStores(p, i, ds)
      PROVE  ReloadInv'
  <2>1. TypeOK'
    BY <1>2, <1>a DEF BuilderStores, RuleWritten, TypeOK
  <2>2. CopiesCurrent' /\ EngineMatches'
    BY <1>2 DEF BuilderStores, RuleWritten, CopiesCurrent, EngineMatches
  <2> QED
    BY <1>0, <2>1, <2>2 DEF ReloadInv
<1>3. ASSUME NEW p \in Proc, BuilderEnds(p) PROVE ReloadInv'
  <2>1. UNCHANGED <<GravityRows, DomainRows>>
    BY <1>3 DEF BuilderEnds, dbVars, adlistVars, domainVars, groupVars,
       GravityRows, DomainRows, ActiveAdlist, ActiveDomain
  <2> QED
    BY <1>0, <1>3, <1>a, <2>1, QuietInv DEF BuilderEnds, ReloadInv, TypeOK
<1>4. ASSUME NEW p \in Proc, Reload(p) PROVE ReloadInv'
  BY <1>0, <1>4, ReadStepInv DEF ReloadInv
<1>5. CASE Restart
  <2>1. TypeOK'
    BY <1>5 DEF Restart, TypeOK, Booting, NoRows
  <2>2. CopiesCurrent' /\ EngineMatches'
    BY <1>5 DEF Restart, CopiesCurrent, EngineMatches
  <2> QED
    BY <1>0, <2>1, <2>2 DEF ReloadInv
<1>6. CASE UNCHANGED vars
  <2>1. UNCHANGED <<GravityRows, DomainRows>>
    BY <1>6 DEF vars, dbVars, adlistVars, domainVars, groupVars,
       GravityRows, DomainRows, ActiveAdlist, ActiveDomain
  <2>2. UNCHANGED <<pc, conn, rows, engine, serving, readCurrent, engineCurrent, orderly>>
    BY <1>6 DEF vars, reloadVars
  <2>3. TypeOK'
    BY <1>a, <2>2 DEF TypeOK
  <2>4. CopiesCurrent' /\ EngineMatches'
    BY <1>a, <2>1, <2>2 DEF CopiesCurrent, EngineMatches, Snapshot
  <2> QED
    BY <1>0, <2>3, <2>4 DEF ReloadInv
<1> QED
  BY <1>1, <1>2, <1>3, <1>4, <1>5, <1>6 DEF Next

\* The engine that the last reload to finish left is that of the database, if
\* the reload started after the last write of a rule: for any number of
\* handlers and builders, and though the snapshot is read in two transactions.
THEOREM EngineMatchesTheorem == Spec => [](TypeOK /\ EngineMatches)
<1>1. Spec => []ReloadInv
  BY ReloadInitInv, ReloadNextInv, PTL DEF Spec
<1> QED
  BY <1>1, PTL DEF ReloadInv

-----------------------------------------------------------------------------
\* Every step keeps the connection with the goroutine between its two queries.
LEMMA ConnStep ==
  TypeOK /\ TypeOK' /\ ConnHeldBriefly /\ [Next]_vars => ConnHeldBriefly'
<1> SUFFICES ASSUME TypeOK, ConnHeldBriefly, [Next]_vars PROVE ConnHeldBriefly'
  OBVIOUS
<1>1. ASSUME NEW p \in Proc, Handle(p) PROVE ConnHeldBriefly'
  <2>1. /\ conn' = conn
        /\ \E q \in Proc, l \in {"idle", "reload", "building"} :
               pc[q] = "idle" /\ pc' = [pc EXCEPT ![q] = l]
    BY <1>1 DEF Handle, handleDomainsCreate, handleDomainsPatch,
     handleDomainsDelete, handleListsCreate, handleListsPatch, handleListsDelete,
     handleListsUpdate, handleGroupsCreate, handleGroupsPatch, ThenReload, Answer,
     Ready, Arrives, RuleWritten, Goto, reloadVars, Proc
  <2> QED
    BY <2>1 DEF TypeOK, ConnHeldBriefly
<1>2. ASSUME NEW p \in Proc, NEW i \in Id, NEW ds \in SUBSET Domain, BuilderStores(p, i, ds)
      PROVE  ConnHeldBriefly'
  BY <1>2 DEF BuilderStores, RuleWritten, ConnHeldBriefly
<1>3. ASSUME NEW p \in Proc, BuilderEnds(p) PROVE ConnHeldBriefly'
  BY <1>3 DEF BuilderEnds, Goto, reloadVars, TypeOK, ConnHeldBriefly
<1>4. ASSUME NEW p \in Proc, Reload(p) PROVE ConnHeldBriefly'
  BY <1>4, RuleReloadAssumption DEF Reload, QueryGravity, CloseGravityRows, QueryDomains,
     Load, ReloadFails, Done, Goto, TypeOK, ConnHeldBriefly
<1>5. CASE Restart
  BY <1>5, RuleReloadAssumption DEF Restart, Booting, ConnHeldBriefly
<1>6. CASE UNCHANGED vars
  BY <1>6 DEF vars, reloadVars, ConnHeldBriefly
<1> QED
  BY <1>1, <1>2, <1>3, <1>4, <1>5, <1>6 DEF Next

\* No goroutine waits for the connection while it holds it.
THEOREM ConnTheorem == Spec => []ConnHeldBriefly
<1>1. Spec => []ReloadInv
  BY ReloadInitInv, ReloadNextInv, PTL DEF Spec
<1>2. Init => ConnHeldBriefly
  BY RuleReloadAssumption DEF Init, Booting, ConnHeldBriefly
<1>3. ReloadInv => TypeOK
  BY DEF ReloadInv
<1> QED
  BY <1>1, <1>2, <1>3, ConnStep, PTL DEF Spec

-----------------------------------------------------------------------------
(* A change that begins alone *)

\* Main works until the servers are up, and nobody else.  While it is orderly one
\* goroutine is at work, and what it has read is of the database as it is, so that
\* an engine is out of date only while somebody is on the way to load it.
Solo ==
    /\ serving => pc[Main] = "idle"
    /\ ~serving => \A p \in Proc : p # Main => pc[p] = "idle"
    /\ orderly => /\ \A p, other \in Proc :
                        pc[p] # "idle" /\ pc[other] # "idle" => p = other
                  /\ \A p \in Proc :
                        pc[p] \in {"gravity", "domains", "load"} => p \in readCurrent
                  /\ AllAnswered => engineCurrent

\* A change begins, by a write of rules or by an update: orderly only if it is the
\* only one, and then its author is the one at work.
LEMMA SoloBegins ==
  ASSUME Solo, TypeOK, NEW p \in Proc, p # Main, serving, pc[p] = "idle",
         NEW label \in {"reload", "building"}, Goto(p, label), serving' = serving,
         orderly' = AllAnswered
  PROVE  Solo'
<1>1. \A other \in Proc : pc'[other] = IF other = p THEN label ELSE pc[other]
  BY DEF TypeOK, Goto
<1>2. orderly' => \A other \in Proc : pc[other] = "idle"
  BY DEF AllAnswered
<1>3. Main \in Proc
  BY DEF Proc
<1>4. pc'[Main] = "idle" /\ serving'
  BY <1>1, <1>3 DEF Solo
<1>5. orderly' => /\ \A q, other \in Proc :
                       pc'[q] # "idle" /\ pc'[other] # "idle" => q = other
                  /\ \A q \in Proc : pc'[q] \notin {"gravity", "domains", "load"}
  BY <1>1, <1>2
<1>6. ~AllAnswered'
  BY <1>1 DEF AllAnswered
<1> QED
  BY <1>4, <1>5, <1>6 DEF Solo

\* Somebody at work goes on to a place where nothing has been read.
LEMMA SoloGoesOn ==
  ASSUME Solo, TypeOK, NEW p \in Proc, pc[p] # "idle",
         NEW label \in {"reload", "building"}, Goto(p, label),
         serving' = serving, orderly' = orderly
  PROVE  Solo'
<1>1. \A other \in Proc : pc'[other] = IF other = p THEN label ELSE pc[other]
  BY DEF TypeOK, Goto
<1>2. /\ serving' => pc'[Main] = "idle"
      /\ ~serving' => \A q \in Proc : q # Main => pc'[q] = "idle"
  BY <1>1 DEF Solo, Proc
<1>3. orderly => \A other \in Proc : other # p => pc[other] = "idle"
  BY DEF Solo
<1>4. orderly => /\ \A q, other \in Proc :
                      pc'[q] # "idle" /\ pc'[other] # "idle" => q = other
                 /\ \A q \in Proc : pc'[q] \notin {"gravity", "domains", "load"}
  BY <1>1, <1>3
<1>5. ~AllAnswered'
  BY <1>1 DEF AllAnswered
<1> QED
  BY <1>2, <1>4, <1>5 DEF Solo

\* Every step keeps it.
LEMMA SoloStep == TypeOK /\ Solo /\ [Next]_vars => Solo'
<1> SUFFICES ASSUME TypeOK, Solo, [Next]_vars PROVE Solo'
  OBVIOUS
<1>1. ASSUME NEW p \in Proc, Handle(p) PROVE Solo'
  <2>1. /\ p \in Handler /\ pc[p] = "idle" /\ serving
        /\ p # Main
    BY <1>1, RuleReloadAssumption DEF Handle, handleDomainsCreate, handleDomainsPatch,
       handleDomainsDelete, handleListsCreate, handleListsPatch, handleListsDelete,
       handleListsUpdate, handleGroupsCreate, handleGroupsPatch, Ready, Arrives
  <2>2. CASE ThenReload(p)
    BY <2>1, <2>2, SoloBegins DEF ThenReload, RuleWritten
  <2>3. CASE Answer(p)
    <3>1. pc' = pc
      BY <2>1, <2>3 DEF Answer, Goto, TypeOK
    <3> QED
      BY <2>3, <3>1 DEF Answer, reloadVars, Solo, AllAnswered
  <2>4. CASE handleListsUpdate(p)
    <3>1. PICK u \in Updater : pc[u] = "idle" /\ Goto(u, "building")
      BY <2>4 DEF handleListsUpdate
    <3>2. u \in Proc /\ u # Main
      BY <3>1, RuleReloadAssumption DEF Proc
    <3>3. serving' = serving /\ orderly' = AllAnswered
      BY <2>4 DEF handleListsUpdate, reloadVars
    <3> QED
      BY <2>1, <3>1, <3>2, <3>3, SoloBegins
  <2> QED
    BY <1>1, <2>2, <2>3, <2>4 DEF Handle, handleDomainsCreate, handleDomainsPatch,
       handleDomainsDelete, handleListsCreate, handleListsPatch, handleListsDelete,
       handleGroupsCreate, handleGroupsPatch
<1>2. ASSUME NEW p \in Proc, NEW i \in Id, NEW ds \in SUBSET Domain, BuilderStores(p, i, ds)
      PROVE  Solo'
  <2>1. /\ Goto(p, "building") /\ pc[p] # "idle"
        /\ serving' = serving /\ orderly' = orderly
    BY <1>2 DEF BuilderStores, RuleWritten, Goto, TypeOK
  <2> QED
    BY <2>1, SoloGoesOn
<1>3. ASSUME NEW p \in Proc, BuilderEnds(p) PROVE Solo'
  BY <1>3, SoloGoesOn DEF BuilderEnds, reloadVars
<1>4. ASSUME NEW p \in Proc, Reload(p) PROVE Solo'
  <2>0. /\ pc[p] # "idle" /\ Main \in Proc
        /\ p = Main <=> ~serving
    BY <1>4 DEF Reload, QueryGravity, CloseGravityRows, QueryDomains, Load,
       ReloadFails, Solo, Proc
  <2>1. orderly => \A other \in Proc : other # p => pc[other] = "idle"
    BY <2>0 DEF Solo
  <2>2. CASE QueryGravity(p) \/ CloseGravityRows(p) \/ QueryDomains(p)
    <3>1. PICK label \in {"gravity", "domains", "load"} : Goto(p, label)
      BY <2>2 DEF QueryGravity, CloseGravityRows, QueryDomains
    <3>2. \A other \in Proc : pc'[other] = IF other = p THEN label ELSE pc[other]
      BY <3>1 DEF TypeOK, Goto
    <3>3. /\ orderly => p \in readCurrent'
          /\ serving' = serving /\ orderly' = orderly
      BY <2>2 DEF Solo, QueryGravity, CloseGravityRows, QueryDomains
    <3>4. ~AllAnswered'
      BY <3>2 DEF AllAnswered
    <3>5. /\ serving' => pc'[Main] = "idle"
          /\ ~serving' => \A q \in Proc : q # Main => pc'[q] = "idle"
      BY <2>0, <3>2, <3>3 DEF Solo
    <3>6. orderly => /\ \A q, other \in Proc :
                          pc'[q] # "idle" /\ pc'[other] # "idle" => q = other
                     /\ \A q \in Proc :
                          pc'[q] \in {"gravity", "domains", "load"} => q \in readCurrent'
      BY <2>1, <3>2, <3>3
    <3> QED
      BY <3>3, <3>4, <3>5, <3>6 DEF Solo
  <2>3. ASSUME Load(p) \/ ReloadFails(p)
        PROVE  /\ \A other \in Proc : pc'[other] = IF other = p THEN "idle" ELSE pc[other]
               /\ serving' => pc'[Main] = "idle"
               /\ ~serving' => \A q \in Proc : q # Main => pc'[q] = "idle"
    <3>1. \A other \in Proc : pc'[other] = IF other = p THEN "idle" ELSE pc[other]
      BY <2>3 DEF TypeOK, Load, ReloadFails, Done, Goto
    <3>2. serving'
      BY <2>0, <2>3 DEF Load, ReloadFails, Done
    <3>3. pc'[Main] = "idle"
      BY <2>0, <3>1 DEF Solo
    <3> QED
      BY <3>1, <3>2, <3>3
  <2>4. CASE Load(p)
    <3>1. orderly' = orderly /\ (orderly => engineCurrent')
      BY <2>4 DEF Load, Solo
    <3>2. orderly => \A other \in Proc : pc'[other] = "idle"
      BY <2>1, <2>3, <2>4
    <3> QED
      BY <2>3, <2>4, <3>1, <3>2 DEF Solo
  <2>5. CASE ReloadFails(p)
    BY <2>3, <2>5 DEF ReloadFails, Solo
  <2> QED
    BY <1>4, <2>2, <2>4, <2>5 DEF Reload
<1>5. CASE Restart
  BY <1>5 DEF Restart, Booting, Solo, Proc, AllAnswered
<1>6. CASE UNCHANGED vars
  BY <1>6 DEF vars, reloadVars, Solo, AllAnswered
<1> QED
  BY <1>1, <1>2, <1>3, <1>4, <1>5, <1>6 DEF Next

LEMMA SoloInit == Init => Solo
  BY DEF Init, Booting, Solo, Proc, AllAnswered

\* When a system has come to rest after a change that began alone, it evaluates
\* queries against exactly the rules of the database: for any number of requests
\* and updates, whatever overlapped or failed before, across restarts.
THEOREM FreshTheorem == Spec => []FreshWhenIdle
<1>1. Spec => []ReloadInv
  BY ReloadInitInv, ReloadNextInv, PTL DEF Spec
<1>3. TypeOK /\ Solo /\ [Next]_vars => Solo'
  BY SoloStep
<1>4. ReloadInv => TypeOK /\ EngineMatches
  BY DEF ReloadInv
<1>5. EngineMatches /\ Solo => FreshWhenIdle
  BY DEF EngineMatches, Solo, FreshWhenIdle
<1> QED
  BY <1>1, SoloInit, <1>3, <1>4, <1>5, PTL DEF Spec

\* The goroutines, the connection and the copies keep their types.
THEOREM ReloadTypesTheorem == Spec => []TypeOK
BY EngineMatchesTheorem, PTL

-----------------------------------------------------------------------------
(* What the user is served *)

LEMMA SnapshotType == DBInv => Snapshot \in RuleSet
<1> SUFFICES ASSUME DBInv PROVE Snapshot \in RuleSet
  OBVIOUS
<1>1. /\ \A g \in GravityRows : g[1] \in Domain
      /\ \A d \in DomainRows : d[1] \in Id /\ d[2] \in Domain
  BY RowTypes
<1> QED
  BY <1>1 DEF Snapshot, Compile, RuleSet

\* Nothing but the tables decides what a reload would load.
LEMMA SnapshotOfTables == UNCHANGED dbVars => UNCHANGED Snapshot
  BY DEF dbVars, adlistVars, domainVars, groupVars, Snapshot, GravityRows, DomainRows,
     ActiveAdlist, ActiveDomain

\* Whatever a reload has read, the engine it makes of that is a set of rules.
LEMMA LoadedType ==
  ASSUME TypeOK, NEW p \in Proc
  PROVE  Loaded(rows[p]) \in RuleSet
<1>1. /\ \A g \in rows[p].gravity : g[1] \in Domain
      /\ \A d \in rows[p].domains : d[1] \in Id /\ d[2] \in Domain
  BY DEF TypeOK
<1> QED
  BY <1>1 DEF Loaded, Compile, RuleSet

\* A step that leaves somebody at work and the engine as it is: the rules may change.
LEMMA Working ==
  ASSUME DBInv', engine' = engine, serving' = serving, ~AllAnswered',
         orderly' = AllAnswered \/ orderly' = orderly
  PROVE  Service!Next
<1>1. Snapshot' \in RuleSet
  <2>1. (DBInv => Snapshot \in RuleSet)'
    BY SnapshotType, PTL
  <2> QED
    BY <2>1 DEF RuleSet
<1>2. AllAnswered' = FALSE
  BY DEF AllAnswered
<1>3. orderly' \in {AllAnswered, orderly}
  OBVIOUS
<1> QED
  BY <1>1, <1>2, <1>3 DEF Service!Next, Service!Change

\* The last step of a reload: if it is orderly everybody else is idle and what was
\* read is what is stored, which is the answer.  Otherwise it is one of several.
LEMMA LoadServes ==
  ASSUME ReloadInv, Solo, EngineMatches', NEW p \in Proc, Load(p)
  PROVE  Service!Next
<1>1. /\ pc[p] = "load" /\ UNCHANGED dbVars
      /\ pc' = [pc EXCEPT ![p] = "idle"]
      /\ serving' = (serving \/ p = Main)
      /\ orderly' = orderly
      /\ engine' = Loaded(rows[p])
  BY DEF Load, Done, Goto
<1>2. Snapshot' = Snapshot
  BY <1>1, SnapshotOfTables
<1>3. AllAnswered = FALSE
  BY <1>1 DEF AllAnswered
<1>4. serving'
  BY <1>1 DEF Solo
<1>5. CASE orderly
  <2>1. engine' = Snapshot
    BY <1>2, <1>5 DEF EngineMatches, Load, Solo
  <2>2. \A other \in Proc : other # p => pc[other] = "idle"
    BY <1>1, <1>5 DEF Solo
  <2>3. \A other \in Proc : pc'[other] = "idle"
    BY <1>1, <2>2 DEF ReloadInv, TypeOK
  <2>4. AllAnswered' = TRUE /\ serving' = TRUE
    <3>1. serving' \in BOOLEAN
      BY <1>1 DEF ReloadInv, TypeOK
    <3> QED
      BY <1>4, <2>3, <3>1 DEF AllAnswered
  <2> QED
    BY <1>1, <1>2, <1>3, <1>5, <2>1, <2>4 DEF Service!Next, Service!Answer
<1>6. CASE ~orderly
  <2>1. engine' \in RuleSet
    BY <1>1, LoadedType DEF ReloadInv
  <2>2. AllAnswered' \in BOOLEAN
    BY DEF AllAnswered
  <2>3. serving' \in {serving, TRUE}
    BY <1>1, <1>4 DEF ReloadInv, TypeOK
  <2> QED
    BY <1>1, <1>2, <1>3, <1>6, <2>1, <2>2, <2>3 DEF Service!Next, Service!Overtaken
<1> QED
  BY <1>5, <1>6

\* A handler writes rules and goes on to a reload, starts an update, or writes
\* no rule and answers.
LEMMA HandleServes ==
  ASSUME DBInv, DBInv', TypeOK, NEW p \in Proc, Handle(p)
  PROVE  Service!Next \/ UNCHANGED <<Snapshot, engine, serving, AllAnswered, orderly>>
<1>1. CASE ThenReload(p)
  <2>1. /\ engine' = engine /\ serving' = serving /\ pc'[p] # "idle"
        /\ orderly' = AllAnswered
    BY <1>1 DEF ThenReload, Goto, RuleWritten, TypeOK
  <2>2. ~AllAnswered'
    BY <2>1 DEF AllAnswered
  <2> QED
    BY <2>1, <2>2, Working
<1>2. CASE Ready(p) /\ Answer(p) /\ QuietWrite
  <2>1. UNCHANGED <<GravityRows, DomainRows>>
    BY <1>2, QuietWriteKeepsRows
  <2>2. Snapshot' = Snapshot
    BY <2>1 DEF Snapshot
  <2>3. /\ engine' = engine /\ serving' = serving /\ orderly' = orderly
        /\ \A q \in Proc : pc'[q] = pc[q]
    BY <1>2 DEF Ready, Arrives, Answer, Goto, reloadVars, TypeOK
  <2>4. AllAnswered' = AllAnswered
    BY <2>3 DEF AllAnswered
  <2> QED
    BY <2>2, <2>3, <2>4
<1>3. CASE handleListsUpdate(p)
  <2>1. PICK u \in Proc : Goto(u, "building")
    BY <1>3 DEF handleListsUpdate, Proc
  <2>2. /\ engine' = engine /\ serving' = serving /\ pc'[u] # "idle"
        /\ orderly' = AllAnswered
    BY <1>3, <2>1 DEF handleListsUpdate, Goto, reloadVars, TypeOK
  <2>3. ~AllAnswered'
    BY <2>2 DEF AllAnswered
  <2> QED
    BY <2>2, <2>3, Working
<1> QED
  BY <1>1, <1>2, <1>3 DEF Handle, handleDomainsCreate, handleDomainsPatch,
     handleDomainsDelete, handleListsCreate, handleListsPatch, handleListsDelete,
     handleGroupsCreate, handleGroupsPatch, QuietWrite

LEMMA ServesStep ==
  ASSUME ReloadInv, ReloadInv', Solo, [Next]_vars
  PROVE  Service!Next \/ UNCHANGED <<Snapshot, engine, serving, AllAnswered, orderly>>
<1>0. DBInv /\ DBInv' /\ TypeOK /\ EngineMatches'
  BY DEF ReloadInv
<1>1. ASSUME NEW p \in Proc, Handle(p)
      PROVE  Service!Next \/ UNCHANGED <<Snapshot, engine, serving, AllAnswered, orderly>>
  BY <1>0, <1>1, HandleServes
<1>2. ASSUME NEW p \in Proc,
             \/ \E i \in Id, ds \in SUBSET Domain : BuilderStores(p, i, ds)
             \/ BuilderEnds(p) \/ QueryGravity(p) \/ CloseGravityRows(p) \/ QueryDomains(p)
      PROVE  Service!Next
  <2>1. /\ engine' = engine /\ serving' = serving /\ orderly' = orderly
        /\ pc'[p] # "idle"
    BY <1>0, <1>2 DEF BuilderStores, RuleWritten, BuilderEnds, QueryGravity,
       CloseGravityRows, QueryDomains, Goto, reloadVars, TypeOK
  <2>2. ~AllAnswered'
    BY <2>1 DEF AllAnswered
  <2> QED
    BY <1>0, <2>1, <2>2, Working
<1>4. ASSUME NEW p \in Proc, Load(p) PROVE Service!Next
  BY <1>0, <1>4, LoadServes
<1>5. ASSUME NEW p \in Proc, ReloadFails(p) PROVE Service!Next
  <2>1. UNCHANGED <<Snapshot, engine>> /\ orderly' = FALSE
    BY <1>5, SnapshotOfTables DEF ReloadFails
  <2>2. AllAnswered = FALSE
    BY <1>5 DEF ReloadFails, AllAnswered
  <2>3. serving' \in {serving, TRUE}
    BY <1>0, <1>5 DEF ReloadFails, Done, TypeOK
  <2>4. AllAnswered' \in BOOLEAN
    BY DEF AllAnswered
  <2> QED
    BY <2>1, <2>2, <2>3, <2>4 DEF Service!Next, Service!Failed
<1>6. CASE Restart
  <2>1. Snapshot' = Snapshot
    BY <1>6, SnapshotOfTables DEF Restart
  <2>2. /\ AllAnswered' = FALSE /\ serving' = FALSE /\ engine' = Compile(NoRows)
        /\ orderly' = TRUE
    BY <1>6 DEF Restart, AllAnswered
  <2>3. Service!Restart
    BY <2>1, <2>2, Zenon DEF Service!Restart
  <2> QED
    BY <2>3 DEF Service!Next
<1>7. CASE UNCHANGED vars
  BY <1>7, SnapshotOfTables DEF vars, reloadVars, AllAnswered
<1> QED
  BY <1>1, <1>2, <1>4, <1>5, <1>6, <1>7 DEF Next, Reload

\* The API serves what RuleService says, for any number of requests and updates,
\* with queries that fail and restarts: while a change that began alone is at work,
\* queries go by the rules of the last answer, and when it has ended by all that is
\* stored then; changes that overlap leave rules that were read; and the engine is
\* never emptied while it serves, save by rules that were read.
THEOREM ServesTheorem == Spec => ServesAnswered
<1>1. Spec => []ReloadInv
  BY ReloadInitInv, ReloadNextInv, PTL DEF Spec
<1>3. ReloadInv /\ Solo /\ [Next]_vars => Solo'
  BY SoloStep DEF ReloadInv
<1>4. Init => Service!Init
  <2>1. Init => DBInv
    BY InitInv DEF Init
  <2>2. Init => /\ AllAnswered = FALSE /\ serving = FALSE /\ engine = Compile(NoRows)
                /\ orderly = TRUE
    BY DEF Init, AllAnswered
  <2> QED
    BY <2>1, <2>2, SnapshotType DEF Service!Init
<1>5. ReloadInv /\ ReloadInv' /\ Solo /\ [Next]_vars
        => [Service!Next]_<<Snapshot, engine, serving, AllAnswered, orderly>>
  BY ServesStep
<1> QED
  BY <1>1, SoloInit, <1>3, <1>4, <1>5, PTL DEF Spec, ServesAnswered, Service!Spec

\* With the default group switched off by a change that began alone and has ended,
\* nothing is blocked and nothing is allowed: the engine is that of an empty database,
\* though the rules are all there.
Silenced ==
    AllAnswered /\ orderly /\ ~group[DefaultGroup].enabled => engine = Compile(NoRows)

\* gravity_store.go:332 - both queries join the enabled groups, and every
\* rule is in the default one only.
THEOREM SilencedTheorem == Spec => []Silenced
<1>1. FreshWhenIdle /\ DefaultGroupSilences => Silenced
  BY DEF FreshWhenIdle, DefaultGroupSilences, Silenced, Snapshot, NoRows
<1>2. Spec => []DefaultGroupSilences
  BY ReloadUsesStore, DefaultGroupTheorem, PTL
<1> QED
  BY <1>1, <1>2, FreshTheorem, PTL
=============================================================================
