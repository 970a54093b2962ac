----------------------------- MODULE QueryReads -----------------------------
(***************************************************************************)
(* The readers of the query log while its writer works: Summary and Recent *)
(* of internal/db/query_store.go behind handleStatsSummary (api/stats.go)  *)
(* and handleQueriesList (api/queries.go).  Summary is several statements, *)
(* and a client that pages through Recent asks once per page: batches are  *)
(* committed in between.  Of the six statements of Summary, the two for    *)
(* the top domains, which come before the last, are left out.              *)
(*                                                                         *)
(* A row is the event it holds; its id is its place in query_log.          *)
(***************************************************************************)
EXTENDS QueryLog, FiniteSets

CONSTANTS
    IsBlocked,     \* the events with one of the four blocked statuses
    QTypeOf,       \* the query type of an event
    Named,         \* the query types qtypeName has a name for
    Filter,        \* what a request may select: sets of events
    DefaultLimit, MaxLimit,   \* of a page
    Limit          \* the limits a client asks for

Other == "OTHER"

ASSUME QueryReadsAssumption ==
    /\ IsBlocked \subseteq Event
    /\ DOMAIN QTypeOf = Event
    /\ Other \notin Named
    /\ Filter \subseteq SUBSET Event
    /\ DefaultLimit \in 1..MaxLimit /\ MaxLimit \in Nat
    /\ Limit \subseteq Nat

VARIABLES
    reader,    \* idle, where Summary is, paging, or done
    filter,    \* the rows asked for
    summary,   \* the figures so far
    limit,     \* what the client asks for per page
    offset,    \* where the next page begins
    seen,      \* the rows of the pages so far
    began      \* history: the rows of the table when the first request came in

readVars == <<reader, filter, summary, limit, offset, seen, began>>
allVars == <<vars, readVars>>

-----------------------------------------------------------------------------
\* The API answers while the servers are up.
Answering == phase \in {"serving", "stopping"}

Rows == {query_log[i] : i \in DOMAIN query_log}

\* Every row is counted, not those asked for only.
MutCount(events_) == Cardinality(Rows \cap events_)
Count(events_) == Cardinality(Rows \cap filter \cap events_)

NoSummary == [total |-> 0, blocked |-> 0, forwarded |-> 0, types |-> <<>>]

Ask(f) ==
    /\ Answering /\ reader = "idle"
    /\ filter' = f
    /\ began' = Rows \cap f

(* Summary *)

CountTotal(f) ==
    /\ Ask(f)
    /\ reader' = "blocked"
    /\ summary' = [NoSummary EXCEPT !.total = Cardinality(Rows \cap f)]
    /\ UNCHANGED <<vars, limit, offset, seen>>

CountBlocked ==
    /\ Answering /\ reader = "blocked"
    /\ reader' = "forwarded"
    /\ summary' = [summary EXCEPT !.blocked = Count(IsBlocked)]
    /\ UNCHANGED <<vars, filter, limit, offset, seen, began>>

CountForwarded ==
    /\ Answering /\ reader = "forwarded"
    /\ reader' = "types"
    /\ summary' = [summary EXCEPT !.forwarded = Count(Event \ IsBlocked)]
    /\ UNCHANGED <<vars, filter, limit, offset, seen, began>>

\* Every type with a row has its count under its name; of the types that have
\* none, one overwrites the others.
Types == {QTypeOf[e] : e \in Rows \cap filter}
OfType(t) == {e \in Event : QTypeOf[e] = t}

CountTypes ==
    /\ Answering /\ reader = "types"
    /\ reader' = "summed"
    /\ \E last \in Types \cup {Other} :
        /\ last \in Types <=> Types \ Named # {}
        /\ last \notin Named
        /\ summary' = [summary EXCEPT !.types =
              [name \in (Types \cap Named) \cup (IF last = Other THEN {} ELSE {Other}) |->
                  Count(OfType(IF name = Other THEN last ELSE name))]]
    /\ UNCHANGED <<vars, filter, limit, offset, seen, began>>

(* Recent, page by page *)

\* A limit that is no number from 1 to 1000 is the default.
PageSize == IF limit \in 1..MaxLimit THEN limit ELSE DefaultLimit

\* The ids of the rows asked for, and how many of them are newer than one.
Found == {k \in DOMAIN query_log : query_log[k] \in filter}
Newer(k) == Cardinality({j \in Found : j > k})

\* LIMIT and OFFSET bound the wrong way round.
MutRecent(size, skip) == {query_log[k] : k \in {j \in Found : Newer(j) \in size..(size + skip - 1)}}

\* ORDER BY id DESC LIMIT size OFFSET skip
Recent(size, skip) == {query_log[k] : k \in {j \in Found : Newer(j) \in skip..(skip + size - 1)}}

StartPaging(f, l) ==
    /\ Ask(f)
    /\ reader' = "paging"
    /\ limit' = l /\ offset' = 0 /\ seen' = {}
    /\ UNCHANGED <<vars, summary>>

\* A client goes on where the page ended, until one is empty.
NextPage ==
    LET page == Recent(PageSize, offset) IN
    /\ Answering /\ reader = "paging"
    /\ seen' = seen \cup page
    /\ offset' = offset + Cardinality(page)
    /\ reader' = IF page = {} THEN "paged" ELSE "paging"
    /\ UNCHANGED <<vars, filter, summary, limit, began>>

Read ==
    \/ \E f \in Filter : CountTotal(f)
    \/ CountBlocked \/ CountForwarded \/ CountTypes
    \/ \E f \in Filter, l \in Limit : StartPaging(f, l)
    \/ NextPage

-----------------------------------------------------------------------------
ReadInit ==
    /\ Init
    /\ reader = "idle" /\ filter = {} /\ summary = NoSummary
    /\ limit = 0 /\ offset = 0 /\ seen = {} /\ began = {}

ReadNext == (Next /\ UNCHANGED readVars) \/ Read

ReadSpec == ReadInit /\ [][ReadNext]_allVars /\ Fairness

-----------------------------------------------------------------------------
(* Properties *)

Asked(events_) == Cardinality(Rows \cap filter \cap events_)

\* stats.go:26 - the figures of one answer are of different instants, but none is
\* below what the table held when the request came in or above what it holds, and
\* every query of the total is among the blocked or the forwarded ones.
SummaryCoversLog ==
    reader = "summed" =>
        /\ summary.blocked + summary.forwarded >= summary.total
        /\ summary.total >= Cardinality(began)
        /\ summary.blocked \in Cardinality(began \cap IsBlocked)..Asked(IsBlocked)
        /\ summary.forwarded \in Cardinality(began \ IsBlocked)..Asked(Event \ IsBlocked)
        /\ \A e \in began : QTypeOf[e] \in Named =>
              summary.types[QTypeOf[e]] \in
                  Cardinality(began \cap OfType(QTypeOf[e]))..Asked(OfType(QTypeOf[e]))

\* query_store.go:185 - offsets count from the newest row, so a batch that comes
\* between two pages makes rows come twice, and none be missed.
PagesMissNothing == reader = "paged" => began \subseteq seen
=============================================================================
