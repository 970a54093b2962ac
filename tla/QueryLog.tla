------------------------------ MODULE QueryLog ------------------------------
(***************************************************************************)
(* The query log: QueryStore of internal/db/query_store.go between the     *)
(* resolver, whose goroutines call Log once per query (dns/resolver.go),   *)
(* and query_log in queries.db, with the end of runServe (main.go), which  *)
(* shuts the DNS server down, waits for its handlers for five seconds at   *)
(* most, and closes the store.                                             *)
(*                                                                         *)
(* An event is the number of its call of Log.  The tables are written in   *)
(* one transaction per batch over the one connection of queries.db.        *)
(***************************************************************************)
EXTENDS Integers, Sequences

CONSTANTS
    Resolver,     \* goroutines that serve DNS queries
    BufferSize,   \* queryBufferSize
    BatchSize,    \* flushBatchSize
    MaxEvents,    \* bound: calls of Log
    WriteFaults   \* TRUE: a batch may fail to be written

ASSUME QueryLogAssumption ==
    /\ BufferSize \in Nat \ {0}
    /\ BatchSize \in Nat \ {0}
    /\ MaxEvents \in Nat
    /\ WriteFaults \in BOOLEAN

Event == 1..MaxEvents

VARIABLES
    phase,      \* of the process: serving, stopping, closing, exited or killed
    query,      \* a resolver goroutine: idle, or busy with a query it will log
    events,     \* the channel
    dropped,    \* the counter of what did not fit
    batch,      \* what loop has taken from the channel and not written
    loop,       \* where loop is: select, write, drain, last, stopped
    query_log,  \* the table
    issued,     \* history: calls of Log
    accepted,   \* history: the events the channel took, in order
    discarded,  \* history: the events of batches that failed
    timedOut    \* history: the shutdown did not wait for every handler

writerVars == <<batch, loop, query_log, discarded>>
logVars == <<dropped, issued, accepted>>
vars == <<phase, query, events, writerVars, logVars, timedOut>>

Alive == phase \notin {"exited", "killed"}

-----------------------------------------------------------------------------
(* The resolver *)

\* The UDP server is shut down first: the TCP one still receives meanwhile.
Receive(r) ==
    /\ phase \in {"serving", "stopping"} /\ query[r] = "idle" /\ issued < MaxEvents
    /\ query' = [query EXCEPT ![r] = "busy"]
    /\ UNCHANGED <<phase, events, writerVars, logVars, timedOut>>

\* The channel takes one event more than it has room for.
MutFits == Len(events) <= BufferSize
Fits == Len(events) < BufferSize

Accept ==
    /\ events' = Append(events, issued')
    /\ accepted' = Append(accepted, issued')
    /\ UNCHANGED dropped

\* Given up without being counted.
MutGiveUp == UNCHANGED <<events, accepted, dropped>>
GiveUp ==
    /\ dropped' = dropped + 1
    /\ UNCHANGED <<events, accepted>>

\* select with a default: Log never waits.
Log(r) ==
    /\ Alive /\ query[r] = "busy" /\ issued < MaxEvents
    /\ query' = [query EXCEPT ![r] = "idle"]
    /\ issued' = issued + 1
    /\ \/ Fits /\ Accept
       \/ ~Fits /\ GiveUp
    /\ UNCHANGED <<phase, writerVars, timedOut>>

-----------------------------------------------------------------------------
(* loop *)

Take ==
    /\ batch' = Append(batch, Head(events))
    /\ events' = Tail(events)

LoopReceive ==
    /\ Alive /\ loop = "select" /\ events # <<>>
    /\ Take
    /\ loop' = IF Len(batch') >= BatchSize THEN "write" ELSE "select"
    /\ UNCHANGED <<phase, query, query_log, discarded, logVars, timedOut>>

\* Only a full batch is worth a transaction.
MutLoopTick ==
    /\ Alive /\ loop = "select" /\ Len(batch) >= BatchSize
    /\ loop' = "write"
    /\ UNCHANGED <<phase, query, events, batch, query_log, discarded, logVars, timedOut>>

\* A tick with an empty batch does nothing.
LoopTick ==
    /\ Alive /\ loop = "select" /\ batch # <<>>
    /\ loop' = "write"
    /\ UNCHANGED <<phase, query, events, batch, query_log, discarded, logVars, timedOut>>

\* Closed down without emptying the channel first.
MutLoopDone ==
    /\ phase = "closing" /\ loop = "select"
    /\ loop' = IF batch = <<>> THEN "stopped" ELSE "last"
    /\ UNCHANGED <<phase, query, events, batch, query_log, discarded, logVars, timedOut>>

LoopDone ==
    /\ phase = "closing" /\ loop = "select"
    /\ loop' = "drain"
    /\ UNCHANGED <<phase, query, events, batch, query_log, discarded, logVars, timedOut>>

DrainReceive ==
    /\ Alive /\ loop = "drain" /\ events # <<>>
    /\ Take
    /\ UNCHANGED <<phase, query, loop, query_log, discarded, logVars, timedOut>>

\* The default case leaves the inner loop only.
MutDrainEnd ==
    /\ Alive /\ loop = "drain" /\ events = <<>>
    /\ loop' = "select"
    /\ UNCHANGED <<phase, query, events, batch, query_log, discarded, logVars, timedOut>>

DrainEnd ==
    /\ Alive /\ loop = "drain" /\ events = <<>>
    /\ loop' = IF batch = <<>> THEN "stopped" ELSE "last"
    /\ UNCHANGED <<phase, query, events, batch, query_log, discarded, logVars, timedOut>>

Flushed ==
    /\ batch' = <<>>
    /\ loop' = IF loop = "last" THEN "stopped" ELSE "select"
    /\ UNCHANGED <<phase, query, events, logVars, timedOut>>

Write ==
    /\ Alive /\ loop \in {"write", "last"}
    /\ query_log' = query_log \o batch
    /\ Flushed
    /\ UNCHANGED discarded

\* Rows of the batch stay in the table though the batch is reported as failed.
MutWriteFails ==
    /\ WriteFaults
    /\ Alive /\ loop \in {"write", "last"}
    /\ query_log' = Append(query_log, Head(batch))
    /\ discarded' = discarded \cup {batch[i] : i \in DOMAIN batch}
    /\ Flushed

\* The transaction is rolled back, the error logged, the batch forgotten.
WriteFails ==
    /\ WriteFaults
    /\ Alive /\ loop \in {"write", "last"}
    /\ discarded' = discarded \cup {batch[i] : i \in DOMAIN batch}
    /\ Flushed
    /\ UNCHANGED query_log

Loop ==
    \/ LoopReceive \/ LoopTick \/ LoopDone
    \/ DrainReceive \/ DrainEnd
    \/ Write \/ WriteFails

-----------------------------------------------------------------------------
(* The end of runServe *)

\* A signal, or a server that failed.
Stop ==
    /\ phase = "serving"
    /\ phase' = "stopping"
    /\ UNCHANGED <<query, events, writerVars, logVars, timedOut>>

\* Shutdown returns when the handlers of both servers have, or when its time is
\* over; then the deferred Close closes done.
Close ==
    /\ phase = "stopping"
    /\ phase' = "closing"
    /\ timedOut' = \E r \in Resolver : query[r] = "busy"
    /\ UNCHANGED <<query, events, writerVars, logVars>>

\* Close returns once loop has stopped, and runServe with it.
Exit ==
    /\ phase = "closing" /\ loop = "stopped"
    /\ phase' = "exited"
    /\ UNCHANGED <<query, events, writerVars, logVars, timedOut>>

\* The process is killed: what was not written is gone.
Kill ==
    /\ Alive
    /\ phase' = "killed"
    /\ UNCHANGED <<query, events, writerVars, logVars, timedOut>>

-----------------------------------------------------------------------------
Init ==
    /\ phase = "serving"
    /\ query = [r \in Resolver |-> "idle"]
    /\ events = <<>> /\ dropped = 0
    /\ batch = <<>> /\ loop = "select" /\ query_log = <<>>
    /\ issued = 0 /\ accepted = <<>> /\ discarded = {} /\ timedOut = FALSE

Next ==
    \/ \E r \in Resolver : Receive(r) \/ Log(r)
    \/ Loop
    \/ Stop \/ Close \/ Exit \/ Kill

\* The goroutine of loop runs when it can, the ticker ticks, a query is answered
\* or times out, and runServe goes on once it was told to stop.
Fairness ==
    /\ WF_vars(Loop)
    /\ \A r \in Resolver : WF_vars(Log(r))
    /\ WF_vars(Close)
    /\ WF_vars(Exit)

Spec == Init /\ [][Next]_vars
FairSpec == Spec /\ Fairness

-----------------------------------------------------------------------------
(* Properties *)

\* Queues, phases and counters are of their types and within their sizes.
TypeOK ==
    /\ phase \in {"serving", "stopping", "closing", "exited", "killed"}
    /\ query \in [Resolver -> {"idle", "busy"}]
    /\ events \in Seq(Event) /\ Len(events) <= BufferSize
    /\ batch \in Seq(Event)
    /\ loop \in {"select", "write", "drain", "last", "stopped"}
    /\ loop = "select" => Len(batch) < BatchSize
    /\ loop = "write" => Len(batch) <= BatchSize
    /\ query_log \in Seq(Event) /\ accepted \in Seq(Event)
    /\ dropped \in 0..MaxEvents /\ issued \in 0..MaxEvents
    /\ discarded \subseteq Event
    /\ timedOut \in BOOLEAN

\* Every event the channel took is in the table, in the batch, in the channel or
\* in a batch that failed: once, and in the order of the calls of Log, which is the
\* order of the events.
Elements(s) == {s[i] : i \in DOMAIN s}
Held == query_log \o batch \o events

ExactlyOnceInOrder ==
    /\ \A i, j \in DOMAIN Held : i < j => Held[i] < Held[j]
    /\ Elements(Held) = Elements(accepted) \ discarded

\* query_store.go:48 - a call of Log that the channel did not take is counted (which
\* is part of KeepsPromise).
DropsCounted == issued = Len(accepted) + dropped

\* An orderly end, with every handler waited for, leaves nothing behind.
OrderlyExitKeepsAll == phase = "exited" /\ ~timedOut => batch = <<>> /\ events = <<>>

\* query_store.go:48 - the store is a log that may lose but never waits: whichever
\* way the channel, the batch and the end of the process interleave, a call is
\* refused only while a channel's worth waits, and a batch is stored as a whole.
Promise == INSTANCE LossyLog WITH
    calls <- issued, waiting <- batch \o events, stored <- query_log,
    refused <- dropped, forgotten <- discarded, open <- Alive

KeepsPromise == Promise!Spec

\* While the process lives, an accepted event is written or its batch fails.
Settled == \A e \in Event :
    e \in {accepted[i] : i \in DOMAIN accepted} ~>
        \/ e \in {query_log[i] : i \in DOMAIN query_log} \cup discarded
        \/ phase \in {"exited", "killed"}

\* Told to stop, the process ends: Close is not left waiting for loop.
StopEnds == phase = "stopping" ~> ~Alive
=============================================================================
