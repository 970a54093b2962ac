------------------------------ MODULE Resolver -------------------------------
(***************************************************************************)
(* The way of a DNS query through internal/dns: handleQuery of resolver.go *)
(* asks the blocking switch, then the engine, and answers by itself        *)
(* (blockresponse.go) or forwards (upstream.go), and logs what it did.     *)
(*                                                                         *)
(* A handler shares the switch and the engine with the API: Toggle and     *)
(* Reload stand for it, and fall between any two of its steps.  Bedtime    *)
(* and RuleReload have their details.  A message is what the log and the   *)
(* client tell apart: its code, the types of its records, its origin.      *)
(***************************************************************************)
EXTENDS Matcher, FiniteSets

CONSTANTS
    Worker,      \* the goroutines of the DNS servers
    Upstreams,   \* the upstream servers, a sequence
    blockMode,   \* "nxdomain" or "null"
    Snapshots,   \* the snapshots a reload may load
    MaxSeen      \* bound: different instants a query meets while it is decided

Local == "local"   \* where an answer comes from that is made up here

ASSUME ResolverAssumption ==
    /\ Len(Upstreams) \in Nat \ {0} /\ DOMAIN Upstreams = 1..Len(Upstreams)
    /\ \A i \in DOMAIN Upstreams : Upstreams[i] # Local
    /\ blockMode \in {"nxdomain", "null"}
    /\ \A snap \in Snapshots : IsSnapshot(snap)
    /\ {"A", "AAAA"} \subseteq QType
    /\ MaxSeen \in Nat

\* query_log.status
StatusBlockedGravity == 1
StatusForwarded == 2
StatusBlockedRegex == 4
StatusBlockedExact == 5
StatusBlockedUpstreamFail == 6

VARIABLES
    healthy,    \* the upstreams that answer every query, a set that stays
    disabled,   \* what IsDisabled answers now
    engine,     \* the snapshot the engine holds
    pc,         \* where a handler is
    q,          \* the question: a name and a query type
    tried,      \* the upstream it is at
    reply,      \* the message it has written, NoMsg if none
    event,      \* what it logs
    truncated,  \* the UDP answer it asks for again over TCP
    exchanges,  \* history: exchanges with upstreams
    seen        \* history: the switch and the engine, until the query is decided

sharedVars == <<healthy, disabled, engine>>
vars == <<sharedVars, pc, q, tried, reply, event, truncated, exchanges, seen>>

Msg(from, rcode, answer) == [From |-> from, Rcode |-> rcode, Answer |-> answer]
NoMsg == Msg("none", "none", <<>>)
NoEvent == [Status |-> 0, Forward |-> "", ReplyType |-> 0]
NoQuestion == [Name |-> Nil, Qtype |-> Nil]

Question == [Name : Name, Qtype : QType]

\* The messages an upstream may answer with; what is neither of these two codes
\* is told apart by nothing here.
Reply(up, qtype) ==
    {Msg(up, "noerror", a) : a \in {<<>>, <<qtype>>, <<"CNAME", qtype>>}}
        \cup {Msg(up, rcode, <<>>) : rcode \in {"nxdomain", "servfail"}}


-----------------------------------------------------------------------------
(* blockresponse.go *)

applyNullRoute(qtype) ==
    Msg(Local, "noerror", IF qtype \in {"A", "AAAA"} THEN <<qtype>> ELSE <<>>)

\* An address of the other family than the one asked for is no answer.
applyIPOverride(qtype, family) ==
    Msg(Local, "noerror", IF qtype = family THEN <<qtype>> ELSE <<>>)

\* A rule without a reply of its own gets that of the mode.
DefaultBlocked(qtype) ==
    IF blockMode = "nxdomain" THEN Msg(Local, "nxdomain", <<>>) ELSE applyNullRoute(qtype)

\* The address is written whatever was asked for.
MutapplyBlockedResponse(qtype, override) ==
    CASE override = "none" -> NoMsg
      [] override \in {"nxdomain", "refused"} -> Msg(Local, override, <<>>)
      [] override = "nodata" -> Msg(Local, "noerror", <<>>)
      [] override \in {"ipv4", "ipv6"} -> Msg(Local, "noerror", <<"A">>)
      [] OTHER -> DefaultBlocked(qtype)

applyBlockedResponse(qtype, override) ==
    CASE override = "none" -> NoMsg
      [] override \in {"nxdomain", "refused"} -> Msg(Local, override, <<>>)
      [] override = "nodata" -> Msg(Local, "noerror", <<>>)
      [] override = "ipv4" -> applyIPOverride(qtype, "A")
      [] override = "ipv6" -> applyIPOverride(qtype, "AAAA")
      [] override = "badip" -> applyNullRoute(qtype)
      [] OTHER -> DefaultBlocked(qtype)

-----------------------------------------------------------------------------
(* resolver.go: what is logged *)

\* The type of the first record of a type it knows decides.
replyTypeFromMsg(m) ==
    LET known == {i \in DOMAIN m.Answer : m.Answer[i] \in {"CNAME", "A", "AAAA"}}
        first == CHOOSE i \in known : \A j \in known : i <= j
    IN CASE m.Rcode = "nxdomain" -> 2
         [] m.Rcode = "servfail" -> 7
         [] m.Rcode \notin {"nxdomain", "servfail"} /\ known # {} ->
                IF m.Answer[first] = "CNAME" THEN 3 ELSE 4
         [] OTHER -> 0

statusForDecision(d) ==
    CASE d.Source = "manual" -> StatusBlockedExact
      [] d.Source = "regex" -> StatusBlockedRegex
      [] OTHER -> StatusBlockedGravity

-----------------------------------------------------------------------------
(* handleQuery *)

Goto(r, label) == pc' = [pc EXCEPT ![r] = label]

\* The answer is written, and what is logged of it is settled.
Write(r, m, status, forward) ==
    /\ reply' = [reply EXCEPT ![r] = m]
    /\ event' = [event EXCEPT ![r] = [Status |-> status, Forward |-> forward,
                                      ReplyType |-> replyTypeFromMsg(m)]]
    /\ Goto(r, "log")

\* A message without a question is answered with a format error at once, and
\* leaves no trace.
Receive(r, question) ==
    /\ pc[r] = "idle"
    /\ Goto(r, "switch")
    /\ q' = [q EXCEPT ![r] = question]
    /\ seen' = [seen EXCEPT ![r] = {[Disabled |-> disabled, Engine |-> engine]}]
    /\ UNCHANGED <<sharedVars, tried, reply, event, truncated, exchanges>>

\* The upstreams are tried from the first.
Forward(r) == Goto(r, "udp") /\ tried' = [tried EXCEPT ![r] = 1]

AskSwitch(r) ==
    /\ pc[r] = "switch"
    /\ \/ disabled /\ Forward(r)
       \/ ~disabled /\ Goto(r, "engine") /\ UNCHANGED tried
    /\ UNCHANGED <<sharedVars, seen, q, reply, event, truncated, exchanges>>

AskEngine(r) ==
    LET decision == Evaluate(engine, q[r].Name, q[r].Qtype) IN
    /\ pc[r] = "engine"
    /\ \/ /\ decision.Blocked
          /\ Write(r, applyBlockedResponse(q[r].Qtype, decision.Reply),
                   statusForDecision(decision), "")
          /\ UNCHANGED tried
       \/ /\ ~decision.Blocked
          /\ Forward(r)
          /\ UNCHANGED <<reply, event>>
    /\ UNCHANGED <<sharedVars, seen, q, truncated, exchanges>>

-----------------------------------------------------------------------------
(* forwardUpstream *)

Upstream(r) == Upstreams[tried[r]]
\* Counted up to the bound the properties need.
Exchange(r) ==
    exchanges' = [exchanges EXCEPT ![r] = IF @ > Len(Upstreams) + 1 THEN @ ELSE @ + 1]

UdpAnswers(r) ==
    /\ pc[r] = "udp"
    /\ \E m \in Reply(Upstream(r), q[r].Qtype) :
           \/ Write(r, m, StatusForwarded, Upstream(r)) /\ UNCHANGED truncated
           \/ /\ truncated' = [truncated EXCEPT ![r] = m]
              /\ Goto(r, "tcp")
              /\ UNCHANGED <<reply, event>>
    /\ Exchange(r)
    /\ UNCHANGED <<sharedVars, seen, q, tried>>

Servfail(r) == Write(r, Msg(Local, "servfail", <<>>), StatusBlockedUpstreamFail, "")

\* The first upstream that fails ends it.
MutUdpFails(r) ==
    /\ pc[r] = "udp" /\ Upstream(r) \notin healthy
    /\ Servfail(r)
    /\ Exchange(r)
    /\ UNCHANGED <<sharedVars, seen, q, tried, truncated>>

UdpFails(r) ==
    /\ pc[r] = "udp" /\ Upstream(r) \notin healthy
    /\ \/ /\ tried[r] < Len(Upstreams)
          /\ tried' = [tried EXCEPT ![r] = @ + 1]
          /\ UNCHANGED <<pc, reply, event>>
       \/ /\ tried[r] = Len(Upstreams)
          /\ Servfail(r)
          /\ UNCHANGED tried
    /\ Exchange(r)
    /\ UNCHANGED <<sharedVars, seen, q, truncated>>

TcpAnswers(r) ==
    /\ pc[r] = "tcp"
    /\ \E m \in Reply(Upstream(r), q[r].Qtype) : Write(r, m, StatusForwarded, Upstream(r))
    /\ truncated' = [truncated EXCEPT ![r] = NoMsg]
    /\ Exchange(r)
    /\ UNCHANGED <<sharedVars, seen, q, tried>>

\* The next upstream is tried although this one has answered.
MutTcpFails(r) ==
    /\ pc[r] = "tcp"
    /\ Goto(r, "udp")
    /\ truncated' = [truncated EXCEPT ![r] = NoMsg]
    /\ Exchange(r)
    /\ UNCHANGED <<sharedVars, seen, q, reply, event, tried>>

\* A truncated answer beats none.
TcpFails(r) ==
    /\ pc[r] = "tcp"
    /\ Write(r, truncated[r], StatusForwarded, Upstream(r))
    /\ truncated' = [truncated EXCEPT ![r] = NoMsg]
    /\ Exchange(r)
    /\ UNCHANGED <<sharedVars, seen, q, tried>>

-----------------------------------------------------------------------------
\* A query whose reply is dropped keeps its handler.
MutLog(r) ==
    /\ pc[r] = "log" /\ reply[r] # NoMsg
    /\ Goto(r, "idle")
    /\ q' = [q EXCEPT ![r] = NoQuestion]
    /\ tried' = [tried EXCEPT ![r] = 0]
    /\ reply' = [reply EXCEPT ![r] = NoMsg]
    /\ event' = [event EXCEPT ![r] = NoEvent]
    /\ exchanges' = [exchanges EXCEPT ![r] = 0]
    /\ seen' = [seen EXCEPT ![r] = {}]
    /\ UNCHANGED <<sharedVars, truncated>>

\* logQuery hands the event to the query store (QueryLog), and the handler ends.
Log(r) ==
    /\ pc[r] = "log"
    /\ Goto(r, "idle")
    /\ q' = [q EXCEPT ![r] = NoQuestion]
    /\ tried' = [tried EXCEPT ![r] = 0]
    /\ reply' = [reply EXCEPT ![r] = NoMsg]
    /\ event' = [event EXCEPT ![r] = NoEvent]
    /\ exchanges' = [exchanges EXCEPT ![r] = 0]
    /\ seen' = [seen EXCEPT ![r] = {}]
    /\ UNCHANGED <<sharedVars, truncated>>

Handle(r) ==
    \/ AskSwitch(r) \/ AskEngine(r)
    \/ UdpAnswers(r) \/ UdpFails(r) \/ TcpAnswers(r) \/ TcpFails(r)
    \/ Log(r)

-----------------------------------------------------------------------------
(* The API: the switch is turned, the engine reloaded *)

\* A handler that has not decided yet sees the change.
Undecided(r) == pc[r] \in {"switch", "engine"}
Witnessed ==
    /\ \A r \in Worker : Undecided(r) => Cardinality(seen[r]) < MaxSeen
    /\ seen' = [r \in Worker |->
                IF Undecided(r) THEN
                    seen[r] \cup {[Disabled |-> disabled', Engine |-> engine']}
                ELSE seen[r]]

Toggle ==
    /\ disabled' = ~disabled
    /\ UNCHANGED <<healthy, engine, pc, q, tried, reply, event, truncated, exchanges>>
    /\ Witnessed

Reload(snap) ==
    /\ engine' = snap
    /\ UNCHANGED <<healthy, disabled, pc, q, tried, reply, event, truncated, exchanges>>
    /\ Witnessed

-----------------------------------------------------------------------------
Init ==
    /\ healthy \in SUBSET {Upstreams[i] : i \in DOMAIN Upstreams}
    /\ disabled = FALSE
    /\ engine \in Snapshots
    /\ pc = [r \in Worker |-> "idle"]
    /\ q = [r \in Worker |-> NoQuestion]
    /\ tried = [r \in Worker |-> 0]
    /\ reply = [r \in Worker |-> NoMsg]
    /\ event = [r \in Worker |-> NoEvent]
    /\ truncated = [r \in Worker |-> NoMsg]
    /\ exchanges = [r \in Worker |-> 0]
    /\ seen = [r \in Worker |-> {}]

Next ==
    \/ \E r \in Worker : (\E question \in Question : Receive(r, question)) \/ Handle(r)
    \/ Toggle
    \/ \E snap \in Snapshots : Reload(snap)

\* An exchange ends with an answer or with its timeout.
Spec == Init /\ [][Next]_vars
FairSpec == Spec /\ \A r \in Worker : WF_vars(Handle(r))

-----------------------------------------------------------------------------
(* Properties *)

\* Handlers and messages are of their types.
TypeOK ==
    /\ healthy \subseteq {Upstreams[i] : i \in DOMAIN Upstreams}
    /\ disabled \in BOOLEAN
    /\ engine \in Snapshots
    /\ pc \in [Worker -> {"idle", "switch", "engine", "udp", "tcp", "log"}]
    /\ \A r \in Worker :
        /\ q[r] \in Question \/ (q[r] = NoQuestion /\ pc[r] = "idle")
        /\ pc[r] \in {"udp", "tcp"} => tried[r] \in DOMAIN Upstreams
        /\ tried[r] \in 0..Len(Upstreams)
        /\ event[r].Status \in {0, StatusBlockedGravity, StatusForwarded, StatusBlockedRegex,
                                StatusBlockedExact, StatusBlockedUpstreamFail}
        /\ pc[r] = "tcp" <=> truncated[r] # NoMsg

\* What the lists of a snapshot say of a question, in any order: a rule that
\* allows it wins.
SaysAllow(snap, n, t) ==
    n \in snap.exactAllow \/ \E i \in DOMAIN snap.regexAllow : Matches(snap.regexAllow[i], n, t)
SaysDeny(snap, n, t, status) ==
    \/ /\ n \in DOMAIN snap.exactDeny
       /\ status = IF snap.exactDeny[n] = "manual" THEN StatusBlockedExact
                                                    ELSE StatusBlockedGravity
    \/ /\ n \notin DOMAIN snap.exactDeny
       /\ \E i \in DOMAIN snap.regexDeny : Matches(snap.regexDeny[i], n, t)
       /\ status = StatusBlockedRegex
BlockedAs(snap, question, status) ==
    LET n == Normal[question.Name]
        t == question.Qtype
    IN ~SaysAllow(snap, n, t) /\ SaysDeny(snap, n, t, status)
BlockStatus == {StatusBlockedGravity, StatusBlockedRegex, StatusBlockedExact}

\* Every decision was right at some instant of the query, however often the
\* switch is turned and the engine reloaded meanwhile: a blocked query met a
\* switch that was on, and a rule of the source it is logged with; any other
\* one a switch that was off, or an engine that let it pass.
DecidedByWhatWas ==
    \A r \in Worker : pc[r] = "log" =>
        \/ /\ event[r].Status \in BlockStatus
           /\ \E s \in seen[r] : ~s.Disabled
           /\ \E s \in seen[r] : BlockedAs(s.Engine, q[r], event[r].Status)
        \/ /\ event[r].Status \notin BlockStatus
           /\ \E s \in seen[r] :
                \/ s.Disabled
                \/ \A status \in BlockStatus : ~BlockedAs(s.Engine, q[r], status)

\* Only a rule that says reply=none leaves a client without an answer, and an
\* answer made up here has no record of a type that was not asked for.
BlockedAnswerFits ==
    \A r \in Worker : pc[r] = "log" =>
        /\ reply[r] = NoMsg =>
            /\ event[r].Status = StatusBlockedRegex /\ event[r].ReplyType = 0
            /\ \E s \in seen[r] : \E i \in DOMAIN s.Engine.regexDeny :
                 /\ s.Engine.regexDeny[i].Reply = "none"
                 /\ Matches(s.Engine.regexDeny[i], Normal[q[r].Name], q[r].Qtype)
        /\ reply[r].From = Local =>
            \A i \in DOMAIN reply[r].Answer : reply[r].Answer[i] = q[r].Qtype

\* upstream.go:10 - a query fails only when every upstream has failed, and the
\* one it is answered by is the first that answers at all.
FirstUpstreamThatAnswers ==
    \A r \in Worker : pc[r] = "log" =>
        /\ event[r].Status = StatusBlockedUpstreamFail => healthy = {}
        /\ event[r].Status = StatusForwarded =>
            /\ event[r].Forward = Upstream(r) /\ reply[r].From = Upstream(r)
            /\ \A i \in 1..(tried[r] - 1) : Upstreams[i] \notin healthy

\* A handler waits for one exchange per upstream and one more over TCP at most:
\* with that many timeouts the five seconds of Shutdown can be too short.
ExchangesBounded == \A r \in Worker : exchanges[r] <= Len(Upstreams) + 1

\* Every query ends: it is answered or dropped, and logged.
QueryEnds == \A r \in Worker : pc[r] # "idle" ~> pc[r] = "idle"
=============================================================================
