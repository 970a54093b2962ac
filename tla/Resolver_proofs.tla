--------------------------- MODULE Resolver_proofs ---------------------------
(***************************************************************************)
(* Theorems about Resolver, for any number of handlers, upstreams and      *)
(* snapshots.  A handler keeps the instants it met until it decides: the   *)
(* present one is among them, so what it reads of the switch, and later of *)
(* the engine, is of one of them, though never both of the same.  Last,    *)
(* how many steps a query may take.                                        *)
(***************************************************************************)
EXTENDS Resolver, TLAPS, WellFoundedInduction

\* The engine decides as the lists of its snapshot say, whatever their order.
LEMMA EvaluateAgrees ==
  ASSUME NEW snap, IsSnapshot(snap), NEW n \in Name, NEW t \in QType,
         NEW question, question.Name = n, question.Qtype = t,
         NEW d, d = Evaluate(snap, n, t)
  PROVE  /\ d.Blocked \in BOOLEAN
         /\ d.Blocked => /\ statusForDecision(d) \in BlockStatus
                         /\ BlockedAs(snap, question, statusForDecision(d))
         /\ ~d.Blocked => \A status \in BlockStatus : ~BlockedAs(snap, question, status)
<1> DEFINE m == Normal[n]
<1>1. Allowed(snap, m, t) <=> SaysAllow(snap, m, t)
  BY DEF Allowed, SaysAllow, Matching
<1>2. CASE Allowed(snap, m, t)
  <2>1. d = Pass
    BY <1>2 DEF Evaluate
  <2> QED
    BY <2>1, <1>1, <1>2 DEF Pass, BlockedAs
<1>3. CASE ~Allowed(snap, m, t)
  <2>0. d = Denial(snap, m, t)
    BY <1>3 DEF Evaluate
  <2>1. CASE m \in DOMAIN snap.exactDeny
    <3>1. d = Block(snap.exactDeny[m], Nil)
      BY <2>0, <2>1 DEF Denial
    <3>2. snap.exactDeny[m] \in {"gravity", "manual"}
      BY <2>1 DEF IsSnapshot
    <3>3. /\ d.Blocked = TRUE
          /\ d.Source = snap.exactDeny[m]
      BY <3>1 DEF Block
    <3>4. CASE snap.exactDeny[m] = "gravity"
      BY <3>3, <3>4, <2>1, <1>1, <1>3
         DEF statusForDecision, BlockedAs, SaysDeny, BlockStatus
    <3>5. CASE snap.exactDeny[m] = "manual"
      BY <3>3, <3>5, <2>1, <1>1, <1>3
         DEF statusForDecision, BlockedAs, SaysDeny, BlockStatus
    <3> QED
      BY <3>2, <3>4, <3>5
  <2>2. CASE m \notin DOMAIN snap.exactDeny /\ Matching(snap.regexDeny, m, t) # {}
    <3> DEFINE first == CHOOSE i \in Matching(snap.regexDeny, m, t) :
                          \A j \in Matching(snap.regexDeny, m, t) : i <= j
    <3>1. d = Block("regex", snap.regexDeny[first].Reply)
      BY <2>0, <2>2 DEF Denial
    <3>2. d.Blocked = TRUE /\ d.Source = "regex"
      BY <3>1 DEF Block
    <3>3. statusForDecision(d) = StatusBlockedRegex
      BY <3>2 DEF statusForDecision
    <3>4. \E i \in DOMAIN snap.regexDeny : Matches(snap.regexDeny[i], m, t)
      BY <2>2 DEF Matching
    <3> QED
      BY <3>2, <3>3, <3>4, <2>2, <1>1, <1>3 DEF BlockedAs, SaysDeny, BlockStatus
  <2>3. CASE m \notin DOMAIN snap.exactDeny /\ Matching(snap.regexDeny, m, t) = {}
    <3>1. d = Pass
      BY <2>0, <2>3 DEF Denial
    <3>2. ~\E i \in DOMAIN snap.regexDeny : Matches(snap.regexDeny[i], m, t)
      BY <2>3 DEF Matching
    <3> QED
      BY <3>1, <3>2, <2>3 DEF Pass, BlockedAs, SaysDeny
  <2> QED
    BY <2>1, <2>2, <2>3
<1> QED
  BY <1>2, <1>3

-----------------------------------------------------------------------------
Present == [Disabled |-> disabled, Engine |-> engine]
Instant == [Disabled : BOOLEAN, Engine : Snapshots]

\* Some instant let the query pass, or some instants had it blocked.
Passed(r) ==
    \E s \in seen[r] :
        s.Disabled \/ \A status \in BlockStatus : ~BlockedAs(s.Engine, q[r], status)
MetOn(r) == \E s \in seen[r] : ~s.Disabled
MetBlocked(r) == \E s \in seen[r] : BlockedAs(s.Engine, q[r], event[r].Status)
EarlierFailed(r) == \A i \in 1..(tried[r] - 1) : Upstreams[i] \notin healthy

Decided(r) ==
    \/ event[r].Status \in BlockStatus /\ MetOn(r) /\ MetBlocked(r)
    \/ event[r].Status \notin BlockStatus /\ Passed(r)
Served(r) ==
    /\ event[r].Status = StatusBlockedUpstreamFail => healthy = {}
    /\ event[r].Status = StatusForwarded =>
        event[r].Forward = Upstream(r) /\ reply[r].From = Upstream(r) /\ EarlierFailed(r)

\* Variables and their types; messages are constrained no further.
Typed ==
    /\ healthy \subseteq {Upstreams[i] : i \in DOMAIN Upstreams}
    /\ disabled \in BOOLEAN /\ engine \in Snapshots
    /\ pc \in [Worker -> {"idle", "switch", "engine", "udp", "tcp", "log"}]
    /\ q \in [Worker -> Question \cup {NoQuestion}]
    /\ tried \in [Worker -> 0..Len(Upstreams)]
    /\ seen \in [Worker -> SUBSET Instant]
    /\ DOMAIN reply = Worker /\ DOMAIN event = Worker /\ DOMAIN truncated = Worker

\* What is known of a handler at each of its steps.
Handler(r) ==
    /\ pc[r] # "idle" => q[r] \in Question
    /\ pc[r] \in {"switch", "engine"} => Present \in seen[r]
    /\ pc[r] = "engine" => MetOn(r)
    /\ pc[r] \in {"udp", "tcp"} =>
        tried[r] \in 1..Len(Upstreams) /\ Passed(r) /\ EarlierFailed(r)
    /\ pc[r] = "tcp" => truncated[r].From = Upstream(r)
    /\ pc[r] = "log" => Decided(r) /\ Served(r)

ResolverInv == Typed /\ \A r \in Worker : Handler(r)

\* A handler whose own state and whose world stay the same is as before.
LEMMA HandlerFrame ==
  ASSUME NEW r \in Worker, Handler(r),
         UNCHANGED sharedVars, pc'[r] = pc[r], q'[r] = q[r], tried'[r] = tried[r],
         reply'[r] = reply[r], event'[r] = event[r], truncated'[r] = truncated[r],
         seen'[r] = seen[r]
  PROVE  Handler(r)'
<1>1. /\ Present' = Present /\ (MetOn(r) <=> MetOn(r)') /\ (Passed(r) <=> Passed(r)')
      /\ (EarlierFailed(r) <=> EarlierFailed(r)') /\ (MetBlocked(r) <=> MetBlocked(r)')
      /\ Upstream(r)' = Upstream(r)
  BY DEF Present, MetOn, Passed, EarlierFailed, MetBlocked, Upstream, BlockedAs, SaysAllow,
         SaysDeny, sharedVars
<1> QED
  BY <1>1 DEF Handler, Decided, Served, sharedVars

\* Nobody is at work at first.
LEMMA ResolverInit == Init => ResolverInv
<1> SUFFICES ASSUME Init PROVE ResolverInv
  OBVIOUS
<1>1. Typed
  <2>1. /\ healthy \subseteq {Upstreams[i] : i \in DOMAIN Upstreams}
        /\ disabled \in BOOLEAN /\ engine \in Snapshots
        /\ pc \in [Worker -> {"idle", "switch", "engine", "udp", "tcp", "log"}]
        /\ q \in [Worker -> Question \cup {NoQuestion}]
        /\ seen \in [Worker -> SUBSET Instant]
        /\ DOMAIN reply = Worker /\ DOMAIN event = Worker /\ DOMAIN truncated = Worker
    BY DEF Init
  <2>2. 0 \in 0..Len(Upstreams)
    BY ResolverAssumption
  <2>3. tried \in [Worker -> 0..Len(Upstreams)]
    BY <2>2 DEF Init
  <2> QED
    BY <2>1, <2>3 DEF Typed
<1>2. ASSUME NEW r \in Worker PROVE Handler(r)
  <2>1. pc[r] = "idle"
    BY DEF Init
  <2> QED
    BY <2>1 DEF Handler
<1> QED
  BY <1>1, <1>2 DEF ResolverInv

\* A query that comes in has met the present.
LEMMA ReceiveStep ==
  ASSUME ResolverInv, NEW r \in Worker, NEW question \in Question, Receive(r, question)
  PROVE  ResolverInv'
<1>1. Typed'
  BY DEF ResolverInv, Typed, Receive, Goto, Instant, sharedVars
<1>2. ASSUME NEW w \in Worker, w # r PROVE Handler(w)'
  BY <1>2, HandlerFrame DEF ResolverInv, Typed, Receive, Goto, sharedVars
<1>3. Handler(r)'
  BY DEF ResolverInv, Typed, Receive, Goto, Handler, Present, sharedVars
<1> QED
  BY <1>1, <1>2, <1>3 DEF ResolverInv

\* A handler that finds the switch off has passed, one that finds it on has met it.
LEMMA AskSwitchStep ==
  ASSUME ResolverInv, NEW r \in Worker, AskSwitch(r)
  PROVE  ResolverInv'
<1>0. Handler(r) /\ Present \in seen[r] /\ Len(Upstreams) \in Nat \ {0}
  BY ResolverAssumption DEF ResolverInv, AskSwitch, Handler
<1>1. Typed'
  BY <1>0 DEF ResolverInv, Typed, AskSwitch, Goto, Forward, sharedVars
<1>2. ASSUME NEW w \in Worker, w # r PROVE Handler(w)'
  BY <1>2, HandlerFrame DEF ResolverInv, Typed, AskSwitch, Goto, Forward, sharedVars
<1>3. ASSUME disabled, Forward(r) PROVE Handler(r)'
  <2>1. /\ pc'[r] = "udp" /\ tried'[r] = 1 /\ q'[r] = q[r] /\ seen'[r] = seen[r]
    BY <1>3 DEF ResolverInv, Typed, AskSwitch, Goto, Forward
  <2>2. Passed(r)'
    BY <2>1, <1>0, <1>3 DEF Passed, Present
  <2>3. EarlierFailed(r)'
    BY <2>1 DEF EarlierFailed
  <2> QED
    BY <2>1, <2>2, <2>3, <1>0 DEF Handler, AskSwitch
<1>4. ASSUME ~disabled, Goto(r, "engine") PROVE Handler(r)'
  <2>1. pc'[r] = "engine" /\ q'[r] = q[r] /\ seen'[r] = seen[r] /\ Present' = Present
    BY <1>4 DEF ResolverInv, Typed, AskSwitch, Goto, Present, sharedVars
  <2>2. MetOn(r)'
    BY <2>1, <1>0, <1>4 DEF MetOn, Present
  <2> QED
    BY <2>1, <2>2, <1>0 DEF Handler, AskSwitch
<1>5. Handler(r)'
  BY <1>3, <1>4 DEF AskSwitch
<1> QED
  BY <1>1, <1>2, <1>5 DEF ResolverInv

\* The verdict of the engine is that of the present, which the handler has met.
LEMMA AskEngineStep ==
  ASSUME ResolverInv, NEW r \in Worker, AskEngine(r)
  PROVE  ResolverInv'
<1> DEFINE d == Evaluate(engine, q[r].Name, q[r].Qtype)
<1>0. /\ Handler(r) /\ Present \in seen[r] /\ MetOn(r) /\ q[r] \in Question
      /\ Len(Upstreams) \in Nat \ {0} /\ engine \in Snapshots /\ IsSnapshot(engine)
  BY ResolverAssumption DEF ResolverInv, Typed, AskEngine, Handler
<1>1. ASSUME NEW w \in Worker, w # r PROVE Handler(w)'
  BY <1>1, HandlerFrame DEF ResolverInv, Typed, AskEngine, Goto, Forward, Write, sharedVars
<1>2. /\ d.Blocked \in BOOLEAN
      /\ d.Blocked => /\ statusForDecision(d) \in BlockStatus
                      /\ BlockedAs(engine, q[r], statusForDecision(d))
      /\ ~d.Blocked => \A status \in BlockStatus : ~BlockedAs(engine, q[r], status)
  <2>1. q[r].Name \in Name /\ q[r].Qtype \in QType
    BY <1>0 DEF Question
  <2> QED
    BY <2>1, <1>0, EvaluateAgrees
<1>3. Typed' /\ q' = q /\ seen' = seen
  <2>1. /\ UNCHANGED <<healthy, disabled, engine, q, seen, truncated>>
        /\ Goto(r, "log") \/ Goto(r, "udp")
        /\ UNCHANGED tried \/ Forward(r)
        /\ DOMAIN reply' = Worker /\ DOMAIN event' = Worker
    BY DEF ResolverInv, Typed, AskEngine, Write, Forward, sharedVars
  <2>2. pc' \in [Worker -> {"idle", "switch", "engine", "udp", "tcp", "log"}]
    BY <2>1 DEF ResolverInv, Typed, Goto
  <2>3. tried' \in [Worker -> 0..Len(Upstreams)]
    BY <2>1, <1>0 DEF ResolverInv, Typed, Forward
  <2> QED
    BY <2>1, <2>2, <2>3 DEF ResolverInv, Typed
<1>4. ASSUME d.Blocked PROVE Handler(r)'
  <2>0. Write(r, applyBlockedResponse(q[r].Qtype, d.Reply), statusForDecision(d), "")
    BY <1>4 DEF AskEngine
  <2>1. pc'[r] = "log" /\ event'[r].Status = statusForDecision(d)
    BY <2>0 DEF ResolverInv, Typed, Goto, Write
  <2>2. MetOn(r)'
    BY <1>3, <1>0 DEF MetOn
  <2>3. MetBlocked(r)'
    BY <2>1, <1>0, <1>2, <1>3, <1>4 DEF MetBlocked, Present, BlockedAs, SaysAllow, SaysDeny
  <2>4. Served(r)'
    BY <2>1, <1>2, <1>4
       DEF Served, BlockStatus, StatusBlockedGravity, StatusForwarded, StatusBlockedRegex,
           StatusBlockedExact, StatusBlockedUpstreamFail
  <2> QED
    BY <2>1, <2>2, <2>3, <2>4, <1>0, <1>2, <1>3, <1>4 DEF Handler, Decided
<1>5. ASSUME ~d.Blocked PROVE Handler(r)'
  <2>1. pc'[r] = "udp" /\ tried'[r] = 1
    BY <1>5 DEF ResolverInv, Typed, AskEngine, Goto, Forward
  <2>2. Passed(r)'
    BY <1>0, <1>2, <1>3, <1>5 DEF Passed, Present, BlockedAs, SaysAllow, SaysDeny
  <2>3. EarlierFailed(r)'
    BY <2>1 DEF EarlierFailed
  <2> QED
    BY <2>1, <2>2, <2>3, <1>0, <1>3 DEF Handler
<1> QED
  BY <1>1, <1>2, <1>3, <1>4, <1>5 DEF ResolverInv

-----------------------------------------------------------------------------
\* An answer of the upstream a handler is at settles what it logs.
LEMMA AnswerServes ==
  ASSUME ResolverInv, NEW r \in Worker, pc[r] \in {"udp", "tcp"},
         NEW m, m.From = Upstream(r),
         Write(r, m, StatusForwarded, Upstream(r)),
         UNCHANGED <<healthy, disabled, engine, q, seen, tried>>
  PROVE  Handler(r)'
<1>1. Handler(r) /\ Passed(r) /\ EarlierFailed(r) /\ q[r] \in Question
  BY DEF ResolverInv, Handler
<1>2. /\ pc'[r] = "log" /\ reply'[r] = m
      /\ event'[r].Status = StatusForwarded /\ event'[r].Forward = Upstream(r)
  BY DEF ResolverInv, Typed, Write, Goto
<1>3. Upstream(r)' = Upstream(r) /\ Passed(r)' /\ EarlierFailed(r)'
  BY <1>1 DEF Upstream, Passed, EarlierFailed, BlockedAs, SaysAllow, SaysDeny
<1>4. Decided(r)'
  BY <1>2, <1>3
     DEF Decided, BlockStatus, StatusBlockedGravity, StatusForwarded, StatusBlockedRegex,
         StatusBlockedExact
<1>5. Served(r)'
  BY <1>2, <1>3 DEF Served, StatusForwarded, StatusBlockedUpstreamFail
<1> QED
  BY <1>1, <1>2, <1>4, <1>5 DEF Handler

\* A message of an upstream says where it is from.
LEMMA ReplyFrom ==
  ASSUME NEW up, NEW t, NEW m \in Reply(up, t) PROVE m.From = up
BY DEF Reply, Msg

\* An answer over UDP is that of the upstream, or is kept as truncated.
LEMMA UdpAnswersStep ==
  ASSUME ResolverInv, NEW r \in Worker, UdpAnswers(r)
  PROVE  ResolverInv'
<1>1. Typed'
  <2>1. /\ UNCHANGED <<healthy, disabled, engine, q, seen, tried>>
        /\ Goto(r, "log") \/ Goto(r, "tcp")
        /\ DOMAIN reply' = Worker /\ DOMAIN event' = Worker /\ DOMAIN truncated' = Worker
    BY DEF ResolverInv, Typed, UdpAnswers, Write, sharedVars
  <2> QED
    BY <2>1 DEF ResolverInv, Typed, Goto
<1>2. ASSUME NEW w \in Worker, w # r PROVE Handler(w)'
  BY <1>2, HandlerFrame DEF ResolverInv, Typed, UdpAnswers, Goto, Write, sharedVars
<1>3. PICK m \in Reply(Upstream(r), q[r].Qtype) :
         \/ Write(r, m, StatusForwarded, Upstream(r)) /\ UNCHANGED truncated
         \/ truncated' = [truncated EXCEPT ![r] = m] /\ Goto(r, "tcp") /\ UNCHANGED <<reply, event>>
  BY DEF UdpAnswers
<1>4. m.From = Upstream(r) /\ pc[r] = "udp" /\ UNCHANGED <<healthy, disabled, engine, q, seen, tried>>
  BY ReplyFrom DEF UdpAnswers, sharedVars
<1>5. ASSUME Write(r, m, StatusForwarded, Upstream(r)) PROVE Handler(r)'
  BY <1>4, <1>5, AnswerServes
<1>6. ASSUME truncated' = [truncated EXCEPT ![r] = m], Goto(r, "tcp") PROVE Handler(r)'
  <2>1. /\ pc'[r] = "tcp" /\ truncated'[r].From = Upstream(r)
        /\ Handler(r)
    BY <1>4, <1>6 DEF ResolverInv, Typed, Goto
  <2>2. /\ Upstream(r)' = Upstream(r) /\ Passed(r)' /\ EarlierFailed(r)'
        /\ tried'[r] \in 1..Len(Upstreams) /\ q'[r] \in Question
    BY <2>1, <1>4
       DEF Handler, Upstream, Passed, EarlierFailed, BlockedAs, SaysAllow, SaysDeny
  <2> QED
    BY <2>1, <2>2 DEF Handler
<1> QED
  BY <1>1, <1>2, <1>3, <1>5, <1>6 DEF ResolverInv

\* Either transport's end of the TCP exchange is an answer of the upstream.
LEMMA TcpStep ==
  ASSUME ResolverInv, NEW r \in Worker, TcpAnswers(r) \/ TcpFails(r)
  PROVE  ResolverInv'
<1>1. PICK m : m.From = Upstream(r) /\ Write(r, m, StatusForwarded, Upstream(r))
  <2>1. CASE TcpAnswers(r)
    BY <2>1, ReplyFrom DEF TcpAnswers
  <2>2. CASE TcpFails(r)
    BY <2>2 DEF TcpFails, ResolverInv, Handler
  <2> QED
    BY <2>1, <2>2
<1>2. /\ pc[r] = "tcp" /\ UNCHANGED <<healthy, disabled, engine, q, seen, tried>>
      /\ truncated' = [truncated EXCEPT ![r] = NoMsg]
  BY DEF TcpAnswers, TcpFails, sharedVars
<1>3. Typed'
  BY <1>1, <1>2 DEF ResolverInv, Typed, Write, Goto
<1>4. ASSUME NEW w \in Worker, w # r PROVE Handler(w)'
  BY <1>1, <1>2, <1>4, HandlerFrame DEF ResolverInv, Typed, Goto, Write, sharedVars
<1>5. Handler(r)'
  BY <1>1, <1>2, AnswerServes
<1> QED
  BY <1>3, <1>4, <1>5 DEF ResolverInv

\* Past an upstream that fails; past the last one, none is healthy.
LEMMA UdpFailsStep ==
  ASSUME ResolverInv, NEW r \in Worker, UdpFails(r)
  PROVE  ResolverInv'
<1>0. /\ Handler(r) /\ pc[r] = "udp" /\ Upstream(r) \notin healthy
      /\ tried[r] \in 1..Len(Upstreams) /\ Passed(r) /\ EarlierFailed(r) /\ q[r] \in Question
      /\ UNCHANGED <<healthy, disabled, engine, q, seen, truncated>>
      /\ Len(Upstreams) \in Nat
  BY ResolverAssumption DEF ResolverInv, Handler, UdpFails, sharedVars
<1>1. \A i \in 1..tried[r] : Upstreams[i] \notin healthy
  BY <1>0 DEF EarlierFailed, Upstream
<1>2. Passed(r)'
  BY <1>0 DEF Passed, BlockedAs, SaysAllow, SaysDeny
<1>3. ASSUME tried[r] < Len(Upstreams), tried' = [tried EXCEPT ![r] = @ + 1],
             UNCHANGED <<pc, reply, event>>
      PROVE  ResolverInv'
  <2>1. Typed'
    BY <1>0, <1>3 DEF ResolverInv, Typed
  <2>2. ASSUME NEW w \in Worker, w # r PROVE Handler(w)'
    BY <1>0, <1>3, <2>2, HandlerFrame DEF ResolverInv, Typed, sharedVars
  <2>3. pc'[r] = "udp" /\ tried'[r] = tried[r] + 1
    BY <1>0, <1>3 DEF ResolverInv, Typed
  <2>4. tried'[r] \in 1..Len(Upstreams) /\ EarlierFailed(r)'
    BY <1>0, <1>1, <1>3, <2>3 DEF EarlierFailed
  <2>5. Handler(r)'
    BY <1>0, <1>2, <2>3, <2>4 DEF Handler
  <2> QED
    BY <2>1, <2>2, <2>5 DEF ResolverInv
<1>4. ASSUME tried[r] = Len(Upstreams), Servfail(r), UNCHANGED tried
      PROVE  ResolverInv'
  <2>1. healthy = {}
    <3>1. \A i \in DOMAIN Upstreams : Upstreams[i] \notin healthy
      BY <1>1, <1>4, ResolverAssumption
    <3> QED
      BY <3>1 DEF ResolverInv, Typed
  <2>2. Typed'
    BY <1>0, <1>4 DEF ResolverInv, Typed, Servfail, Write, Goto
  <2>3. ASSUME NEW w \in Worker, w # r PROVE Handler(w)'
    BY <1>0, <1>4, <2>3, HandlerFrame
       DEF ResolverInv, Typed, Servfail, Write, Goto, sharedVars
  <2>4. pc'[r] = "log" /\ event'[r].Status = StatusBlockedUpstreamFail
    BY <1>4 DEF ResolverInv, Typed, Servfail, Write, Goto
  <2>5. Decided(r)' /\ Served(r)'
    BY <1>0, <1>2, <2>1, <2>4
       DEF Decided, Served, BlockStatus, StatusBlockedGravity, StatusForwarded,
           StatusBlockedRegex, StatusBlockedExact, StatusBlockedUpstreamFail
  <2>6. Handler(r)'
    BY <1>0, <2>4, <2>5 DEF Handler
  <2> QED
    BY <2>2, <2>3, <2>6 DEF ResolverInv
<1> QED
  BY <1>3, <1>4 DEF UdpFails

\* A handler that has logged is idle.
LEMMA LogStep ==
  ASSUME ResolverInv, NEW r \in Worker, Log(r)
  PROVE  ResolverInv'
<1>1. Typed'
  BY ResolverAssumption DEF ResolverInv, Typed, Log, Goto, sharedVars
<1>2. ASSUME NEW w \in Worker, w # r PROVE Handler(w)'
  BY <1>2, HandlerFrame DEF ResolverInv, Typed, Log, Goto, sharedVars
<1>3. Handler(r)'
  <2>1. pc'[r] = "idle"
    BY DEF ResolverInv, Typed, Log, Goto
  <2> QED
    BY <2>1 DEF Handler
<1> QED
  BY <1>1, <1>2, <1>3 DEF ResolverInv

\* Whoever has not decided meets the change; whoever has keeps what it met.
LEMMA WorldStep ==
  ASSUME ResolverInv, Toggle \/ \E snap \in Snapshots : Reload(snap)
  PROVE  ResolverInv'
<1>1. /\ UNCHANGED <<healthy, pc, q, tried, reply, event, truncated>>
      /\ disabled' \in BOOLEAN /\ engine' \in Snapshots
      /\ seen' = [r \in Worker |->
                    IF Undecided(r) THEN seen[r] \cup {Present'} ELSE seen[r]]
  BY DEF Toggle, Reload, Witnessed, Present, ResolverInv, Typed
<1>2. Present' \in Instant
  BY <1>1 DEF Present, Instant
<1>3. Typed'
  BY <1>1, <1>2 DEF ResolverInv, Typed, Undecided
<1>4. ASSUME NEW r \in Worker PROVE Handler(r)'
  <2>1. seen[r] \subseteq seen'[r] /\ (Undecided(r) => Present' \in seen'[r])
    BY <1>1
  <2>2. /\ MetOn(r) => MetOn(r)'
        /\ Passed(r) => Passed(r)'
        /\ MetBlocked(r) => MetBlocked(r)'
        /\ EarlierFailed(r) <=> EarlierFailed(r)'
        /\ Upstream(r)' = Upstream(r)
    BY <2>1, <1>1
       DEF MetOn, Passed, MetBlocked, EarlierFailed, Upstream, BlockedAs, SaysAllow, SaysDeny
  <2>3. Handler(r)
    BY DEF ResolverInv
  <2>4. Decided(r) => Decided(r)'
    BY <1>1, <2>2 DEF Decided
  <2>5. Served(r) => Served(r)'
    BY <1>1, <2>2 DEF Served
  <2> QED
    BY <1>1, <2>1, <2>2, <2>3, <2>4, <2>5 DEF Handler, Undecided
<1> QED
  BY <1>3, <1>4 DEF ResolverInv

-----------------------------------------------------------------------------
\* Every step keeps the invariant.
LEMMA ResolverNext == ResolverInv /\ [Next]_vars => ResolverInv'
<1> SUFFICES ASSUME ResolverInv, [Next]_vars PROVE ResolverInv'
  OBVIOUS
<1>1. ASSUME NEW r \in Worker, NEW question \in Question, Receive(r, question)
      PROVE  ResolverInv'
  BY <1>1, ReceiveStep
<1>2. ASSUME NEW r \in Worker, Handle(r) PROVE ResolverInv'
  BY <1>2, AskSwitchStep, AskEngineStep, UdpAnswersStep, UdpFailsStep, TcpStep, LogStep
     DEF Handle
<1>3. ASSUME Toggle \/ \E snap \in Snapshots : Reload(snap) PROVE ResolverInv'
  BY <1>3, WorldStep
<1>4. ASSUME UNCHANGED vars PROVE ResolverInv'
  <2>1. Typed'
    BY <1>4 DEF ResolverInv, Typed, vars, sharedVars
  <2>2. ASSUME NEW r \in Worker PROVE Handler(r)'
    BY <1>4, HandlerFrame DEF ResolverInv, vars, sharedVars
  <2> QED
    BY <2>1, <2>2 DEF ResolverInv
<1> QED
  BY <1>1, <1>2, <1>3, <1>4 DEF Next

\* It holds throughout.
LEMMA ResolverInvariant == Spec => []ResolverInv
BY ResolverInit, ResolverNext, PTL DEF Spec

\* What a query is logged as was right at some instant between its arrival and its
\* decision, however the switch and the engine change meanwhile.
THEOREM DecidedTheorem == Spec => []DecidedByWhatWas
<1>1. ResolverInv => DecidedByWhatWas
  BY DEF ResolverInv, Handler, Decided, MetOn, MetBlocked, Passed, DecidedByWhatWas
<1> QED
  BY <1>1, ResolverInvariant, PTL

\* A forwarded query is answered by the first upstream that answers, and one that
\* fails has failed everywhere.
THEOREM UpstreamTheorem == Spec => []FirstUpstreamThatAnswers
<1>1. ResolverInv => FirstUpstreamThatAnswers
  BY DEF ResolverInv, Handler, Served, EarlierFailed, FirstUpstreamThatAnswers
<1> QED
  BY <1>1, ResolverInvariant, PTL

-----------------------------------------------------------------------------
(* The exchanges of a query *)

\* Each upstream has had one exchange before the next is tried.
Counted(r) ==
    /\ exchanges[r] \in Nat
    /\ pc[r] \in {"idle", "switch", "engine"} => exchanges[r] = 0
    /\ pc[r] = "udp" => exchanges[r] < tried[r]
    /\ pc[r] = "tcp" => exchanges[r] <= tried[r]
    /\ pc[r] = "log" => exchanges[r] <= Len(Upstreams) + 1

CountInv == DOMAIN exchanges = Worker /\ \A r \in Worker : Counted(r)

LEMMA CountedFrame ==
  ASSUME NEW r \in Worker, Counted(r),
         exchanges'[r] = exchanges[r], pc'[r] = pc[r], tried'[r] = tried[r]
  PROVE  Counted(r)'
BY DEF Counted

\* An exchange counts once.
LEMMA ExchangeCounts ==
  ASSUME CountInv, NEW r \in Worker, Exchange(r), exchanges[r] <= Len(Upstreams)
  PROVE  /\ DOMAIN exchanges' = Worker
         /\ exchanges'[r] = exchanges[r] + 1
         /\ \A w \in Worker : w # r => exchanges'[w] = exchanges[w]
<1>1. ~(exchanges[r] > Len(Upstreams) + 1)
  BY ResolverAssumption DEF CountInv, Counted
<1> QED
  BY <1>1 DEF CountInv, Exchange

LEMMA CountStep == ResolverInv /\ CountInv /\ [Next]_vars => CountInv'
<1> SUFFICES ASSUME ResolverInv, CountInv, [Next]_vars PROVE CountInv'
  OBVIOUS
<1>0. Typed /\ Len(Upstreams) \in Nat \ {0}
  BY ResolverAssumption DEF ResolverInv
<1>1. ASSUME NEW r \in Worker, UNCHANGED exchanges,
             pc[r] \in {"idle", "switch", "engine"},
             \/ \E label \in {"switch", "engine", "log"} : Goto(r, label) /\ UNCHANGED tried
             \/ Forward(r)
      PROVE  CountInv'
  <2>1. ASSUME NEW w \in Worker, w # r PROVE Counted(w)'
    BY <1>0, <1>1, <2>1, CountedFrame DEF CountInv, Typed, Goto, Forward
  <2>2. exchanges[r] = 0 /\ Counted(r)
    BY <1>1 DEF CountInv, Counted
  <2>3. Counted(r)'
    BY <1>0, <1>1, <2>2 DEF Typed, Goto, Forward, Counted
  <2> QED
    BY <1>1, <2>1, <2>3 DEF CountInv
<1>2. ASSUME NEW r \in Worker, NEW question \in Question, Receive(r, question) PROVE CountInv'
  BY <1>1, <1>2 DEF Receive
<1>3. ASSUME NEW r \in Worker, AskSwitch(r) \/ AskEngine(r) PROVE CountInv'
  BY <1>1, <1>3 DEF AskSwitch, AskEngine, Write
<1>4. ASSUME NEW r \in Worker, UdpAnswers(r) \/ UdpFails(r) \/ TcpAnswers(r) \/ TcpFails(r)
      PROVE  CountInv'
  <2>1. /\ pc[r] \in {"udp", "tcp"} /\ Counted(r) /\ Exchange(r)
        /\ tried[r] \in 1..Len(Upstreams)
    BY <1>4 DEF UdpAnswers, UdpFails, TcpAnswers, TcpFails, CountInv, ResolverInv, Handler
  <2>2. exchanges[r] \in Nat /\ exchanges[r] <= tried[r] /\ (pc[r] = "udp" => exchanges[r] < tried[r])
    BY <1>0, <2>1 DEF Counted
  <2>3. /\ DOMAIN exchanges' = Worker /\ exchanges'[r] = exchanges[r] + 1
        /\ \A w \in Worker : w # r => exchanges'[w] = exchanges[w]
    <3>1. exchanges[r] <= Len(Upstreams)
      BY <1>0, <2>1, <2>2
    <3> QED
      BY <2>1, <3>1, ExchangeCounts
  <2>4. \/ Goto(r, "log") /\ UNCHANGED tried
        \/ pc[r] = "udp" /\ Goto(r, "tcp") /\ UNCHANGED tried
        \/ pc[r] = "udp" /\ UNCHANGED pc /\ tried' = [tried EXCEPT ![r] = @ + 1]
    BY <1>4 DEF UdpAnswers, UdpFails, TcpAnswers, TcpFails, Servfail, Write
  <2>5. ASSUME NEW w \in Worker, w # r PROVE Counted(w)'
    <3>1. pc'[w] = pc[w] /\ tried'[w] = tried[w]
      BY <1>0, <2>4, <2>5 DEF Typed, Goto
    <3> QED
      BY <2>3, <2>5, <3>1, CountedFrame DEF CountInv
  <2>6. Counted(r)'
    <3>1. CASE Goto(r, "log") /\ UNCHANGED tried
      BY <1>0, <2>1, <2>2, <2>3, <3>1 DEF Typed, Goto, Counted
    <3>2. CASE pc[r] = "udp" /\ Goto(r, "tcp") /\ UNCHANGED tried
      BY <1>0, <2>1, <2>2, <2>3, <3>2 DEF Typed, Goto, Counted
    <3>3. CASE pc[r] = "udp" /\ UNCHANGED pc /\ tried' = [tried EXCEPT ![r] = @ + 1]
      BY <1>0, <2>1, <2>2, <2>3, <3>3 DEF Typed, Counted
    <3> QED
      BY <2>4, <3>1, <3>2, <3>3
  <2> QED
    BY <2>3, <2>5, <2>6 DEF CountInv
<1>5. ASSUME NEW r \in Worker, Log(r) PROVE CountInv'
  <2>1. ASSUME NEW w \in Worker, w # r PROVE Counted(w)'
    BY <1>0, <1>5, <2>1, CountedFrame DEF CountInv, Typed, Log, Goto
  <2>2. Counted(r)'
    BY <1>0, <1>5 DEF CountInv, Typed, Log, Goto, Counted
  <2> QED
    BY <1>5, <2>1, <2>2 DEF CountInv, Log
<1>6. ASSUME UNCHANGED <<pc, tried, exchanges>> PROVE CountInv'
  BY <1>6, CountedFrame DEF CountInv
<1>7. ASSUME Toggle \/ (\E snap \in Snapshots : Reload(snap)) \/ UNCHANGED vars PROVE CountInv'
  BY <1>6, <1>7 DEF Toggle, Reload, vars
<1> QED
  BY <1>2, <1>3, <1>4, <1>5, <1>7 DEF Next, Handle

\* A query waits for one exchange per upstream and one more over TCP at most.
THEOREM ExchangesTheorem == Spec => []ExchangesBounded
<1>1. Init => CountInv
  BY DEF Init, CountInv, Counted
<1>2. ResolverInv /\ CountInv => ExchangesBounded
  <2> SUFFICES ASSUME ResolverInv, CountInv, NEW r \in Worker
               PROVE  exchanges[r] <= Len(Upstreams) + 1
    BY DEF ExchangesBounded
  <2>1. /\ Len(Upstreams) \in Nat /\ Counted(r) /\ Handler(r)
        /\ pc[r] \in {"idle", "switch", "engine", "udp", "tcp", "log"}
    BY ResolverAssumption DEF ResolverInv, Typed, CountInv
  <2>2. pc[r] \in {"udp", "tcp"} => tried[r] \in 1..Len(Upstreams)
    BY <2>1 DEF Handler
  <2> QED
    BY <2>1, <2>2 DEF Counted
<1> QED
  BY <1>1, <1>2, ResolverInvariant, CountStep, PTL DEF Spec

-----------------------------------------------------------------------------
(* The answer of a blocked query *)

\* The rule that decides is one of those that match.
LEMMA FirstOf ==
  ASSUME NEW T, T \subseteq Nat, T # {}
  PROVE  (CHOOSE i \in T : \A j \in T : i <= j) \in T
<1> DEFINE Less == {ss \in Nat \X Nat : ss[1] < ss[2]}
<1>1. IsWellFoundedOn(Less, Nat)
  BY NatLessThanWellFounded DEF OpToRel
<1>2. PICK i \in T : \A j \in T : ~(<<j, i>> \in Less)
  <2> HIDE DEF Less
  <2> QED
    BY <1>1, WFMin
<1>3. ASSUME NEW j \in T PROVE i <= j
  <2>1. <<j, i>> \in Nat \X Nat /\ <<j, i>>[1] = j /\ <<j, i>>[2] = i
    OBVIOUS
  <2> QED
    BY <1>2, <2>1
<1> QED
  BY <1>3

\* A verdict replies "none" only when a rule that matches does.
LEMMA SilentRule ==
  ASSUME NEW snap, IsSnapshot(snap), NEW n \in Name, NEW t \in QType,
         NEW d, d = Evaluate(snap, n, t), d.Blocked
  PROVE  /\ d.Reply \in Override \cup {Nil}
         /\ d.Reply = "none" =>
              /\ statusForDecision(d) = StatusBlockedRegex
              /\ \E i \in DOMAIN snap.regexDeny :
                   /\ snap.regexDeny[i].Reply = "none"
                   /\ Matches(snap.regexDeny[i], Normal[n], t)
<1> DEFINE m == Normal[n]
           matching == Matching(snap.regexDeny, m, t)
           first == CHOOSE i \in matching : \A j \in matching : i <= j
<1>0. d = Denial(snap, m, t) /\ Nil # "none"
  BY MatcherAssumption DEF Evaluate, Pass, Override
<1>1. CASE m \in DOMAIN snap.exactDeny
  <2>1. d = Block(snap.exactDeny[m], Nil)
    BY <1>0, <1>1 DEF Denial
  <2> QED
    BY <1>0, <2>1 DEF Block
<1>2. CASE m \notin DOMAIN snap.exactDeny /\ matching # {}
  <2>1. d = Block("regex", snap.regexDeny[first].Reply)
    BY <1>0, <1>2 DEF Denial
  <2>2. snap.regexDeny \in Seq(RegexRule) /\ matching \subseteq Nat
    BY DEF IsSnapshot, Matching
  <2>3. first \in matching
    <3> HIDE DEF matching
    <3> QED
      BY <1>2, <2>2, FirstOf
  <2>4. first \in DOMAIN snap.regexDeny /\ Matches(snap.regexDeny[first], m, t)
    <3> HIDE DEF first
    <3> QED
      BY <2>3 DEF Matching
  <2> HIDE DEF first
  <2>5. snap.regexDeny[first] \in RegexRule
    BY <2>2, <2>4
  <2>6. d.Reply = snap.regexDeny[first].Reply /\ d.Source = "regex"
    BY <2>1 DEF Block
  <2>7. d.Reply \in Override \cup {Nil}
    BY <2>5, <2>6 DEF RegexRule
  <2>8. statusForDecision(d) = StatusBlockedRegex
    BY <2>6 DEF statusForDecision
  <2> QED
    BY <2>4, <2>6, <2>7, <2>8
<1>3. CASE m \notin DOMAIN snap.exactDeny /\ matching = {}
  <2>1. d = Pass
    BY <1>0, <1>3 DEF Denial
  <2> QED
    BY <2>1 DEF Pass
<1> QED
  BY <1>1, <1>2, <1>3

\* A made-up answer has records of the type that was asked for, and none for
\* reply=none is no message at all.
LEMMA MadeUp ==
  ASSUME NEW t, NEW override \in Override \cup {Nil}
  PROVE  /\ applyBlockedResponse(t, override) = NoMsg => override = "none"
         /\ \A i \in DOMAIN applyBlockedResponse(t, override).Answer :
                applyBlockedResponse(t, override).Answer[i] = t
<1> DEFINE m == applyBlockedResponse(t, override)
<1>0. Nil \notin Override /\ NoMsg.Rcode = "none" /\ NoMsg.Answer = <<>>
  BY MatcherAssumption DEF NoMsg, Msg
<1>1. ASSUME NEW from, NEW rcode, rcode # "none", NEW a, m = Msg(from, rcode, a),
             a = <<>> \/ a = <<t>>
      PROVE  m # NoMsg /\ \A i \in DOMAIN m.Answer : m.Answer[i] = t
  <2>1. m.Rcode = rcode /\ m.Answer = a
    BY <1>1 DEF Msg
  <2>2. \A i \in DOMAIN a : a[i] = t
    BY <1>1
  <2> QED
    BY <1>0, <1>1, <2>1, <2>2
<1>2. ASSUME m = applyNullRoute(t) \/ (\E f : m = applyIPOverride(t, f)) \/ m = DefaultBlocked(t)
      PROVE  \E rcode, a : /\ rcode # "none" /\ m = Msg(Local, rcode, a)
                           /\ a = <<>> \/ a = <<t>>
  BY <1>2 DEF applyNullRoute, applyIPOverride, DefaultBlocked
<1>3. CASE override = "none"
  BY <1>0, <1>3 DEF applyBlockedResponse
<1>4. CASE override # "none"
  <2>1. \E rcode, a : /\ rcode # "none" /\ m = Msg(Local, rcode, a)
                      /\ a = <<>> \/ a = <<t>>
    <3>1. CASE override \in {"nxdomain", "refused"}
      BY <3>1 DEF applyBlockedResponse
    <3>2. CASE override = "nodata"
      BY <3>2 DEF applyBlockedResponse
    <3>3. CASE override \in {"ipv4", "ipv6", "badip"}
      BY <1>2, <3>3 DEF applyBlockedResponse
    <3>4. CASE override = Nil
      <4>1. m = DefaultBlocked(t)
        BY <1>0, <3>4 DEF applyBlockedResponse, Override
      <4> QED
        BY <1>2, <4>1
    <3> QED
      BY <1>4, <3>1, <3>2, <3>3, <3>4 DEF Override
  <2> QED
    BY <1>1, <2>1
<1> QED
  BY <1>3, <1>4

\* A message that is not there is logged with no type.
LEMMA NoMsgType == replyTypeFromMsg(NoMsg) = 0
<1>1. NoMsg.Rcode = "none" /\ NoMsg.Answer = << >>
  BY DEF NoMsg, Msg
<1>2. \A i \in DOMAIN NoMsg.Answer : FALSE
  BY <1>1
<1>3. {i \in DOMAIN NoMsg.Answer : NoMsg.Answer[i] \in {"CNAME", "A", "AAAA"}} = {}
  BY <1>2
<1> QED
  BY <1>1, <1>3 DEF replyTypeFromMsg

\* What a blocked query is answered with.
Silenced(r) ==
    /\ event[r].Status = StatusBlockedRegex /\ event[r].ReplyType = 0
    /\ \E s \in seen[r] : \E i \in DOMAIN s.Engine.regexDeny :
         /\ s.Engine.regexDeny[i].Reply = "none"
         /\ Matches(s.Engine.regexDeny[i], Normal[q[r].Name], q[r].Qtype)
OfTheQuestion(r) == \A i \in DOMAIN reply[r].Answer : reply[r].Answer[i] = q[r].Qtype

Fits(r) ==
    /\ pc[r] = "tcp" => truncated[r].Rcode # "none"
    /\ pc[r] = "log" =>
        /\ reply[r] = NoMsg => Silenced(r)
        /\ reply[r].From = Local => OfTheQuestion(r)

LEMMA FitsFrame ==
  ASSUME NEW r \in Worker, Fits(r),
         pc'[r] = pc[r], q'[r] = q[r], reply'[r] = reply[r], event'[r] = event[r],
         truncated'[r] = truncated[r], pc[r] = "log" => seen'[r] = seen[r]
  PROVE  Fits(r)'
BY DEF Fits, Silenced, OfTheQuestion

\* A message of an upstream is a message, and not one that was made up here.
LEMMA ReplyIsMessage ==
  ASSUME ResolverInv, NEW r \in Worker, tried[r] \in 1..Len(Upstreams),
         NEW t, NEW m \in Reply(Upstream(r), t)
  PROVE  m.Rcode # "none" /\ m.From = Upstream(r) /\ Upstream(r) # Local
<1>1. m.Rcode \in {"noerror", "nxdomain", "servfail"} /\ m.From = Upstream(r)
  BY DEF Reply, Msg
<1>2. Upstream(r) # Local
  BY ResolverAssumption DEF Upstream
<1> QED
  BY <1>1, <1>2

\* Such an answer needs no rule.
LEMMA AnswerFits ==
  ASSUME ResolverInv, NEW r \in Worker, NEW m, NEW status, NEW forward,
         Write(r, m, status, forward), m.Rcode # "none",
         m.From = Local => m.Answer = <<>>
  PROVE  Fits(r)'
<1>1. pc'[r] = "log" /\ reply'[r] = m
  BY DEF ResolverInv, Typed, Write, Goto
<1>2. m # NoMsg
  BY DEF NoMsg, Msg
<1>3. m.From = Local => OfTheQuestion(r)'
  BY <1>1 DEF OfTheQuestion
<1> QED
  BY <1>1, <1>2, <1>3 DEF Fits

\* A blocked query is answered as its rule says.
LEMMA BlockFits ==
  ASSUME ResolverInv, NEW r \in Worker, pc[r] = "engine", q' = q, seen' = seen,
         NEW d, d = Evaluate(engine, q[r].Name, q[r].Qtype), d.Blocked,
         Write(r, applyBlockedResponse(q[r].Qtype, d.Reply), statusForDecision(d), "")
  PROVE  Fits(r)'
<1> DEFINE m == applyBlockedResponse(q[r].Qtype, d.Reply)
<1>1. /\ Present \in seen[r] /\ IsSnapshot(engine)
      /\ q[r].Name \in Name /\ q[r].Qtype \in QType
  BY ResolverAssumption DEF ResolverInv, Typed, Handler, Question
<1>2. /\ d.Reply \in Override \cup {Nil}
      /\ d.Reply = "none" =>
           /\ statusForDecision(d) = StatusBlockedRegex
           /\ \E i \in DOMAIN engine.regexDeny :
                /\ engine.regexDeny[i].Reply = "none"
                /\ Matches(engine.regexDeny[i], Normal[q[r].Name], q[r].Qtype)
  BY <1>1, SilentRule
<1>3. /\ m = NoMsg => d.Reply = "none"
      /\ \A i \in DOMAIN m.Answer : m.Answer[i] = q[r].Qtype
  <2>1. d.Reply \in Override \cup {Nil}
    BY <1>2
  <2> QED
    BY <2>1, MadeUp
<1>4. /\ pc'[r] = "log" /\ reply'[r] = m
      /\ event'[r].Status = statusForDecision(d) /\ event'[r].ReplyType = replyTypeFromMsg(m)
  BY DEF ResolverInv, Typed, Write, Goto
<1>5. replyTypeFromMsg(NoMsg) = 0
  BY NoMsgType
<1>6. Present.Engine = engine
  BY DEF Present
<1> HIDE DEF m
<1>7. m = NoMsg => Silenced(r)'
  BY <1>1, <1>2, <1>3, <1>4, <1>5, <1>6 DEF Silenced
<1>8. OfTheQuestion(r)'
  BY <1>3, <1>4 DEF OfTheQuestion
<1> QED
  BY <1>4, <1>7, <1>8 DEF Fits

LEMMA FitsStep ==
  ResolverInv /\ (\A r \in Worker : Fits(r)) /\ [Next]_vars => \A r \in Worker : Fits(r)'
<1> SUFFICES ASSUME ResolverInv, \A r \in Worker : Fits(r), [Next]_vars
             PROVE  \A r \in Worker : Fits(r)'
  OBVIOUS
<1>0. Typed
  BY DEF ResolverInv
<1>1. ASSUME NEW r \in Worker, (\E question \in Question : Receive(r, question)) \/ Handle(r)
      PROVE  \A w \in Worker : Fits(w)'
  <2>1. ASSUME NEW w \in Worker, w # r PROVE Fits(w)'
    <3>1. /\ pc'[w] = pc[w] /\ q'[w] = q[w] /\ reply'[w] = reply[w] /\ event'[w] = event[w]
          /\ truncated'[w] = truncated[w] /\ seen'[w] = seen[w]
      BY <1>0, <1>1, <2>1 DEF Typed, Receive, Handle, AskSwitch, AskEngine, UdpAnswers, UdpFails,
         TcpAnswers, TcpFails, Log, Goto, Forward, Write, Servfail
    <3> QED
      BY <3>1, FitsFrame
  <2>2. ASSUME NEW label \in {"switch", "engine", "udp", "idle"}, pc'[r] = label
        PROVE  Fits(r)'
    BY <2>2 DEF Fits
  <2>3. ASSUME NEW question \in Question, Receive(r, question) PROVE Fits(r)'
    BY <1>0, <2>2, <2>3 DEF Typed, Receive, Goto
  <2>4. ASSUME AskSwitch(r) \/ Log(r) PROVE Fits(r)'
    BY <1>0, <2>2, <2>4 DEF Typed, AskSwitch, Forward, Log, Goto
  <2>5. ASSUME AskEngine(r) PROVE Fits(r)'
    <3> DEFINE d == Evaluate(engine, q[r].Name, q[r].Qtype)
    <3>1. pc[r] = "engine" /\ q' = q /\ seen' = seen
      BY <2>5 DEF AskEngine
    <3>2. CASE ~d.Blocked
      BY <1>0, <2>2, <2>5, <3>2 DEF Typed, AskEngine, Forward, Goto
    <3>3. CASE d.Blocked
      <4>1. Write(r, applyBlockedResponse(q[r].Qtype, d.Reply), statusForDecision(d), "")
        BY <2>5, <3>3 DEF AskEngine
      <4> HIDE DEF d
      <4>2. d = Evaluate(engine, q[r].Name, q[r].Qtype)
        BY DEF d
      <4> QED
        BY <3>1, <3>3, <4>1, <4>2, BlockFits
    <3> QED
      BY <3>2, <3>3
  <2>6. ASSUME UdpAnswers(r) PROVE Fits(r)'
    <3>1. tried[r] \in 1..Len(Upstreams)
      BY <2>6 DEF UdpAnswers, ResolverInv, Handler
    <3>2. PICK m \in Reply(Upstream(r), q[r].Qtype) :
             \/ Write(r, m, StatusForwarded, Upstream(r)) /\ UNCHANGED truncated
             \/ truncated' = [truncated EXCEPT ![r] = m] /\ Goto(r, "tcp")
      BY <2>6 DEF UdpAnswers
    <3>3. m.Rcode # "none" /\ m.From # Local
      BY <3>1, ReplyIsMessage
    <3>4. CASE Write(r, m, StatusForwarded, Upstream(r))
      BY <3>3, <3>4, AnswerFits
    <3>5. CASE truncated' = [truncated EXCEPT ![r] = m] /\ Goto(r, "tcp")
      BY <1>0, <3>3, <3>5 DEF Typed, Goto, Fits
    <3> QED
      BY <3>2, <3>4, <3>5
  <2>7. ASSUME UdpFails(r) PROVE Fits(r)'
    <3>1. CASE Servfail(r)
      <4>1. Write(r, Msg(Local, "servfail", <<>>), StatusBlockedUpstreamFail, "")
        BY <3>1 DEF Servfail
      <4>2. /\ Msg(Local, "servfail", <<>>).Rcode # "none"
            /\ Msg(Local, "servfail", <<>>).Answer = <<>>
        BY DEF Msg
      <4> QED
        BY <4>1, <4>2, AnswerFits
    <3>2. CASE UNCHANGED pc
      BY <2>2, <2>7, <3>2 DEF UdpFails
    <3> QED
      BY <2>7, <3>1, <3>2 DEF UdpFails
  <2>8. ASSUME TcpAnswers(r) PROVE Fits(r)'
    <3>1. tried[r] \in 1..Len(Upstreams)
      BY <2>8 DEF TcpAnswers, ResolverInv, Handler
    <3>2. PICK m \in Reply(Upstream(r), q[r].Qtype) : Write(r, m, StatusForwarded, Upstream(r))
      BY <2>8 DEF TcpAnswers
    <3>3. m.Rcode # "none" /\ m.From # Local
      BY <3>1, ReplyIsMessage
    <3> QED
      BY <3>2, <3>3, AnswerFits
  <2>9. ASSUME TcpFails(r) PROVE Fits(r)'
    <3>1. /\ tried[r] \in 1..Len(Upstreams) /\ truncated[r].From = Upstream(r)
          /\ truncated[r].Rcode # "none"
      BY <2>9 DEF TcpFails, ResolverInv, Handler, Fits
    <3>2. truncated[r].From # Local
      BY <3>1, ResolverAssumption DEF Upstream
    <3>3. Write(r, truncated[r], StatusForwarded, Upstream(r))
      BY <2>9 DEF TcpFails
    <3> QED
      BY <3>1, <3>2, <3>3, AnswerFits
  <2>10. Fits(r)'
    BY <1>1, <2>3, <2>4, <2>5, <2>6, <2>7, <2>8, <2>9 DEF Handle
  <2> QED
    BY <2>1, <2>10
<1>2. ASSUME Toggle \/ \E snap \in Snapshots : Reload(snap)
      PROVE  \A w \in Worker : Fits(w)'
  <2> TAKE w \in Worker
  <2>1. /\ pc'[w] = pc[w] /\ q'[w] = q[w] /\ reply'[w] = reply[w] /\ event'[w] = event[w]
        /\ truncated'[w] = truncated[w] /\ (pc[w] = "log" => seen'[w] = seen[w])
    BY <1>2 DEF Toggle, Reload, Witnessed, Undecided
  <2> QED
    BY <2>1, FitsFrame
<1>3. ASSUME UNCHANGED vars PROVE \A w \in Worker : Fits(w)'
  BY <1>3, FitsFrame DEF vars
<1> QED
  BY <1>1, <1>2, <1>3 DEF Next

\* Only a rule that says reply=none leaves a client without an answer, and an
\* answer made up here has no record of a type that was not asked for.
THEOREM FitsTheorem == Spec => []BlockedAnswerFits
<1>1. Init => \A r \in Worker : Fits(r)
  BY DEF Init, Fits
<1>2. (\A r \in Worker : Fits(r)) => BlockedAnswerFits
  BY DEF Fits, Silenced, OfTheQuestion, BlockedAnswerFits
<1>3. ResolverInv /\ (\A r \in Worker : Fits(r)) /\ [Next]_vars => (\A r \in Worker : Fits(r))'
  BY FitsStep
<1> QED
  BY <1>1, <1>2, <1>3, ResolverInvariant, PTL DEF Spec

-----------------------------------------------------------------------------
(* Types *)

\* What is logged has a status of its column, and a truncated answer is kept only
\* while it is asked for again.
Sorted(r) ==
    /\ event[r].Status \in {0, StatusBlockedGravity, StatusForwarded, StatusBlockedRegex,
                            StatusBlockedExact, StatusBlockedUpstreamFail}
    /\ pc[r] # "tcp" => truncated[r] = NoMsg
    /\ q[r] = NoQuestion => pc[r] = "idle"

LEMMA SortedStep ==
  ResolverInv /\ (\A r \in Worker : Sorted(r)) /\ [Next]_vars => \A r \in Worker : Sorted(r)'
<1> SUFFICES ASSUME ResolverInv, \A r \in Worker : Sorted(r), [Next]_vars
             PROVE  \A r \in Worker : Sorted(r)'
  OBVIOUS
<1>0. Typed /\ Nil \notin Name
  BY MatcherAssumption DEF ResolverInv
<1>1. ASSUME NEW w \in Worker, pc'[w] = pc[w], q'[w] = q[w], event'[w] = event[w],
             truncated'[w] = truncated[w]
      PROVE  Sorted(w)'
  BY <1>1 DEF Sorted
<1>2. ASSUME NEW r \in Worker, NEW m, NEW forward,
             NEW status \in {StatusBlockedGravity, StatusForwarded, StatusBlockedRegex,
                             StatusBlockedExact, StatusBlockedUpstreamFail},
             Write(r, m, status, forward), q' = q, q[r] # NoQuestion, truncated'[r] = NoMsg
      PROVE  Sorted(r)'
  <2>1. pc'[r] = "log" /\ event'[r].Status = status
    BY <1>0, <1>2 DEF Typed, Write, Goto
  <2> QED
    BY <1>2, <2>1 DEF Sorted
<1>3. ASSUME NEW r \in Worker, (\E question \in Question : Receive(r, question)) \/ Handle(r)
      PROVE  \A w \in Worker : Sorted(w)'
  <2>1. ASSUME NEW w \in Worker, w # r PROVE Sorted(w)'
    <3>1. /\ pc'[w] = pc[w] /\ q'[w] = q[w] /\ event'[w] = event[w]
          /\ truncated'[w] = truncated[w]
      BY <1>0, <1>3, <2>1 DEF Typed, Receive, Handle, AskSwitch, AskEngine, UdpAnswers, UdpFails,
         TcpAnswers, TcpFails, Log, Goto, Forward, Write, Servfail
    <3> QED
      BY <1>1, <3>1
  <2>2. Sorted(r) /\ (pc[r] # "idle" => q[r] # NoQuestion)
    BY DEF Sorted
  <2>3. ASSUME NEW question \in Question, Receive(r, question) PROVE Sorted(r)'
    <3>1. pc'[r] = "switch" /\ q'[r] = question /\ event' = event /\ truncated' = truncated
      BY <1>0, <2>3 DEF Typed, Receive, Goto
    <3>2. question # NoQuestion
      BY <1>0 DEF Question, NoQuestion
    <3> QED
      BY <2>2, <2>3, <3>1, <3>2 DEF Sorted, Receive
  <2>4. ASSUME AskSwitch(r) PROVE Sorted(r)'
    <3>1. pc'[r] \in {"udp", "engine"} /\ UNCHANGED <<q, event, truncated>> /\ pc[r] = "switch"
      BY <1>0, <2>4 DEF Typed, AskSwitch, Forward, Goto
    <3> QED
      BY <2>2, <3>1 DEF Sorted
  <2>5. ASSUME AskEngine(r) PROVE Sorted(r)'
    <3> DEFINE d == Evaluate(engine, q[r].Name, q[r].Qtype)
               status == statusForDecision(d)
    <3>1. pc[r] = "engine" /\ UNCHANGED <<q, truncated>> /\ truncated[r] = NoMsg
      BY <2>2, <2>5 DEF AskEngine, Sorted
    <3>2. CASE Forward(r) /\ UNCHANGED event
      <4>1. pc'[r] = "udp"
        BY <1>0, <3>2 DEF Typed, Forward, Goto
      <4> QED
        BY <2>2, <3>1, <3>2, <4>1 DEF Sorted
    <3>3. CASE Write(r, applyBlockedResponse(q[r].Qtype, d.Reply), status, "")
      <4>1. status \in {StatusBlockedGravity, StatusBlockedRegex, StatusBlockedExact}
        BY DEF statusForDecision
      <4> HIDE DEF d, status
      <4> QED
        BY <1>2, <2>2, <3>1, <3>3, <4>1
    <3> QED
      BY <2>5, <3>2, <3>3 DEF AskEngine
  <2>6. ASSUME UdpAnswers(r) PROVE Sorted(r)'
    <3>1. pc[r] = "udp" /\ q' = q /\ truncated[r] = NoMsg
      BY <2>2, <2>6 DEF UdpAnswers, Sorted
    <3>2. \/ \E m : Write(r, m, StatusForwarded, Upstream(r)) /\ UNCHANGED truncated
          \/ Goto(r, "tcp") /\ UNCHANGED event
      BY <2>6 DEF UdpAnswers
    <3>3. CASE Goto(r, "tcp") /\ UNCHANGED event
      BY <1>0, <2>2, <3>1, <3>3 DEF Typed, Goto, Sorted
    <3> QED
      BY <1>2, <2>2, <3>1, <3>2, <3>3
  <2>7. ASSUME UdpFails(r) PROVE Sorted(r)'
    <3>1. pc[r] = "udp" /\ UNCHANGED <<q, truncated>> /\ truncated[r] = NoMsg
      BY <2>2, <2>7 DEF UdpFails, Sorted
    <3>2. CASE Servfail(r)
      BY <1>2, <2>2, <3>1, <3>2 DEF Servfail
    <3>3. CASE UNCHANGED <<pc, event>>
      BY <2>2, <3>1, <3>3 DEF Sorted
    <3> QED
      BY <2>7, <3>2, <3>3 DEF UdpFails
  <2>8. ASSUME TcpAnswers(r) \/ TcpFails(r) PROVE Sorted(r)'
    <3>1. /\ pc[r] = "tcp" /\ q' = q /\ truncated'[r] = NoMsg
          /\ \E m : Write(r, m, StatusForwarded, Upstream(r))
      BY <1>0, <2>8 DEF Typed, TcpAnswers, TcpFails
    <3> QED
      BY <1>2, <2>2, <3>1
  <2>9. ASSUME Log(r) PROVE Sorted(r)'
    <3>1. /\ pc'[r] = "idle" /\ event'[r] = NoEvent /\ truncated' = truncated
          /\ pc[r] = "log"
      BY <1>0, <2>9 DEF Typed, Log, Goto
    <3>2. NoEvent.Status = 0
      BY DEF NoEvent
    <3> QED
      BY <2>2, <3>1, <3>2 DEF Sorted
  <2>10. Sorted(r)'
    BY <1>3, <2>3, <2>4, <2>5, <2>6, <2>7, <2>8, <2>9 DEF Handle
  <2> QED
    BY <2>1, <2>10
<1>4. ASSUME Toggle \/ (\E snap \in Snapshots : Reload(snap)) \/ UNCHANGED vars
      PROVE  \A w \in Worker : Sorted(w)'
  BY <1>1, <1>4 DEF Toggle, Reload, vars
<1> QED
  BY <1>3, <1>4 DEF Next

\* Handlers and messages keep their types.
THEOREM ResolverTypesTheorem == Spec => []TypeOK
<1>1. Init => \A r \in Worker : Sorted(r)
  <2>1. NoEvent.Status = 0
    BY DEF NoEvent
  <2> QED
    BY <2>1 DEF Init, Sorted
<1>2. Init => \A r \in Worker : Fits(r)
  BY DEF Init, Fits
<1>3. ResolverInv /\ (\A r \in Worker : Fits(r)) /\ (\A r \in Worker : Sorted(r)) => TypeOK
  <2> SUFFICES ASSUME ResolverInv, \A r \in Worker : Fits(r), \A r \in Worker : Sorted(r)
               PROVE  TypeOK
    OBVIOUS
  <2>1. ASSUME NEW r \in Worker
        PROVE  /\ q[r] \in Question \/ (q[r] = NoQuestion /\ pc[r] = "idle")
               /\ pc[r] \in {"udp", "tcp"} => tried[r] \in DOMAIN Upstreams
               /\ tried[r] \in 0..Len(Upstreams)
               /\ event[r].Status \in
                     {0, StatusBlockedGravity, StatusForwarded, StatusBlockedRegex,
                      StatusBlockedExact, StatusBlockedUpstreamFail}
               /\ pc[r] = "tcp" <=> truncated[r] # NoMsg
    <3>1. NoMsg.Rcode = "none"
      BY DEF NoMsg, Msg
    <3>2. Handler(r) /\ Fits(r) /\ Sorted(r) /\ DOMAIN Upstreams = 1..Len(Upstreams)
      BY ResolverAssumption DEF ResolverInv
    <3>3. q[r] \in Question \cup {NoQuestion} /\ tried[r] \in 0..Len(Upstreams)
      BY DEF ResolverInv, Typed
    <3> QED
      BY <3>1, <3>2, <3>3 DEF Handler, Fits, Sorted
  <2> QED
    BY <2>1 DEF TypeOK, ResolverInv, Typed
<1>4. /\ ResolverInv /\ (\A r \in Worker : Fits(r)) /\ [Next]_vars => (\A r \in Worker : Fits(r))'
      /\ ResolverInv /\ (\A r \in Worker : Sorted(r)) /\ [Next]_vars => (\A r \in Worker : Sorted(r))'
  BY FitsStep, SortedStep
<1> QED
  BY <1>1, <1>2, <1>3, <1>4, ResolverInvariant, PTL DEF Spec
-----------------------------------------------------------------------------
(* The steps of a query *)

\* What a handler has left to do at most: nobody knows the answers of the upstreams,
\* but every one of them leads on.
StepsLeft(r) ==
    CASE pc[r] = "switch" -> Len(Upstreams) + 4
      [] pc[r] = "engine" -> Len(Upstreams) + 3
      [] pc[r] = "udp" -> (Len(Upstreams) - tried[r]) + 3
      [] pc[r] = "tcp" -> 2
      [] pc[r] = "log" -> 1
      [] OTHER -> 0

LeadsOn(r) ==
    /\ StepsLeft(r)' \in Nat /\ StepsLeft(r)' <= StepsLeft(r)
    /\ Handle(r) => StepsLeft(r)' < StepsLeft(r)

\* Whoever does not move a handler leaves it as many steps as it had.
LEMMA OthersWait ==
  ASSUME ResolverInv, NEW r \in Worker, pc'[r] = pc[r], tried'[r] = tried[r], ~Handle(r)
  PROVE  LeadsOn(r)
<1>1. /\ pc[r] \in {"idle", "switch", "engine", "udp", "tcp", "log"}
      /\ tried[r] \in 0..Len(Upstreams) /\ Len(Upstreams) \in Nat
  BY ResolverAssumption DEF ResolverInv, Typed
<1>2. StepsLeft(r)' = StepsLeft(r) /\ StepsLeft(r) \in Nat
  BY <1>1 DEF StepsLeft
<1> QED
  BY <1>2 DEF LeadsOn

\* Every step of its own brings a handler nearer to its end.
LEMMA HandleLeadsOn ==
  ASSUME ResolverInv, NEW r \in Worker, Handle(r)
  PROVE  StepsLeft(r)' < StepsLeft(r)
<1>0. Typed /\ Len(Upstreams) \in Nat \ {0} /\ Handler(r)
  BY ResolverAssumption DEF ResolverInv
<1>1. CASE AskSwitch(r)
  <2>1. /\ pc[r] = "switch"
        /\ (pc'[r] = "udp" /\ tried'[r] = 1) \/ pc'[r] = "engine"
    BY <1>0, <1>1 DEF AskSwitch, Forward, Goto, Typed
  <2> QED
    BY <1>0, <2>1 DEF StepsLeft
<1>2. CASE AskEngine(r)
  <2>1. /\ pc[r] = "engine"
        /\ (pc'[r] = "udp" /\ tried'[r] = 1) \/ pc'[r] = "log"
    BY <1>0, <1>2 DEF AskEngine, Write, Forward, Goto, Typed
  <2> QED
    BY <1>0, <2>1 DEF StepsLeft
<1>3. CASE UdpAnswers(r) \/ UdpFails(r)
  <2>1. pc[r] = "udp" /\ tried[r] \in 1..Len(Upstreams)
    BY <1>0, <1>3 DEF UdpAnswers, UdpFails, Handler
  <2>2. \/ pc'[r] \in {"tcp", "log"}
        \/ pc'[r] = "udp" /\ tried'[r] = tried[r] + 1 /\ tried[r] < Len(Upstreams)
    BY <1>0, <1>3, <2>1 DEF UdpAnswers, UdpFails, Servfail, Write, Goto, Typed
  <2>3. StepsLeft(r) = (Len(Upstreams) - tried[r]) + 3
    BY <2>1 DEF StepsLeft
  <2>4. CASE pc'[r] \in {"tcp", "log"}
    <3>1. StepsLeft(r)' \in {1, 2}
      BY <2>4 DEF StepsLeft
    <3> QED
      BY <1>0, <2>1, <2>3, <3>1
  <2>5. CASE pc'[r] = "udp" /\ tried'[r] = tried[r] + 1 /\ tried[r] < Len(Upstreams)
    <3>1. StepsLeft(r)' = (Len(Upstreams) - (tried[r] + 1)) + 3
      BY <2>5 DEF StepsLeft
    <3> QED
      BY <1>0, <2>1, <2>3, <3>1
  <2> QED
    BY <2>2, <2>4, <2>5
<1>4. CASE TcpAnswers(r) \/ TcpFails(r)
  <2>1. pc[r] = "tcp" /\ pc'[r] = "log"
    BY <1>0, <1>4 DEF TcpAnswers, TcpFails, Write, Goto, Typed
  <2> QED
    BY <2>1 DEF StepsLeft
<1>5. CASE Log(r)
  <2>1. pc[r] = "log" /\ pc'[r] = "idle"
    BY <1>0, <1>5 DEF Log, Goto, Typed
  <2> QED
    BY <2>1 DEF StepsLeft
<1> QED
  BY <1>1, <1>2, <1>3, <1>4, <1>5 DEF Handle

LEMMA QueryLeadsOn ==
  ASSUME ResolverInv, [Next]_vars, NEW r \in Worker, pc[r] # "idle"
  PROVE  LeadsOn(r)
<1>0. Typed
  BY DEF ResolverInv
<1>1. CASE Handle(r)
  <2>1. StepsLeft(r)' < StepsLeft(r)
    BY <1>1, HandleLeadsOn
  <2>2. StepsLeft(r) \in Nat /\ StepsLeft(r)' \in Nat
    <3>1. ResolverInv'
      BY ResolverNext
    <3> QED
      BY <1>0, <3>1, ResolverAssumption DEF ResolverInv, Typed, StepsLeft
  <2> QED
    BY <2>1, <2>2 DEF LeadsOn
<1>2. CASE ~Handle(r)
  <2>1. pc'[r] = pc[r] /\ tried'[r] = tried[r]
    <3>1. ASSUME NEW w \in Worker, w # r,
                 \/ \E question \in Question : Receive(w, question)
                 \/ Handle(w)
          PROVE  pc'[r] = pc[r] /\ tried'[r] = tried[r]
      BY <1>0, <3>1 DEF Typed, Receive, Handle, AskSwitch, AskEngine, UdpAnswers, UdpFails,
         TcpAnswers, TcpFails, Log, Servfail, Write, Forward, Goto
    <3>2. \A question \in Question : ~Receive(r, question)
      BY DEF Receive
    <3>3. CASE UNCHANGED vars \/ Toggle \/ (\E snap \in Snapshots : Reload(snap))
      BY <3>3 DEF vars, Toggle, Reload
    <3> QED
      BY <1>2, <3>1, <3>2, <3>3 DEF Next
  <2> QED
    BY <1>2, <2>1, OthersWait
<1> QED
  BY <1>1, <1>2

\* A query that was received is through after Len(Upstreams) + 4 steps of its handler
\* at most, whatever the upstreams answer and whatever the others do: every step of its
\* own lowers what it has left, and nobody else's raises it.
QueryAdvances == [][\A r \in Worker : pc[r] # "idle" => LeadsOn(r)]_vars

\* resolver.go:13 - a handler has a bounded number of steps, each upstream asked once.
THEOREM QueryStepsTheorem == Spec => QueryAdvances
<1>1. ResolverInv /\ [Next]_vars => [\A r \in Worker : pc[r] # "idle" => LeadsOn(r)]_vars
  BY QueryLeadsOn
<1> QED
  BY <1>1, ResolverInvariant, PTL DEF Spec, QueryAdvances
=============================================================================
