--------------------------- MODULE QueryLog_proofs ---------------------------
(***************************************************************************)
(* Theorems about QueryLog, for any number of resolver goroutines and      *)
(* calls, and any size of the channel and of a batch; and about what the   *)
(* readers of QueryReads get, whatever the writer commits meanwhile; that  *)
(* it is a LossyLog; how much is left to do when it is closed; and how far *)
(* an accepted event is from the table.                                    *)
(***************************************************************************)
EXTENDS QueryReads, SequenceTheorems, FiniteSetTheorems, FunctionTheorems,
        WellFoundedInduction, TLAPS

Increasing(s) == \A i, j \in DOMAIN s : i < j => s[i] < s[j]

LEMMA ConcatElements ==
  ASSUME NEW S, NEW s \in Seq(S), NEW t \in Seq(S)
  PROVE  Elements(s \o t) = Elements(s) \cup Elements(t)
<1>1. /\ Len(s) \in Nat /\ Len(t) \in Nat
      /\ DOMAIN s = 1..Len(s) /\ DOMAIN t = 1..Len(t)
      /\ DOMAIN (s \o t) = 1..(Len(s) + Len(t))
  BY ConcatProperties, LenProperties
<1>2. \A i \in 1..Len(s) : i \in DOMAIN (s \o t) /\ (s \o t)[i] = s[i]
  BY <1>1, ConcatProperties
<1>3. \A i \in 1..Len(t) : Len(s) + i \in DOMAIN (s \o t) /\ (s \o t)[Len(s) + i] = t[i]
  <2> TAKE i \in 1..Len(t)
  <2>1. Len(s) + i \in 1..(Len(s) + Len(t)) /\ ~(Len(s) + i <= Len(s))
        /\ (Len(s) + i) - Len(s) = i
    BY <1>1
  <2> QED
    BY <1>1, <2>1, ConcatProperties
<1>4. \A i \in DOMAIN (s \o t) : i \in 1..Len(s) \/ i - Len(s) \in 1..Len(t)
  BY <1>1
<1>5. \A i \in DOMAIN (s \o t) :
        \/ i \in 1..Len(s) /\ (s \o t)[i] = s[i]
        \/ i - Len(s) \in 1..Len(t) /\ (s \o t)[i] = t[i - Len(s)]
  BY <1>1, <1>4, ConcatProperties
<1>6. Elements(s \o t) \subseteq Elements(s) \cup Elements(t)
  BY <1>1, <1>5 DEF Elements
<1>7. Elements(s) \subseteq Elements(s \o t)
  BY <1>1, <1>2 DEF Elements
<1>8. Elements(t) \subseteq Elements(s \o t)
  BY <1>1, <1>3 DEF Elements
<1> QED
  BY <1>6, <1>7, <1>8

LEMMA AppendElements ==
  ASSUME NEW S, NEW s \in Seq(S), NEW e \in S
  PROVE  Elements(Append(s, e)) = Elements(s) \cup {e}
<1>1. \A i \in 1..Len(s) : i \in DOMAIN Append(s, e) /\ Append(s, e)[i] = s[i]
  BY AppendProperties, LenProperties
<1>2. Len(s) + 1 \in DOMAIN Append(s, e) /\ Append(s, e)[Len(s) + 1] = e
  BY AppendProperties, LenProperties
<1>3. DOMAIN s = 1..Len(s) /\ \A i \in DOMAIN Append(s, e) : i \in 1..Len(s) \/ i = Len(s) + 1
  BY AppendProperties, LenProperties
<1> QED
  BY <1>1, <1>2, <1>3 DEF Elements

\* Taking the head of one queue to the end of the queue before it.
LEMMA MoveHead ==
  ASSUME NEW s \in Seq(Event), NEW t \in Seq(Event), NEW u \in Seq(Event), u # <<>>
  PROVE  s \o Append(t, Head(u)) \o Tail(u) = s \o t \o u
<1> DEFINE t1 == Append(t, Head(u))
<1>1. /\ Len(s) \in Nat /\ Len(t) \in Nat /\ Len(u) \in Nat \ {0}
      /\ Head(u) \in Event /\ Head(u) = u[1]
      /\ Tail(u) \in Seq(Event) /\ Len(Tail(u)) = Len(u) - 1
      /\ \A i \in 1..(Len(u) - 1) : Tail(u)[i] = u[i + 1]
  BY EmptySeq, LenProperties, HeadTailProperties
<1>2. /\ t1 \in Seq(Event) /\ Len(t1) = Len(t) + 1
      /\ \A i \in 1..Len(t) : t1[i] = t[i]
      /\ t1[Len(t) + 1] = u[1]
  BY <1>1, AppendProperties
<1> HIDE DEF t1
<1>3. /\ t1 \o Tail(u) \in Seq(Event) /\ Len(t1 \o Tail(u)) = Len(t) + Len(u)
      /\ \A i \in 1..(Len(t) + Len(u)) :
            (t1 \o Tail(u))[i] = IF i <= Len(t) + 1 THEN t1[i] ELSE Tail(u)[i - (Len(t) + 1)]
  <2>1. Len(t1) + Len(Tail(u)) = Len(t) + Len(u)
    BY <1>1, <1>2
  <2>2. /\ t1 \o Tail(u) \in Seq(Event)
        /\ Len(t1 \o Tail(u)) = Len(t1) + Len(Tail(u))
        /\ \A i \in 1..Len(t1) + Len(Tail(u)) : (t1 \o Tail(u))[i] =
              IF i <= Len(t1) THEN t1[i] ELSE Tail(u)[i - Len(t1)]
    BY <1>1, <1>2, ConcatProperties
  <2> QED
    BY <1>2, <2>1, <2>2
<1>4. /\ t \o u \in Seq(Event) /\ Len(t \o u) = Len(t) + Len(u)
      /\ \A i \in 1..(Len(t) + Len(u)) :
            (t \o u)[i] = IF i <= Len(t) THEN t[i] ELSE u[i - Len(t)]
  BY <1>1, ConcatProperties
<1>5. ASSUME NEW i \in 1..(Len(t) + Len(u))
      PROVE  (t1 \o Tail(u))[i] = (t \o u)[i]
  <2>1. CASE i <= Len(t)
    BY <1>1, <1>2, <1>3, <1>4, <2>1
  <2>2. CASE i = Len(t) + 1
    <3>1. (t \o u)[i] = u[1]
      BY <1>1, <1>4, <2>2
    <3>2. (t1 \o Tail(u))[i] = u[1]
      BY <1>1, <1>2, <1>3, <2>2
    <3> QED
      BY <3>1, <3>2
  <2>3. CASE i > Len(t) + 1
    <3>1. i - (Len(t) + 1) \in 1..(Len(u) - 1) /\ (i - (Len(t) + 1)) + 1 = i - Len(t)
      BY <1>1, <2>3
    <3>2. Tail(u)[i - (Len(t) + 1)] = u[i - Len(t)]
      BY <1>1, <3>1
    <3> QED
      BY <1>1, <1>3, <1>4, <2>3, <3>2
  <2> QED
    <3>1. i \in Int /\ Len(t) \in Int
      BY <1>1, <1>5
    <3>2. i <= Len(t) \/ i = Len(t) + 1 \/ i > Len(t) + 1
      BY <3>1
    <3> QED
      BY <2>1, <2>2, <2>3, <3>2
<1>6. t1 \o Tail(u) = t \o u
  BY <1>3, <1>4, <1>5, SeqEqual
<1>7. s \o t1 \o Tail(u) = s \o (t1 \o Tail(u))
  <2>1. \A a, b, c \in Seq(Event) : a \o b \o c = a \o (b \o c)
    BY ConcatAssociative
  <2> QED
    BY <1>1, <1>2, <2>1, Zenon
<1>8. s \o t \o u = s \o (t \o u)
  BY ConcatAssociative
<1> QED
  BY <1>6, <1>7, <1>8 DEF t1

LEMMA AppendIncreasing ==
  ASSUME NEW s \in Seq(Int), NEW e \in Int, Increasing(s), \A x \in Elements(s) : x < e
  PROVE  Increasing(Append(s, e))
<1>1. /\ Len(s) \in Nat /\ DOMAIN s = 1..Len(s)
      /\ DOMAIN Append(s, e) = 1..(Len(s) + 1)
      /\ \A i \in 1..Len(s) : Append(s, e)[i] = s[i] /\ s[i] < e
      /\ Append(s, e)[Len(s) + 1] = e
  BY LenProperties, AppendProperties DEF Elements
<1> SUFFICES ASSUME NEW i \in 1..(Len(s) + 1), NEW j \in 1..(Len(s) + 1), i < j
             PROVE  Append(s, e)[i] < Append(s, e)[j]
  BY <1>1 DEF Increasing
<1>2. i \in 1..Len(s) /\ (j \in 1..Len(s) \/ j = Len(s) + 1)
  BY <1>1
<1> QED
  BY <1>1, <1>2 DEF Increasing

\* A queue in the middle is forgotten: the order of the others stays, and since
\* nothing comes twice exactly its elements are gone.
LEMMA DropMiddle ==
  ASSUME NEW s \in Seq(Int), NEW t \in Seq(Int), NEW u \in Seq(Int),
         Increasing(s \o t \o u)
  PROVE  /\ Increasing(s \o u)
         /\ Elements(s \o u) = Elements(s \o t \o u) \ Elements(t)
<1> DEFINE w == s \o t \o u
<1>1. /\ Len(s) \in Nat /\ Len(t) \in Nat /\ Len(u) \in Nat
      /\ DOMAIN s = 1..Len(s) /\ DOMAIN t = 1..Len(t) /\ DOMAIN u = 1..Len(u)
  BY LenProperties
<1>2. /\ s \o t \in Seq(Int) /\ Len(s \o t) = Len(s) + Len(t)
      /\ \A i \in 1..(Len(s) + Len(t)) :
            (s \o t)[i] = IF i <= Len(s) THEN s[i] ELSE t[i - Len(s)]
  BY <1>1, ConcatProperties
<1>3. /\ w \in Seq(Int) /\ Len(w) = Len(s) + Len(t) + Len(u)
      /\ DOMAIN w = 1..(Len(s) + Len(t) + Len(u))
      /\ \A i \in 1..(Len(s) + Len(t) + Len(u)) :
            w[i] = IF i <= Len(s) + Len(t) THEN (s \o t)[i] ELSE u[i - (Len(s) + Len(t))]
  BY <1>1, <1>2, ConcatProperties, LenProperties
<1>4. /\ s \o u \in Seq(Int) /\ DOMAIN (s \o u) = 1..(Len(s) + Len(u))
      /\ \A i \in 1..(Len(s) + Len(u)) :
            (s \o u)[i] = IF i <= Len(s) THEN s[i] ELSE u[i - Len(s)]
  BY <1>1, ConcatProperties, LenProperties
<1> HIDE DEF w
<1>5. \A i \in 1..Len(s) : i \in DOMAIN w /\ w[i] = s[i]
  BY <1>1, <1>2, <1>3
<1>6. \A i \in 1..Len(t) : Len(s) + i \in DOMAIN w /\ w[Len(s) + i] = t[i]
  <2> TAKE i \in 1..Len(t)
  <2>1. Len(s) + i \in 1..(Len(s) + Len(t)) /\ ~(Len(s) + i <= Len(s))
        /\ (Len(s) + i) - Len(s) = i
    BY <1>1
  <2>2. Len(s) + i \in 1..(Len(s) + Len(t) + Len(u)) /\ Len(s) + i <= Len(s) + Len(t)
    BY <1>1
  <2> QED
    BY <1>2, <1>3, <2>1, <2>2
<1>7. \A i \in 1..Len(u) : Len(s) + Len(t) + i \in DOMAIN w /\ w[Len(s) + Len(t) + i] = u[i]
  <2> TAKE i \in 1..Len(u)
  <2>1. /\ Len(s) + Len(t) + i \in 1..(Len(s) + Len(t) + Len(u))
        /\ ~(Len(s) + Len(t) + i <= Len(s) + Len(t))
        /\ (Len(s) + Len(t) + i) - (Len(s) + Len(t)) = i
    BY <1>1
  <2> QED
    BY <1>3, <2>1
<1>8. \A i, j \in DOMAIN w : i < j => w[i] < w[j]
  BY DEF Increasing, w
<1> DEFINE at(i) == IF i <= Len(s) THEN i ELSE i + Len(t)
<1>9. \A i \in 1..(Len(s) + Len(u)) : at(i) \in DOMAIN w /\ (s \o u)[i] = w[at(i)]
  <2> TAKE i \in 1..(Len(s) + Len(u))
  <2>1. CASE i <= Len(s)
    BY <1>1, <1>4, <1>5, <2>1
  <2>2. CASE i > Len(s)
    <3>1. i - Len(s) \in 1..Len(u) /\ Len(s) + Len(t) + (i - Len(s)) = i + Len(t)
      BY <1>1, <2>2
    <3>2. i + Len(t) \in DOMAIN w /\ w[i + Len(t)] = u[i - Len(s)]
      BY <1>7, <3>1
    <3> QED
      BY <1>1, <1>4, <2>2, <3>2
  <2> QED
    BY <1>1, <2>1, <2>2
<1>10. Increasing(s \o u)
  <2>1. \A i, j \in 1..(Len(s) + Len(u)) : i < j => at(i) < at(j)
    BY <1>1
  <2> QED
    BY <1>4, <1>8, <1>9, <2>1 DEF Increasing
<1>11. Elements(s \o u) = Elements(s) \cup Elements(u)
       /\ Elements(w) = Elements(s) \cup Elements(t) \cup Elements(u)
  <2>1. Elements(s \o u) = Elements(s) \cup Elements(u)
    BY ConcatElements
  <2>2. Elements(s \o t) = Elements(s) \cup Elements(t)
    BY ConcatElements
  <2>3. Elements((s \o t) \o u) = Elements(s \o t) \cup Elements(u)
    BY <1>2, ConcatElements
  <2> QED
    BY <2>1, <2>2, <2>3 DEF w
<1>12. \A x \in Elements(t) : x \notin Elements(s) /\ x \notin Elements(u)
  <2> SUFFICES ASSUME NEW k \in 1..Len(t)
               PROVE  /\ \A i \in 1..Len(s) : s[i] # t[k]
                      /\ \A i \in 1..Len(u) : u[i] # t[k]
    BY <1>1 DEF Elements
  <2>1. \A i \in 1..Len(s) : s[i] < t[k] /\ s[i] \in Int
    BY <1>1, <1>5, <1>6, <1>8
  <2>2. \A i \in 1..Len(u) : t[k] < u[i] /\ u[i] \in Int
    BY <1>1, <1>6, <1>7, <1>8
  <2>3. t[k] \in Int
    BY <1>1, ElementOfSeq
  <2> QED
    BY <2>1, <2>2, <2>3
<1> QED
  BY <1>10, <1>11, <1>12 DEF w

-----------------------------------------------------------------------------
(* Types and counts *)

CountInv == TypeOK /\ DropsCounted

LEMMA CountInit == Init => CountInv
<1> SUFFICES ASSUME Init PROVE CountInv
  OBVIOUS
<1> USE QueryLogAssumption DEF Init
<1>1. <<>> \in Seq(Event) /\ Len(<<>>) = 0
  BY EmptySeq
<1>2. /\ phase \in {"serving", "stopping", "closing", "exited", "killed"}
      /\ query \in [Resolver -> {"idle", "busy"}]
      /\ loop \in {"select", "write", "drain", "last", "stopped"}
      /\ loop # "write" /\ discarded \subseteq Event /\ timedOut \in BOOLEAN
  OBVIOUS
<1>3. /\ events \in Seq(Event) /\ batch \in Seq(Event)
      /\ query_log \in Seq(Event) /\ accepted \in Seq(Event)
      /\ Len(events) = 0 /\ Len(batch) = 0 /\ Len(accepted) = 0
  BY <1>1
<1>4. dropped \in 0..MaxEvents /\ issued \in 0..MaxEvents
      /\ Len(events) <= BufferSize /\ Len(batch) < BatchSize
      /\ issued = Len(accepted) + dropped
  BY <1>3
<1> QED
  BY <1>2, <1>3, <1>4 DEF CountInv, TypeOK, DropsCounted

LEMMA CountNext == CountInv /\ [Next]_vars => CountInv'
<1> SUFFICES ASSUME CountInv, [Next]_vars PROVE CountInv'
  OBVIOUS
<1> USE QueryLogAssumption DEF CountInv, TypeOK, DropsCounted
<1>1. CASE UNCHANGED vars
  BY <1>1 DEF vars, writerVars, logVars
<1>2. ASSUME NEW r \in Resolver, Receive(r) PROVE CountInv'
  BY <1>2 DEF Receive, writerVars, logVars
<1>3. ASSUME NEW r \in Resolver, Log(r) PROVE CountInv'
  <2>1. issued' = issued + 1 /\ issued' \in Event
    BY <1>3 DEF Log, Event
  <2>2. CASE Fits /\ Accept
    BY <1>3, <2>1, <2>2, AppendProperties, LenProperties DEF Log, Fits, Accept, writerVars, Event
  <2>3. CASE GiveUp
    BY <1>3, <2>1, <2>3 DEF Log, GiveUp, writerVars
  <2> QED
    BY <1>3, <2>2, <2>3 DEF Log
<1>4. CASE LoopReceive \/ DrainReceive
  <2>1. events # <<>> /\ Take
    BY <1>4 DEF LoopReceive, DrainReceive
  <2>2. Head(events) \in Event /\ Tail(events) \in Seq(Event)
        /\ Len(Tail(events)) = Len(events) - 1
    BY <2>1, HeadTailProperties
  <2>3. events' \in Seq(Event) /\ Len(events') <= BufferSize
    BY <2>1, <2>2, LenProperties DEF Take
  <2>4. batch' \in Seq(Event) /\ Len(batch') = Len(batch) + 1 /\ Len(batch) \in Nat
    BY <2>1, <2>2, AppendProperties, LenProperties DEF Take
  <2>5. CASE LoopReceive
    BY <2>3, <2>4, <2>5 DEF LoopReceive, logVars
  <2>6. CASE DrainReceive
    BY <2>3, <2>4, <2>6 DEF DrainReceive, logVars
  <2> QED
    BY <1>4, <2>5, <2>6
<1>5. CASE LoopTick \/ LoopDone \/ DrainEnd
  <2>1. Len(batch) \in Nat
    BY LenProperties
  <2>2. CASE LoopTick
    BY <2>1, <2>2 DEF LoopTick, logVars
  <2>3. CASE LoopDone
    BY <2>1, <2>3 DEF LoopDone, logVars
  <2>4. CASE DrainEnd
    BY <2>1, <2>4 DEF DrainEnd, logVars
  <2> QED
    BY <1>5, <2>2, <2>3, <2>4
<1>6. CASE Write \/ WriteFails
  <2>1. <<>> \in Seq(Event) /\ Len(<<>>) = 0
    BY EmptySeq
  <2>2. batch' = <<>> /\ loop' \in {"select", "stopped"}
        /\ UNCHANGED <<phase, query, events, logVars, timedOut>>
    BY <1>6 DEF Write, WriteFails, Flushed
  <2>3. query_log' \in Seq(Event)
    <3>1. query_log \o batch \in Seq(Event)
      BY ConcatProperties
    <3> QED
      BY <1>6, <3>1 DEF Write, WriteFails
  <2>4. discarded' \subseteq Event
    BY <1>6, LenProperties DEF Write, WriteFails
  <2> QED
    BY <2>1, <2>2, <2>3, <2>4 DEF logVars
<1>7. CASE Stop \/ Close \/ Exit \/ Kill
  BY <1>7 DEF Stop, Close, Exit, Kill, writerVars, logVars
<1> QED
  BY <1>1, <1>2, <1>3, <1>4, <1>5, <1>6, <1>7 DEF Next, Loop

\* Queues, phases and counters keep their types and sizes.
THEOREM QueryLogTypes == Spec => []TypeOK
<1>1. CountInv => TypeOK
  BY DEF CountInv
<1> QED
  BY <1>1, CountInit, CountNext, PTL DEF Spec

\* A call of Log is taken by the channel or counted as dropped.
THEOREM DropsCountedTheorem == Spec => []DropsCounted
<1>1. CountInv => DropsCounted
  BY DEF CountInv
<1> QED
  BY <1>1, CountInit, CountNext, PTL DEF Spec

-----------------------------------------------------------------------------
(* Order *)

OrderInv ==
    /\ \A e \in Elements(accepted) \cup discarded : e <= issued
    /\ ExactlyOnceInOrder

LEMMA OrderInit == Init => OrderInv
<1> SUFFICES ASSUME Init PROVE OrderInv
  OBVIOUS
<1>1. <<>> \o <<>> \o <<>> = <<>>
  BY ConcatEmptySeq, EmptySeq
<1>2. DOMAIN <<>> = {}
  BY EmptySeq, LenProperties
<1> QED
  BY <1>1, <1>2 DEF Init, OrderInv, ExactlyOnceInOrder, Held, Elements

\* An accepted event comes last of what the log has in hand; loop moves it on and
\* leaves its place.
LEMMA AcceptAppends ==
  ASSUME TypeOK, NEW r \in Resolver, Log(r), Accept
  PROVE  Held' = Append(Held, issued')
<1>1. /\ query_log \in Seq(Event) /\ batch \in Seq(Event) /\ events \in Seq(Event)
      /\ query_log \o batch \in Seq(Event) /\ Held \in Seq(Event)
  BY ConcatProperties DEF TypeOK, Held
<1>2. issued' \in Event /\ UNCHANGED <<query_log, batch>>
  BY QueryLogAssumption DEF Log, writerVars, TypeOK, Event
<1>3. <<issued'>> \in Seq(Event)
  BY <1>2
<1>4. events' = events \o <<issued'>>
  BY <1>1, <1>2, AppendIsConcat DEF Accept
<1>5. Append(Held, issued') = Held \o <<issued'>>
  BY <1>1, <1>2, AppendIsConcat
<1> QED
  BY <1>1, <1>2, <1>3, <1>4, <1>5, ConcatAssociative DEF Held

LEMMA LoopKeepsHeld ==
  ASSUME TypeOK, Loop, ~WriteFails
  PROVE  Held' = Held
<1>1. /\ query_log \in Seq(Event) /\ batch \in Seq(Event) /\ events \in Seq(Event)
      /\ query_log \o batch \in Seq(Event)
  BY ConcatProperties DEF TypeOK
<1>2. CASE LoopReceive \/ DrainReceive
  <2>1. events # <<>> /\ query_log' = query_log
        /\ batch' = Append(batch, Head(events)) /\ events' = Tail(events)
    BY <1>2 DEF LoopReceive, DrainReceive, Take
  <2>2. query_log \o Append(batch, Head(events)) \o Tail(events) = query_log \o batch \o events
    BY <1>1, <2>1, MoveHead, Zenon
  <2> QED
    BY <2>1, <2>2 DEF Held
<1>3. CASE LoopTick \/ LoopDone \/ DrainEnd
  BY <1>3 DEF LoopTick, LoopDone, DrainEnd, Held
<1>4. CASE Write
  BY <1>1, <1>4, ConcatEmptySeq DEF Write, Flushed, Held
<1> QED
  BY <1>2, <1>3, <1>4 DEF Loop

LEMMA OrderNext == CountInv /\ OrderInv /\ [Next]_vars => OrderInv'
<1> SUFFICES ASSUME CountInv, OrderInv, [Next]_vars PROVE OrderInv'
  OBVIOUS
<1>1. /\ query_log \in Seq(Event) /\ batch \in Seq(Event) /\ events \in Seq(Event)
      /\ accepted \in Seq(Event) /\ issued \in Nat /\ discarded \subseteq Event
      /\ Event \subseteq Int
  BY QueryLogAssumption DEF CountInv, TypeOK, Event
<1>2. query_log \o batch \in Seq(Event) /\ Held \in Seq(Event)
  BY <1>1, ConcatProperties DEF Held
<1>0. Elements(accepted) \subseteq Int /\ Elements(Held) \subseteq Int /\ issued < issued + 1
      /\ \A e \in Int : e <= issued => e < issued + 1 /\ e <= issued + 1
  <2>1. \A s \in Seq(Event) : Elements(s) \subseteq Event
    BY LenProperties, ElementOfSeq DEF Elements
  <2>2. Elements(accepted) \subseteq Int /\ Elements(Held) \subseteq Int
    BY <1>1, <1>2, <2>1, Zenon
  <2>3. issued < issued + 1 /\ \A e \in Int : e <= issued => e < issued + 1 /\ e <= issued + 1
    BY <1>1
  <2> QED
    BY <2>2, <2>3
<1>3. ASSUME Held' = Held, UNCHANGED <<accepted, discarded, issued>> PROVE OrderInv'
  BY <1>3 DEF OrderInv, ExactlyOnceInOrder
<1>4. ASSUME UNCHANGED <<query_log, batch, events, accepted, discarded, issued>>
      PROVE  OrderInv'
  BY <1>3, <1>4 DEF Held
<1>5. CASE UNCHANGED vars
  BY <1>4, <1>5 DEF vars, writerVars, logVars
<1>6. ASSUME NEW r \in Resolver, Receive(r) PROVE OrderInv'
  BY <1>4, <1>6 DEF Receive, writerVars, logVars
<1>7. ASSUME NEW r \in Resolver, Log(r) PROVE OrderInv'
  <2>1. issued' = issued + 1 /\ issued' \in Event /\ UNCHANGED <<query_log, batch, discarded>>
    BY <1>1, <1>7, QueryLogAssumption DEF Log, writerVars, CountInv, TypeOK, Event
  <2>2. CASE Accept
    <3>1. Held' = Append(Held, issued')
      BY <1>7, <2>2, AcceptAppends DEF CountInv
    <3>2. Elements(Held') = Elements(Held) \cup {issued'}
          /\ Elements(accepted') = Elements(accepted) \cup {issued'}
      BY <1>1, <1>2, <2>1, <2>2, <3>1, AppendElements DEF Accept
    <3>3. issued' \notin discarded /\ \A e \in Elements(Held) : e < issued'
      BY <1>0, <1>1, <2>1 DEF OrderInv, ExactlyOnceInOrder
    <3>4. Held \in Seq(Int) /\ issued' \in Int
      BY <1>1, <1>2, <2>1, SeqMonotonic
    <3>5. Increasing(Held')
      <4>1. Increasing(Held)
        BY DEF Increasing, OrderInv, ExactlyOnceInOrder
      <4>2. Increasing(Append(Held, issued'))
        BY <3>3, <3>4, <4>1, AppendIncreasing
      <4> QED
        BY <3>1, <4>2
    <3>6. \A e \in Elements(accepted') \cup discarded' : e <= issued'
      <4>1. \A e \in Elements(accepted) \cup discarded : e <= issued'
        BY <1>0, <1>1, <2>1 DEF OrderInv
      <4> QED
        BY <2>1, <3>2, <3>4, <4>1
    <3> QED
      BY <2>1, <3>2, <3>3, <3>5, <3>6 DEF OrderInv, ExactlyOnceInOrder, Increasing
  <2>3. CASE GiveUp
    <3>1. Held' = Held /\ accepted' = accepted
      BY <2>1, <2>3 DEF GiveUp, Held
    <3>2. \A e \in Elements(accepted') \cup discarded' : e <= issued'
      BY <1>0, <1>1, <2>1, <3>1 DEF OrderInv
    <3> QED
      BY <2>1, <3>1, <3>2 DEF OrderInv, ExactlyOnceInOrder
  <2> QED
    BY <1>7, <2>2, <2>3 DEF Log
<1>8. CASE LoopReceive \/ DrainReceive
  <2>1. Held' = Held
    BY <1>8, LoopKeepsHeld DEF CountInv, Loop, LoopReceive, DrainReceive, WriteFails
  <2> QED
    BY <1>3, <1>8, <2>1 DEF LoopReceive, DrainReceive, logVars
<1>9. CASE LoopTick \/ LoopDone \/ DrainEnd
  BY <1>4, <1>9 DEF LoopTick, LoopDone, DrainEnd, logVars
<1>10. CASE Write
  <2>1. Held' = Held
    BY <1>1, <1>2, <1>10, ConcatEmptySeq DEF Write, Flushed, Held
  <2> QED
    BY <1>3, <1>10, <2>1 DEF Write, Flushed, logVars
<1>11. CASE WriteFails
  <2>1. /\ UNCHANGED <<query_log, events, accepted, issued>> /\ batch' = <<>>
        /\ discarded' = discarded \cup Elements(batch)
    BY <1>11 DEF WriteFails, Flushed, logVars, Elements
  <2>2. Held' = query_log \o events
    BY <1>1, <2>1, ConcatEmptySeq DEF Held
  <2>3. query_log \in Seq(Int) /\ batch \in Seq(Int) /\ events \in Seq(Int)
    BY <1>1, SeqMonotonic
  <2>4. Increasing(Held') /\ Elements(Held') = Elements(Held) \ Elements(batch)
    <3>1. Increasing(query_log \o batch \o events)
      BY DEF Held, Increasing, OrderInv, ExactlyOnceInOrder
    <3>2. /\ Increasing(query_log \o events)
          /\ Elements(query_log \o events)
                 = Elements(query_log \o batch \o events) \ Elements(batch)
      BY <2>3, <3>1, DropMiddle
    <3> QED
      BY <2>2, <3>2 DEF Held
  <2>5. Elements(batch) \subseteq Elements(Held)
    <3>1. Elements(query_log \o batch) = Elements(query_log) \cup Elements(batch)
      BY <1>1, ConcatElements
    <3>2. Elements((query_log \o batch) \o events) = Elements(query_log \o batch) \cup Elements(events)
      BY <1>1, <1>2, ConcatElements
    <3> QED
      BY <3>1, <3>2 DEF Held
  <2>6. \A e \in Elements(accepted') \cup discarded' : e <= issued'
    BY <2>1, <2>5 DEF OrderInv, ExactlyOnceInOrder
  <2>7. Elements(Held') = Elements(accepted') \ discarded'
    BY <2>1, <2>4 DEF OrderInv, ExactlyOnceInOrder
  <2> QED
    BY <2>4, <2>6, <2>7 DEF OrderInv, ExactlyOnceInOrder, Increasing
<1>12. CASE Stop \/ Close \/ Exit \/ Kill
  BY <1>4, <1>12 DEF Stop, Close, Exit, Kill, writerVars, logVars
<1> QED
  BY <1>5, <1>6, <1>7, <1>8, <1>9, <1>10, <1>11, <1>12 DEF Next, Loop

\* What the channel took is in the table, in the batch, in the channel or in a
\* batch that failed, once, and in the order of the calls of Log.
THEOREM ExactlyOnceTheorem == Spec => []ExactlyOnceInOrder
<1>1. OrderInv => ExactlyOnceInOrder
  BY DEF OrderInv
<1> QED
  BY <1>1, CountInit, CountNext, OrderInit, OrderNext, PTL DEF Spec

-----------------------------------------------------------------------------
(* An orderly end *)

\* Once every handler has been waited for nobody logs any more, so what the drain
\* finds empty stays empty.
EndInv ==
    /\ phase \in {"closing", "exited"} /\ ~timedOut => \A r \in Resolver : query[r] = "idle"
    /\ loop \in {"drain", "last", "stopped"} => phase \notin {"serving", "stopping"}
    /\ loop \in {"last", "stopped"} /\ phase # "killed" /\ ~timedOut => events = <<>>
    /\ loop = "stopped" => batch = <<>>
    /\ phase = "exited" => loop = "stopped"

LEMMA EndInit == Init => EndInv
  BY DEF Init, EndInv

LEMMA EndNext == CountInv /\ EndInv /\ [Next]_vars => EndInv'
<1> SUFFICES ASSUME CountInv, EndInv, [Next]_vars PROVE EndInv'
  OBVIOUS
<1> USE DEF EndInv
<1>0. query \in [Resolver -> {"idle", "busy"}]
      /\ phase \in {"serving", "stopping", "closing", "exited", "killed"}
  BY DEF CountInv, TypeOK
<1>1. CASE UNCHANGED vars
  BY <1>1 DEF vars, writerVars, logVars
<1>2. ASSUME NEW r \in Resolver, Receive(r) PROVE EndInv'
  BY <1>0, <1>2 DEF Receive, writerVars
<1>3. ASSUME NEW r \in Resolver, Log(r) PROVE EndInv'
  BY <1>0, <1>3 DEF Log, Alive, writerVars
<1>4. CASE LoopReceive \/ DrainReceive
  BY <1>4 DEF LoopReceive, DrainReceive
<1>5. CASE LoopTick \/ LoopDone \/ DrainEnd
  BY <1>5, <1>0 DEF LoopTick, LoopDone, DrainEnd, Alive
<1>6. CASE Write \/ WriteFails
  BY <1>6, <1>0 DEF Write, WriteFails, Flushed, Alive
<1>7. CASE Stop \/ Close \/ Exit \/ Kill
  BY <1>7, <1>0 DEF Stop, Close, Exit, Kill, writerVars
<1> QED
  BY <1>1, <1>2, <1>3, <1>4, <1>5, <1>6, <1>7 DEF Next, Loop

\* A process that ended in order, with every handler waited for, leaves neither a
\* batch nor an event in the channel behind.
THEOREM OrderlyExitTheorem == Spec => []OrderlyExitKeepsAll
<1>1. EndInv => OrderlyExitKeepsAll
  BY DEF EndInv, OrderlyExitKeepsAll
<1> QED
  BY <1>1, CountInit, CountNext, EndInit, EndNext, PTL DEF Spec

-----------------------------------------------------------------------------
(* A database that does not fail *)

\* With a database that does not fail nothing is ever set aside: the table and what
\* waits are all that was accepted, in order, and a process that ends in order, with
\* every handler waited for, leaves all of it in the table.
NothingLost ==
    /\ query_log \o batch \o events = accepted
    /\ phase = "exited" /\ ~timedOut => query_log = accepted

\* No batch fails, by the constant.
NoWriteFails == WriteFaults = FALSE

LEMMA HeldIsAccepted == NoWriteFails /\ CountInv /\ Held = accepted /\ [Next]_vars => Held' = accepted'
<1> SUFFICES ASSUME NoWriteFails, CountInv, Held = accepted, [Next]_vars PROVE Held' = accepted'
  OBVIOUS
<1>1. ASSUME NEW r \in Resolver, Log(r) PROVE Held' = accepted'
  <2>1. CASE Accept
    BY <1>1, <2>1, AcceptAppends DEF CountInv, Accept
  <2>2. CASE GiveUp
    BY <1>1, <2>2 DEF Log, GiveUp, Held, writerVars
  <2> QED
    BY <1>1, <2>1, <2>2 DEF Log
<1>2. CASE Loop
  <2>1. ~WriteFails
    BY DEF NoWriteFails, WriteFails
  <2>2. accepted' = accepted
    BY <1>2 DEF Loop, LoopReceive, LoopTick, LoopDone, DrainReceive, DrainEnd, Write, WriteFails,
       Flushed, logVars
  <2> QED
    BY <1>2, <2>1, <2>2, LoopKeepsHeld DEF CountInv
<1>3. CASE (\E r \in Resolver : Receive(r)) \/ Stop \/ Close \/ Exit \/ Kill \/ UNCHANGED vars
  BY <1>3 DEF Receive, Stop, Close, Exit, Kill, vars, writerVars, logVars, Held
<1> QED
  BY <1>1, <1>2, <1>3 DEF Next

\* query_store.go:134 - without a failed batch the channel, the batch and the table are
\* together the accepted events, and after an orderly end the table is.
THEOREM NothingLostTheorem == ASSUME NoWriteFails PROVE Spec => []NothingLost
<1>1. Init => Held = accepted
  <2>1. <<>> \o <<>> \o <<>> = <<>>
    BY ConcatEmptySeq, EmptySeq
  <2> QED
    BY <2>1 DEF Init, Held
<1>2. CountInv /\ Held = accepted /\ [Next]_vars => (Held = accepted)'
  BY HeldIsAccepted
<1>3. CountInv /\ Held = accepted /\ OrderlyExitKeepsAll => NothingLost
  BY ConcatEmptySeq DEF CountInv, TypeOK, OrderlyExitKeepsAll, NothingLost, Held
<1> QED
  BY <1>1, <1>2, <1>3, CountInit, CountNext, OrderlyExitTheorem, PTL DEF Spec

-----------------------------------------------------------------------------
(* The figures of a summary *)

\* The rows are finitely many events.
LEMMA RowsFinite ==
  ASSUME NEW log \in Seq(Event)
  PROVE  LET rows == {log[i] : i \in DOMAIN log}
         IN rows \subseteq Event /\ IsFiniteSet(rows)
<1> DEFINE rows == {log[i] : i \in DOMAIN log}
<1>1. rows \subseteq Event
  OBVIOUS
<1>2. IsFiniteSet(Event)
  BY FS_Interval, QueryLogAssumption DEF Event
<1>3. IsFiniteSet(rows)
  <2> HIDE DEF rows
  <2> QED
    BY <1>1, <1>2, FS_Subset
<1> QED
  BY <1>1, <1>3

\* Fewer rows have no larger count.
LEMMA CountGrows ==
  ASSUME NEW many, IsFiniteSet(many), NEW few, few \subseteq many
  PROVE  /\ IsFiniteSet(few) /\ Cardinality(few) \in Nat /\ Cardinality(many) \in Nat
         /\ Cardinality(few) <= Cardinality(many)
BY FS_Subset, FS_CardinalityType

\* The table grows only.
LEMMA RowsGrow == TypeOK /\ [Next]_vars => Rows \subseteq Rows'
<1> SUFFICES ASSUME TypeOK, [Next]_vars PROVE Rows \subseteq Rows'
  OBVIOUS
<1>1. query_log' = query_log \/ (query_log' = query_log \o batch)
  BY DEF Next, Receive, Log, Loop, LoopReceive, LoopTick, LoopDone, DrainReceive, DrainEnd,
     Write, WriteFails, Stop, Close, Exit, Kill, vars, writerVars
<1>2. Elements(query_log \o batch) = Elements(query_log) \cup Elements(batch)
  BY ConcatElements DEF TypeOK
<1>3. Rows = Elements(query_log) /\ Rows' = Elements(query_log')
  BY DEF Rows, Elements
<1> QED
  BY <1>1, <1>2, <1>3

\* A figure about some events is no less than at the first statement, and no
\* more than the table has now.
Between(n, events_) ==
    n \in Cardinality(began \cap events_)..Cardinality(Rows \cap filter \cap events_)

CoverInv ==
    /\ reader \in {"idle", "blocked", "forwarded", "types", "summed", "paging", "paged"}
    /\ DOMAIN summary = {"total", "blocked", "forwarded", "types"}
    /\ reader # "idle" => began \subseteq Rows \cap filter
    /\ reader \in {"blocked", "forwarded", "types", "summed"} =>
          summary.total = Cardinality(began)
    /\ reader \in {"forwarded", "types", "summed"} => Between(summary.blocked, IsBlocked)
    /\ reader \in {"types", "summed"} => Between(summary.forwarded, Event \ IsBlocked)
    /\ reader = "summed" => \A e \in began : QTypeOf[e] \in Named =>
          Between(summary.types[QTypeOf[e]], OfType(QTypeOf[e]))

\* A count that is made now is such a figure.
LEMMA CountIsBetween ==
  ASSUME TypeOK, began \subseteq Rows \cap filter, NEW events_
  PROVE  Between(Count(events_), events_)
<1>0. IsFiniteSet(Rows)
  BY RowsFinite DEF TypeOK, Rows
<1>1. IsFiniteSet(Rows \cap filter \cap events_)
  BY <1>0, CountGrows
<1>2. began \cap events_ \subseteq Rows \cap filter \cap events_
  OBVIOUS
<1> QED
  BY <1>1, <1>2, CountGrows DEF Between, Count

\* Rows that are committed later leave it one.
LEMMA StaysBetween ==
  ASSUME TypeOK', Rows \subseteq Rows', UNCHANGED <<filter, began>>, TypeOK,
         NEW n, NEW events_, Between(n, events_)
  PROVE  n \in Cardinality(began \cap events_)..Cardinality(Rows' \cap filter \cap events_)
<1>1. IsFiniteSet(Rows')
  BY RowsFinite DEF TypeOK, Rows
<1>2. IsFiniteSet(Rows' \cap filter \cap events_)
  BY <1>1, CountGrows
<1>3. Rows \cap filter \cap events_ \subseteq Rows' \cap filter \cap events_
  OBVIOUS
<1>4. /\ Cardinality(Rows \cap filter \cap events_) <= Cardinality(Rows' \cap filter \cap events_)
      /\ Cardinality(Rows \cap filter \cap events_) \in Nat
      /\ Cardinality(Rows' \cap filter \cap events_) \in Nat
  BY <1>2, <1>3, CountGrows
<1> QED
  BY <1>4 DEF Between

LEMMA CoverInit == ReadInit => CoverInv
BY DEF ReadInit, CoverInv, NoSummary

\* The writer, or nobody, took a step: figures and rows of the start stay.
LEMMA CoverAfterWriter ==
  ASSUME CoverInv, TypeOK, TypeOK', Rows \subseteq Rows', UNCHANGED readVars
  PROVE  CoverInv'
<1>0. UNCHANGED <<reader, filter, summary, began>>
  BY DEF readVars
<1>1. \A n, events_ : Between(n, events_) =>
        n \in Cardinality(began \cap events_)..Cardinality(Rows' \cap filter \cap events_)
  BY <1>0, StaysBetween
<1>2. Event' = Event /\ \A t : OfType(t)' = OfType(t)
  BY DEF Event, OfType
<1>3. reader # "idle" => began \subseteq Rows' \cap filter
  BY DEF CoverInv
<1>4. ASSUME reader = "summed", NEW e \in began, QTypeOf[e] \in Named
      PROVE  summary.types[QTypeOf[e]] \in
               Cardinality(began \cap OfType(QTypeOf[e]))..
               Cardinality(Rows' \cap filter \cap OfType(QTypeOf[e]))
  BY <1>1, <1>4 DEF CoverInv
<1>5. reader \in {"forwarded", "types", "summed"} =>
        summary.blocked \in Cardinality(began \cap IsBlocked)..
                            Cardinality(Rows' \cap filter \cap IsBlocked)
  BY <1>1 DEF CoverInv
<1>6. reader \in {"types", "summed"} =>
        summary.forwarded \in Cardinality(began \cap (Event \ IsBlocked))..
                              Cardinality(Rows' \cap filter \cap (Event \ IsBlocked))
  BY <1>1 DEF CoverInv
<1> QED
  BY <1>0, <1>2, <1>3, <1>4, <1>5, <1>6 DEF CoverInv, Between

\* A reader took one, on the table as it is.
LEMMA CoverAfterRead ==
  ASSUME CoverInv, TypeOK, Read
  PROVE  CoverInv'
<1>0. /\ UNCHANGED vars /\ Rows' = Rows
      /\ reader \in {"idle", "blocked", "forwarded", "types", "summed", "paging", "paged"}
      /\ DOMAIN summary = {"total", "blocked", "forwarded", "types"}
      /\ \A events_ : (Rows \cap filter \cap events_)' = Rows' \cap filter' \cap events_
  BY DEF Read, CountTotal, CountBlocked, CountForwarded, CountTypes, StartPaging, NextPage,
     vars, writerVars, Rows, CoverInv
<1>1. ASSUME NEW f \in Filter, CountTotal(f) PROVE CoverInv'
  BY <1>0, <1>1 DEF CountTotal, Ask, CoverInv, NoSummary
<1>2. ASSUME NEW f \in Filter, NEW l \in Limit, StartPaging(f, l) PROVE CoverInv'
  BY <1>0, <1>2 DEF StartPaging, Ask, CoverInv
<1>3. ASSUME NextPage PROVE CoverInv'
  BY <1>0, <1>3 DEF NextPage, CoverInv
<1>4. ASSUME CountBlocked PROVE CoverInv'
  <2>1. Between(Count(IsBlocked), IsBlocked)
    BY <1>4, CountIsBetween DEF CountBlocked, CoverInv
  <2>2. /\ reader = "blocked" /\ reader' = "forwarded" /\ UNCHANGED <<filter, began>>
        /\ summary'.total = summary.total /\ summary'.blocked = Count(IsBlocked)
        /\ DOMAIN summary' = DOMAIN summary
    BY <1>0, <1>4 DEF CountBlocked
  <2> QED
    BY <1>0, <2>1, <2>2 DEF CoverInv, Between
<1>5. ASSUME CountForwarded PROVE CoverInv'
  <2>1. Between(Count(Event \ IsBlocked), Event \ IsBlocked)
    BY <1>5, CountIsBetween DEF CountForwarded, CoverInv
  <2>2. /\ reader = "forwarded" /\ reader' = "types" /\ UNCHANGED <<filter, began>>
        /\ summary'.total = summary.total /\ summary'.blocked = summary.blocked
        /\ summary'.forwarded = Count(Event \ IsBlocked)
        /\ DOMAIN summary' = DOMAIN summary
    BY <1>0, <1>5 DEF CountForwarded
  <2> QED
    BY <1>0, <2>1, <2>2 DEF CoverInv, Between
<1>6. ASSUME CountTypes PROVE CoverInv'
  <2>1. /\ reader = "types" /\ reader' = "summed" /\ UNCHANGED <<filter, began>>
        /\ summary'.total = summary.total /\ summary'.blocked = summary.blocked
        /\ summary'.forwarded = summary.forwarded
        /\ DOMAIN summary' = DOMAIN summary
    BY <1>0, <1>6 DEF CountTypes
  <2>2. PICK last :
           summary' = [summary EXCEPT !.types =
              [name \in (Types \cap Named) \cup (IF last = Other THEN {} ELSE {Other}) |->
                  Count(OfType(IF name = Other THEN last ELSE name))]]
    BY <1>6 DEF CountTypes
  <2>3. ASSUME NEW e \in began, QTypeOf[e] \in Named
        PROVE  Between(summary'.types[QTypeOf[e]], OfType(QTypeOf[e]))
    <3>1. QTypeOf[e] \in Types /\ QTypeOf[e] # Other
      BY <2>1, <2>3, QueryReadsAssumption DEF CoverInv, Types
    <3>2. summary'.types[QTypeOf[e]] = Count(OfType(QTypeOf[e]))
      BY <1>0, <2>2, <2>3, <3>1
    <3>3. Between(Count(OfType(QTypeOf[e])), OfType(QTypeOf[e]))
      BY <2>1, CountIsBetween DEF CoverInv
    <3> QED
      BY <3>2, <3>3
  <2>4. \A t : OfType(t)' = OfType(t)
    BY DEF OfType
  <2> QED
    BY <1>0, <2>1, <2>3, <2>4 DEF CoverInv, Between
<1> QED
  BY <1>1, <1>2, <1>3, <1>4, <1>5, <1>6 DEF Read

\* What it says of the figures, once there are all.
LEMMA CoverSays == TypeOK /\ CoverInv => SummaryCoversLog
<1> SUFFICES ASSUME TypeOK, CoverInv, reader = "summed" PROVE SummaryCoversLog
  BY DEF SummaryCoversLog
<1>1. began \subseteq Rows /\ began \subseteq Event /\ IsFiniteSet(began) /\ Cardinality(began) \in Nat
  <2>1. Rows \subseteq Event /\ IsFiniteSet(Rows) /\ began \subseteq Rows
    BY RowsFinite DEF TypeOK, Rows, CoverInv
  <2> QED
    BY <2>1, CountGrows
<1>2. began \cap (Event \ IsBlocked) = began \ IsBlocked
  BY <1>1
<1>3. /\ Cardinality(began \ IsBlocked) = Cardinality(began) - Cardinality(began \cap IsBlocked)
      /\ Cardinality(began \cap IsBlocked) \in Nat /\ Cardinality(began \ IsBlocked) \in Nat
  BY <1>1, FS_Difference, CountGrows
<1>4. /\ summary.total = Cardinality(began)
      /\ summary.blocked \in Cardinality(began \cap IsBlocked)..Asked(IsBlocked)
      /\ summary.forwarded \in Cardinality(began \ IsBlocked)..Asked(Event \ IsBlocked)
  BY <1>2 DEF CoverInv, Between, Asked
<1>5. summary.blocked + summary.forwarded >= summary.total
  <2>1. summary.blocked \in Int /\ summary.blocked >= Cardinality(began \cap IsBlocked)
    BY <1>4
  <2>2. summary.forwarded \in Int /\ summary.forwarded >= Cardinality(began \ IsBlocked)
    BY <1>4
  <2> QED
    BY <1>1, <1>3, <1>4, <2>1, <2>2
<1>6. summary.total >= Cardinality(began)
  BY <1>1, <1>4
<1>7. \A e \in began : QTypeOf[e] \in Named =>
        summary.types[QTypeOf[e]] \in
            Cardinality(began \cap OfType(QTypeOf[e]))..Asked(OfType(QTypeOf[e]))
  BY DEF CoverInv, Between, Asked
<1> QED
  BY <1>4, <1>5, <1>6, <1>7 DEF SummaryCoversLog

\* No figure of a summary is below what the table held when the request came in, or
\* above what it holds, and every query of the total is in one of the two others.
THEOREM SummaryTheorem == ReadSpec => []SummaryCoversLog
<1>1. ReadInit => CountInv /\ CoverInv
  BY CountInit, CoverInit DEF ReadInit
<1>2. CountInv /\ CoverInv /\ [ReadNext]_allVars => (CountInv /\ CoverInv)'
  <2> SUFFICES ASSUME CountInv, CoverInv, [ReadNext]_allVars PROVE CountInv' /\ CoverInv'
    OBVIOUS
  <2>1. [Next]_vars /\ (UNCHANGED readVars \/ Read)
    BY DEF ReadNext, allVars, Read, CountTotal, CountBlocked, CountForwarded, CountTypes,
       StartPaging, NextPage
  <2>2. CountInv' /\ TypeOK /\ TypeOK'
    <3>1. CountInv'
      BY <2>1, CountNext
    <3> QED
      BY <3>1 DEF CountInv
  <2>3. Rows \subseteq Rows'
    BY <2>1, <2>2, RowsGrow
  <2> QED
    BY <2>1, <2>2, <2>3, CoverAfterWriter, CoverAfterRead
<1>3. CountInv /\ CoverInv => SummaryCoversLog
  BY CoverSays DEF CountInv
<1> QED
  BY <1>1, <1>2, <1>3, PTL DEF ReadSpec
-----------------------------------------------------------------------------
(* The pages of a listing *)

\* A set of naturals has a least element.
LEMMA Least ==
  ASSUME NEW T, T \subseteq Nat, T # {}
  PROVE  \E i \in T : \A j \in T : i <= j
<1> DEFINE Less == {ss \in Nat \X Nat : ss[1] < ss[2]}
<1>1. IsWellFoundedOn(Less, Nat)
  BY NatLessThanWellFounded DEF OpToRel
<1>2. PICK i \in T : \A j \in T : ~(<<j, i>> \in Less)
  <2> HIDE DEF Less
  <2> QED
    BY <1>1, WFMin
<1>3. ASSUME NEW j \in T PROVE i <= j
  <2>1. <<j, i>> \in Nat \X Nat /\ <<j, i>>[1] = j /\ <<j, i>>[2] = i
    OBVIOUS
  <2> QED
    BY <1>2, <2>1
<1> QED
  BY <1>3

\* How many rows of a set of ids come after one.
After(ids, k) == Cardinality({j \in ids : j > k})

\* Of two ids, more rows come after the lower one; and one more comes after an id
\* than after the next.
LEMMA AfterOrder ==
  ASSUME NEW ids, ids \subseteq Nat, IsFiniteSet(ids)
  PROVE  /\ \A k : After(ids, k) \in Nat
         /\ \A j, k \in ids : j < k => After(ids, k) < After(ids, j)
         /\ \A k \in ids : After(ids, k) > 0 =>
               \E j \in ids : k < j /\ After(ids, k) = After(ids, j) + 1
<1> DEFINE Beyond(k) == {j \in ids : j > k}
<1>0. \A i \in ids : i \in Int
  OBVIOUS
<1>1. \A k : IsFiniteSet(Beyond(k)) /\ Cardinality(Beyond(k)) \in Nat
  <2> TAKE k
  <2>1. Beyond(k) \subseteq ids
    OBVIOUS
  <2> HIDE DEF Beyond
  <2> QED
    BY <2>1, FS_Subset, FS_CardinalityType
<1>2. ASSUME NEW j \in ids, NEW k \in ids, j < k
      PROVE  Cardinality(Beyond(k)) < Cardinality(Beyond(j))
  <2>1. Beyond(k) \subseteq Beyond(j) /\ k \in Beyond(j) /\ k \notin Beyond(k)
    <3>1. \A i \in ids : i > k => i > j
      BY <1>0, <1>2
    <3>2. k > j /\ ~(k > k)
      BY <1>0, <1>2
    <3> QED
      BY <3>1, <3>2
  <2> HIDE DEF Beyond
  <2>2. Cardinality(Beyond(k)) <= Cardinality(Beyond(j))
        /\ Cardinality(Beyond(k)) # Cardinality(Beyond(j))
    BY <1>1, <2>1, FS_Subset
  <2> QED
    BY <1>1, <2>2
<1>3. ASSUME NEW k \in ids, Cardinality(Beyond(k)) > 0
      PROVE  \E j \in ids : k < j /\ Cardinality(Beyond(k)) = Cardinality(Beyond(j)) + 1
  <2>1. Beyond(k) # {}
    BY <1>3, FS_EmptySet
  <2>2. PICK j \in Beyond(k) : \A i \in Beyond(k) : j <= i
    <3>1. Beyond(k) \subseteq Nat
      OBVIOUS
    <3> HIDE DEF Beyond
    <3> QED
      BY <2>1, <3>1, Least
  <2>3. Beyond(k) = Beyond(j) \cup {j} /\ j \notin Beyond(j)
    <3>1. j \in ids /\ j > k /\ ~(j > j)
      BY <1>0, <2>2
    <3>2. \A i \in ids : i > k <=> i > j \/ i = j
      <4> SUFFICES ASSUME NEW i \in ids PROVE i > k <=> i > j \/ i = j
        OBVIOUS
      <4>1. i > k => j <= i
        BY <2>2
      <4> QED
        BY <1>0, <3>1, <4>1
    <3> QED
      BY <3>1, <3>2
  <2>4. Cardinality(Beyond(k)) = Cardinality(Beyond(j)) + 1
    <3> HIDE DEF Beyond
    <3> QED
      BY <1>1, <2>3, FS_AddElement
  <2> QED
    BY <2>2, <2>4
<1> QED
  BY <1>1, <1>2, <1>3 DEF After

\* The ids that a page has: those after which so many rows come.
PageOf(ids, size, skip) == {j \in ids : After(ids, j) \in skip..(skip + size - 1)}

\* A page has no more rows than were asked for, and when it is empty there are none
\* beyond those it skips.
LEMMA PageSound ==
  ASSUME NEW ids, ids \subseteq Nat, IsFiniteSet(ids),
         NEW size \in Nat \ {0}, NEW skip \in Nat
  PROVE  /\ IsFiniteSet(PageOf(ids, size, skip))
         /\ Cardinality(PageOf(ids, size, skip)) <= size
         /\ PageOf(ids, size, skip) = {} => \A k \in ids : After(ids, k) < skip
<1> DEFINE page == PageOf(ids, size, skip)
           places == skip..(skip + size - 1)
           place == [j \in page |-> After(ids, j)]
<1>1. IsFiniteSet(places) /\ Cardinality(places) = size
  <2>1. skip \in Int /\ skip + size - 1 \in Int /\ ~(skip > skip + size - 1)
    OBVIOUS
  <2> QED
    BY <2>1, FS_Interval
<1>2. place \in Injection(page, places)
  <2>1. page \subseteq ids /\ place \in [page -> places]
    BY DEF PageOf
  <2>2. \A i, j \in page : place[i] = place[j] => i = j
    <3> SUFFICES ASSUME NEW i \in page, NEW j \in page, place[i] = place[j], i # j PROVE FALSE
      OBVIOUS
    <3>0. i \in ids /\ j \in ids
      BY <2>1
    <3>1. i \in ids /\ j \in ids /\ i \in Int /\ j \in Int
      BY <3>0
    <3>2. i < j \/ j < i
      BY <3>1
    <3>3. \A k : After(ids, k) \in Nat
      BY AfterOrder
    <3>4. After(ids, j) < After(ids, i) \/ After(ids, i) < After(ids, j)
      BY <3>1, <3>2, AfterOrder
    <3>5. After(ids, i) # After(ids, j)
      BY <3>3, <3>4
    <3>6. place[i] = After(ids, i) /\ place[j] = After(ids, j)
      OBVIOUS
    <3> QED
      BY <3>5, <3>6
  <2> HIDE DEF page, place, places
  <2> QED
    BY <2>1, <2>2 DEF Injection, IsInjective
<1>3. IsFiniteSet(page) /\ Cardinality(page) <= size
  <2> HIDE DEF page, place, places
  <2> QED
    BY <1>1, <1>2, FS_Injection
<1>4. ASSUME page = {}, NEW k \in ids, ~(After(ids, k) < skip) PROVE FALSE
  <2> DEFINE deep == {n \in Nat : n >= skip /\ \E j \in ids : After(ids, j) = n}
  <2>1. deep \subseteq Nat /\ deep # {}
    <3>1. After(ids, k) \in Nat
      BY AfterOrder
    <3>2. After(ids, k) >= skip
      BY <1>4, <3>1
    <3> QED
      BY <3>1, <3>2
  <2>2. PICK n \in deep : \A m \in deep : n <= m
    <3> HIDE DEF deep
    <3> QED
      BY <2>1, Least
  <2>3. PICK j \in ids : After(ids, j) = n
    BY <2>2
  <2>4. n \in Nat /\ n >= skip
    BY <2>2
  <2>5. n > skip
    <3>1. n # skip
      BY <1>4, <2>3 DEF PageOf
    <3> QED
      BY <2>4, <3>1
  <2>6. PICK i \in ids : n = After(ids, i) + 1
    <3>1. After(ids, j) > 0
      BY <2>3, <2>4, <2>5
    <3> QED
      BY <2>3, <3>1, AfterOrder
  <2>7. After(ids, i) \in Nat
    BY AfterOrder
  <2>8. After(ids, i) \in deep /\ After(ids, i) < n
    BY <2>5, <2>6, <2>7
  <2> QED
    BY <2>2, <2>4, <2>7, <2>8
<1> QED
  BY <1>3, <1>4

\* A client that pages has what was there at its first request and comes before its
\* offset, counted from the newest row of now.
PageInv ==
    /\ reader = "paging" =>
          /\ offset \in Nat
          /\ \A k \in Found : query_log[k] \in began /\ Newer(k) < offset => query_log[k] \in seen
    /\ reader = "paged" => began \subseteq seen

\* The ids are finitely many.
LEMMA FoundFinite ==
  ASSUME NEW log \in Seq(Event), NEW f
  PROVE  LET ids == {k \in DOMAIN log : log[k] \in f}
         IN ids \subseteq Nat /\ IsFiniteSet(ids)
<1> DEFINE ids == {k \in DOMAIN log : log[k] \in f}
<1>1. Len(log) \in Nat /\ DOMAIN log = 1..Len(log)
  BY LenProperties
<1>2. ids \subseteq 1..Len(log) /\ IsFiniteSet(1..Len(log))
  BY <1>1, FS_Interval
<1>3. IsFiniteSet(ids)
  <2> HIDE DEF ids
  <2> QED
    BY <1>2, FS_Subset
<1> QED
  BY <1>2, <1>3

\* Rows that are committed come after all others, and none of them is one that was
\* there: an event is in the table once.
LEMMA PageAfterWriter ==
  ASSUME PageInv, CoverInv, TypeOK, TypeOK', ExactlyOnceInOrder', UNCHANGED readVars,
         query_log' = query_log \/ query_log' = query_log \o batch
  PROVE  PageInv'
<1>0. UNCHANGED <<reader, filter, offset, seen, began>>
  BY DEF readVars
<1>1. /\ DOMAIN query_log \subseteq DOMAIN query_log'
      /\ \A k \in DOMAIN query_log : query_log'[k] = query_log[k]
  <2>1. query_log \in Seq(Event) /\ batch \in Seq(Event)
    BY DEF TypeOK
  <2>2. /\ DOMAIN query_log \subseteq DOMAIN (query_log \o batch)
        /\ \A k \in DOMAIN query_log : (query_log \o batch)[k] = query_log[k]
    BY <2>1, ConcatProperties, LenProperties
  <2> QED
    BY <2>2
<1>2. \A j, k \in DOMAIN query_log' : query_log'[j] = query_log'[k] => j = k
  <2>1. /\ Len(query_log') \in Nat /\ DOMAIN query_log' = 1..Len(query_log')
        /\ DOMAIN query_log' \subseteq DOMAIN Held'
        /\ \A k \in DOMAIN query_log' : Held'[k] = query_log'[k]
    <3>1. query_log' \in Seq(Event) /\ batch' \in Seq(Event) /\ events' \in Seq(Event)
      BY DEF TypeOK, Event
    <3>2. query_log' \o batch' \in Seq(Event)
      BY <3>1, ConcatProperties
    <3> QED
      BY <3>1, <3>2, ConcatProperties, LenProperties DEF Held
  <2>2. \A j, k \in DOMAIN query_log' : j < k => query_log'[j] < query_log'[k]
    BY <2>1 DEF ExactlyOnceInOrder
  <2>3. \A k \in DOMAIN query_log' : query_log'[k] \in Int
    <3>1. query_log' \in Seq(Event)
      BY DEF TypeOK, Event
    <3>2. \A k \in DOMAIN query_log' : query_log'[k] \in Event
      BY <2>1, <3>1, ElementOfSeq
    <3> QED
      BY <3>2 DEF Event
  <2> SUFFICES ASSUME NEW j \in DOMAIN query_log', NEW k \in DOMAIN query_log', j # k
               PROVE  query_log'[j] # query_log'[k]
    OBVIOUS
  <2>4. j < k \/ k < j
    <3>1. j \in 1..Len(query_log') /\ k \in 1..Len(query_log')
      BY <2>1
    <3>2. \A i \in 1..Len(query_log') : i \in Int
      OBVIOUS
    <3>3. j \in Int /\ k \in Int
      BY <3>1, <3>2
    <3> QED
      BY <3>3
  <2>5. query_log'[j] < query_log'[k] \/ query_log'[k] < query_log'[j]
    BY <2>2, <2>4
  <2> QED
    BY <2>3, <2>5
<1>3. ASSUME reader = "paging", NEW k \in Found', query_log'[k] \in began, Newer(k)' < offset
      PROVE  query_log'[k] \in seen
  <2>1. k \in Found /\ query_log'[k] = query_log[k]
    <3>1. query_log'[k] \in Rows \cap filter
      BY <1>3 DEF CoverInv
    <3>2. PICK i \in DOMAIN query_log : query_log[i] = query_log'[k]
      BY <3>1 DEF Rows
    <3>3. i = k
      BY <1>1, <1>2, <1>3, <3>2 DEF Found
    <3> QED
      BY <3>1, <3>2, <3>3 DEF Found
  <2>2. Newer(k) \in Nat /\ Newer(k)' \in Nat /\ Newer(k) <= Newer(k)'
    <3> DEFINE now == {j \in Found' : j > k}
               was == {j \in Found : j > k}
    <3>1. was \subseteq now /\ now \subseteq Found'
      BY <1>0, <1>1 DEF Found
    <3>2. IsFiniteSet(Found')
      BY FoundFinite DEF TypeOK, Found
    <3>3. Newer(k) = Cardinality(was) /\ Newer(k)' = Cardinality(now)
      BY DEF Newer
    <3> HIDE DEF now, was
    <3>4. IsFiniteSet(now) /\ IsFiniteSet(was) /\ Cardinality(was) <= Cardinality(now)
      BY <3>1, <3>2, FS_Subset
    <3> QED
      BY <3>3, <3>4, FS_CardinalityType
  <2> QED
    BY <1>3, <2>1, <2>2 DEF PageInv
<1> QED
  BY <1>0, <1>3 DEF PageInv

\* A client that got a page goes on behind it.
LEMMA PageAfterRead ==
  ASSUME PageInv, CoverInv, TypeOK, Read
  PROVE  PageInv'
<1>0. UNCHANGED <<vars, query_log>>
  BY DEF Read, CountTotal, CountBlocked, CountForwarded, CountTypes, StartPaging, NextPage,
     vars, writerVars
<1>1. reader' \in {"blocked", "forwarded", "types", "summed"} => PageInv'
  BY DEF PageInv
<1>2. ASSUME NEW f \in Filter, NEW l \in Limit, StartPaging(f, l) PROVE PageInv'
  <2>1. reader' = "paging" /\ offset' = 0
    BY <1>2 DEF StartPaging
  <2>2. ASSUME NEW k \in Found' PROVE ~(Newer(k)' < 0)
    <3>1. IsFiniteSet(Found')
      BY <1>0, FoundFinite DEF Found, TypeOK
    <3>2. {j \in Found' : j > k} \subseteq Found'
      OBVIOUS
    <3>3. Cardinality({j \in Found' : j > k}) \in Nat
      BY <3>1, <3>2, FS_Subset, FS_CardinalityType
    <3> QED
      BY <3>3 DEF Newer
  <2> QED
    BY <2>1, <2>2 DEF PageInv
<1>3. ASSUME NextPage PROVE PageInv'
  <2> DEFINE ids == PageOf(Found, PageSize, offset)
             page == Recent(PageSize, offset)
  <2>1. /\ reader = "paging" /\ offset \in Nat /\ PageSize \in Nat \ {0}
        /\ UNCHANGED <<filter, began>>
    BY <1>3, QueryReadsAssumption DEF NextPage, PageInv, PageSize
  <2>2. page = {query_log[k] : k \in ids} /\ \A k : Newer(k) = After(Found, k)
    BY DEF Recent, PageOf, Newer, After
  <2>3. /\ IsFiniteSet(ids) /\ Cardinality(ids) <= PageSize
        /\ ids = {} => \A k \in Found : After(Found, k) < offset
    <3>1. Found \subseteq Nat /\ IsFiniteSet(Found)
      BY FoundFinite DEF Found, TypeOK
    <3> QED
      BY <2>1, <3>1, PageSound
  <2>4. /\ Cardinality(page) \in Nat /\ Cardinality(page) <= PageSize
        /\ \A k \in Found : After(Found, k) \in Nat
    <3>1. [k \in ids |-> query_log[k]] \in Surjection(ids, page)
      BY <2>2 DEF Surjection
    <3>2. IsFiniteSet(page) /\ Cardinality(page) <= Cardinality(ids)
      <4> HIDE DEF ids, page
      <4> QED
        BY <2>3, <3>1, FS_Surjection
    <3>3. Cardinality(page) \in Nat /\ Cardinality(ids) \in Nat
      BY <2>3, <3>2, FS_CardinalityType
    <3>4. \A k \in Found : After(Found, k) \in Nat
      <4>1. Found \subseteq Nat /\ IsFiniteSet(Found)
        BY FoundFinite DEF Found, TypeOK
      <4> QED
        BY <4>1, AfterOrder
    <3> QED
      BY <2>1, <2>3, <3>2, <3>3, <3>4
  <2>5. /\ seen' = seen \cup page /\ offset' = offset + Cardinality(page)
        /\ reader' = IF page = {} THEN "paged" ELSE "paging"
    BY <1>3 DEF NextPage
  <2>6. ASSUME page = {} PROVE began \subseteq seen
    <3>1. \A k \in Found : Newer(k) < offset
      BY <2>2, <2>3, <2>6
    <3>2. \A e \in began : \E k \in Found : query_log[k] = e
      BY <2>1 DEF CoverInv, Rows, Found
    <3> QED
      BY <2>1, <3>1, <3>2 DEF PageInv
  <2>7. ASSUME NEW k \in Found, query_log[k] \in began, Newer(k) < offset'
        PROVE  query_log[k] \in seen'
    <3>1. CASE Newer(k) < offset
      BY <2>1, <2>5, <2>7, <3>1 DEF PageInv
    <3>2. CASE ~(Newer(k) < offset)
      <4>1. Newer(k) \in offset..(offset + PageSize - 1)
        BY <2>1, <2>2, <2>4, <2>5, <2>7, <3>2
      <4> QED
        BY <2>2, <2>5, <2>7, <4>1 DEF PageOf
    <3> QED
      BY <3>1, <3>2
  <2>8. Found' = Found /\ \A k : Newer(k)' = Newer(k)
    BY <1>0, <2>1 DEF Found, Newer
  <2> QED
    BY <1>0, <2>1, <2>4, <2>5, <2>6, <2>7, <2>8 DEF PageInv
<1> QED
  BY <1>1, <1>2, <1>3 DEF Read, CountTotal, CountBlocked, CountForwarded, CountTypes

\* A client that pages until a page is empty has every row that was in the table when
\* it began, whatever is written meanwhile and however large it asks its pages to be.
THEOREM PagesTheorem == ReadSpec => []PagesMissNothing
<1> DEFINE I == CountInv /\ OrderInv /\ CoverInv /\ PageInv
<1>1. ReadInit => I
  BY CountInit, OrderInit, CoverInit DEF ReadInit, PageInv
<1>2. I /\ [ReadNext]_allVars => I'
  <2> SUFFICES ASSUME I, [ReadNext]_allVars PROVE I'
    OBVIOUS
  <2>1. [Next]_vars /\ (UNCHANGED readVars \/ Read)
    BY DEF ReadNext, allVars, Read, CountTotal, CountBlocked, CountForwarded, CountTypes,
       StartPaging, NextPage
  <2>2. CountInv' /\ OrderInv'
    BY <2>1, CountNext, OrderNext
  <2>3. TypeOK /\ TypeOK' /\ ExactlyOnceInOrder'
    BY <2>2 DEF CountInv, OrderInv
  <2>4. Rows \subseteq Rows'
    BY <2>1, <2>3, RowsGrow
  <2>5. CoverInv'
    BY <2>1, <2>3, <2>4, CoverAfterWriter, CoverAfterRead
  <2>6. query_log' = query_log \/ query_log' = query_log \o batch
    BY <2>1 DEF Next, Receive, Log, Loop, LoopReceive, LoopTick, LoopDone, DrainReceive,
       DrainEnd, Write, WriteFails, Stop, Close, Exit, Kill, vars, writerVars
  <2>7. PageInv'
    BY <2>1, <2>3, <2>6, PageAfterWriter, PageAfterRead
  <2> QED
    BY <2>2, <2>5, <2>7
<1>3. I => PagesMissNothing
  BY DEF PageInv, PagesMissNothing
<1> QED
  BY <1>1, <1>2, <1>3, PTL DEF ReadSpec
-----------------------------------------------------------------------------
(* The promise of the log *)

Waiting == batch \o events

\* The front of what waits, and what is behind it.
LEMMA SplitWaiting ==
  ASSUME NEW s \in Seq(Event), NEW t \in Seq(Event)
  PROVE  /\ SubSeq(s \o t, 1, Len(s)) = s
         /\ SubSeq(s \o t, Len(s) + 1, Len(s \o t)) = t
         /\ \A i \in 1..Len(s) : (s \o t)[i] = s[i]
<1>1. /\ Len(s) \in Nat /\ Len(t) \in Nat
      /\ Len(s \o t) = Len(s) + Len(t)
      /\ \A i \in 1..Len(s) : (s \o t)[i] = s[i]
      /\ s \o t \in Seq(Event)
  BY LenProperties, ConcatProperties
<1>2. SubSeq(s \o t, 1, Len(s)) = s
  <2>1. CASE Len(s) = 0
    <3>1. SubSeq(s \o t, 1, 0) = <<>>
      BY SubSeqEmpty
    <3> QED
      BY <2>1, <3>1, EmptySeq, LenProperties
  <2>2. CASE Len(s) # 0
    <3>1. 1 \in 1..Len(s) /\ Len(s) \in 1..Len(s)
      BY <1>1, <2>2
    <3> QED
      BY <3>1, SubSeqOfConcat1, SubSeqFull
  <2> QED
    BY <2>1, <2>2
<1>3. SubSeq(s \o t, Len(s) + 1, Len(s \o t)) = t
  <2>1. CASE Len(t) = 0
    <3>1. SubSeq(s \o t, Len(s) + 1, Len(s)) = <<>>
      BY <1>1, SubSeqEmpty
    <3> QED
      BY <1>1, <2>1, <3>1, EmptySeq, LenProperties
  <2>2. CASE Len(t) # 0
    <3>1. /\ Len(s) + 1 \in Len(s)+1 .. Len(s)+Len(t)
          /\ Len(s) + Len(t) \in Len(s)+1 .. Len(s)+Len(t)
          /\ (Len(s) + 1) - Len(s) = 1 /\ (Len(s) + Len(t)) - Len(s) = Len(t)
      BY <1>1, <2>2
    <3> QED
      BY <1>1, <3>1, SubSeqOfConcat2, SubSeqFull
  <2> QED
    BY <2>1, <2>2
<1> QED
  BY <1>1, <1>2, <1>3

\* A call of Log is taken, or refused while the channel is full.
LEMMA LogKeepsPromise ==
  ASSUME TypeOK, NEW r \in Resolver, Log(r)
  PROVE  Promise!Next
<1>1. Alive /\ phase' = phase /\ issued' = issued + 1
  BY DEF Log
<1>2. UNCHANGED <<batch, query_log, discarded>>
  BY DEF Log, writerVars
<1>3. CASE Fits /\ Accept
  <2>1. issued' \in Event
    BY QueryLogAssumption DEF Log, TypeOK, Event
  <2>2. batch \o Append(events, issued') = Append(batch \o events, issued')
    <3>1. /\ batch \in Seq(Event) /\ events \in Seq(Event) /\ <<issued'>> \in Seq(Event)
          /\ batch \o events \in Seq(Event)
      BY <2>1, ConcatProperties DEF TypeOK
    <3>2. Append(events, issued') = events \o <<issued'>>
          /\ Append(batch \o events, issued') = (batch \o events) \o <<issued'>>
      BY <2>1, <3>1, AppendIsConcat
    <3> QED
      BY <3>1, <3>2, ConcatAssociative
  <2>3. Promise!Accept
    BY <1>1, <1>2, <1>3, <2>2 DEF Promise!Accept, Accept, Alive
  <2> QED
    BY <1>1, <2>3 DEF Promise!Next
<1>4. CASE ~Fits /\ GiveUp
  <2>1. Len(batch \o events) >= BufferSize
    <3>1. Len(batch \o events) = Len(batch) + Len(events) /\ Len(batch) \in Nat
          /\ Len(events) \in Nat
      BY ConcatProperties, LenProperties DEF TypeOK
    <3> QED
      BY <1>4, <3>1, QueryLogAssumption DEF Fits
  <2>2. Promise!Refuse
    BY <1>1, <1>2, <1>4, <2>1 DEF Promise!Refuse, GiveUp, Alive
  <2> QED
    BY <1>1, <2>2 DEF Promise!Next
<1> QED
  BY <1>3, <1>4 DEF Log

\* A batch is stored, or lost, as a whole.
LEMMA WriteKeepsPromise ==
  ASSUME TypeOK, Write \/ WriteFails
  PROVE  Promise!Next \/ UNCHANGED <<issued, Waiting, query_log, dropped, discarded, Alive>>
<1>1. /\ Alive /\ batch' = <<>> /\ UNCHANGED <<phase, events, issued, dropped>>
  BY DEF Write, WriteFails, Flushed, logVars
<1>2. batch \in Seq(Event) /\ events \in Seq(Event) /\ query_log \in Seq(Event)
      /\ Len(batch) \in Nat
  BY LenProperties DEF TypeOK
<1>3. Waiting' = events /\ Alive' = Alive
  <2>1. <<>> \o events = events
    BY <1>2, ConcatEmptySeq
  <2> QED
    BY <1>1, <2>1 DEF Waiting, Alive
<1>4. /\ SubSeq(batch \o events, 1, Len(batch)) = batch
      /\ SubSeq(batch \o events, Len(batch) + 1, Len(batch \o events)) = events
      /\ \A i \in 1..Len(batch) : (batch \o events)[i] = batch[i]
  BY <1>2, SplitWaiting
<1>5. CASE batch = <<>>
  <2>1. Waiting = events
    BY <1>2, <1>5, ConcatEmptySeq DEF Waiting
  <2>2. query_log \o batch = query_log
    BY <1>2, <1>5, ConcatEmptySeq
  <2>3. {batch[i] : i \in DOMAIN batch} = {}
    BY <1>5
  <2> QED
    BY <1>1, <1>3, <2>1, <2>2, <2>3 DEF Write, WriteFails
<1>6. CASE batch # <<>>
  <2>1. Len(batch) \in 1..Len(batch \o events)
    <3>1. Len(batch) # 0
      BY <1>2, <1>6, EmptySeq
    <3>2. Len(batch \o events) = Len(batch) + Len(events) /\ Len(events) \in Nat
      BY <1>2, ConcatProperties, LenProperties
    <3> QED
      BY <1>2, <3>1, <3>2
  <2>2. CASE Write
    <3>1. Promise!Store(Len(batch))
      BY <1>1, <1>3, <1>4, <2>2 DEF Promise!Store, Write, Waiting
    <3> QED
      BY <1>1, <2>1, <3>1 DEF Promise!Next
  <2>3. CASE WriteFails
    <3>1. {batch[i] : i \in DOMAIN batch} = {(batch \o events)[i] : i \in 1..Len(batch)}
      BY <1>2, <1>4, LenProperties
    <3>2. Promise!Forget(Len(batch))
      BY <1>1, <1>3, <1>4, <2>3, <3>1 DEF Promise!Forget, WriteFails, Waiting
    <3> QED
      BY <1>1, <2>1, <3>2 DEF Promise!Next
  <2> QED
    BY <2>2, <2>3
<1> QED
  BY <1>5, <1>6

LEMMA StepKeepsPromise ==
  TypeOK /\ [Next]_vars =>
    [Promise!Next]_<<issued, Waiting, query_log, dropped, discarded, Alive>>
<1> SUFFICES ASSUME TypeOK, [Next]_vars
             PROVE  \/ Promise!Next
                    \/ UNCHANGED <<issued, Waiting, query_log, dropped, discarded, Alive>>
  OBVIOUS
<1>1. CASE \E r \in Resolver : Log(r)
  BY <1>1, LogKeepsPromise
<1>2. CASE Write \/ WriteFails
  BY <1>2, WriteKeepsPromise
<1>3. CASE LoopReceive \/ DrainReceive
  <2>1. /\ UNCHANGED <<phase, query_log, discarded, issued, dropped>>
        /\ events # <<>> /\ batch' = Append(batch, Head(events)) /\ events' = Tail(events)
    BY <1>3 DEF LoopReceive, DrainReceive, Take, logVars
  <2>2. batch' \o events' = batch \o events
    <3>1. <<>> \o Append(batch, Head(events)) \o Tail(events) = <<>> \o batch \o events
      BY <2>1, EmptySeq, MoveHead DEF TypeOK
    <3>2. /\ batch \in Seq(Event) /\ Append(batch, Head(events)) \in Seq(Event)
      BY <2>1, HeadTailProperties, AppendProperties DEF TypeOK
    <3>3. <<>> \o batch = batch /\ <<>> \o Append(batch, Head(events)) = Append(batch, Head(events))
      BY <3>2, ConcatEmptySeq
    <3> QED
      BY <2>1, <3>1, <3>3
  <2> QED
    BY <2>1, <2>2 DEF Waiting, Alive
<1>4. CASE Exit \/ Kill
  <2>1. Promise!End
    BY <1>4 DEF Exit, Kill, Promise!End, Alive, writerVars, logVars
  <2>2. Alive
    BY <1>4 DEF Exit, Kill, Alive
  <2> QED
    BY <2>1, <2>2 DEF Promise!Next
<1>5. CASE \/ \E r \in Resolver : Receive(r)
           \/ LoopTick \/ LoopDone \/ DrainEnd \/ Stop \/ Close
           \/ UNCHANGED vars
  <2>1. UNCHANGED <<events, batch, query_log, issued, dropped, discarded>> /\ Alive' = Alive
    BY <1>5 DEF Receive, LoopTick, LoopDone, DrainEnd, Stop, Close, vars, writerVars, logVars, Alive
  <2> QED
    BY <2>1 DEF Waiting
<1> QED
  BY <1>1, <1>2, <1>3, <1>4, <1>5 DEF Next, Loop

\* However handlers, writer and the end of the process interleave, the store is the
\* log that LossyLog promises: it refuses only while a channel's worth waits, stores in
\* the order of the calls, and loses with a failed batch exactly that batch.
THEOREM PromiseTheorem == Spec => KeepsPromise
<1>1. Init => Promise!Init
  <2>1. <<>> \o <<>> = <<>>
    BY EmptySeq, ConcatEmptySeq
  <2> QED
    BY <2>1 DEF Init, Promise!Init, Alive
<1>2. Spec => []TypeOK
  BY QueryLogTypes
<1> QED
  BY <1>1, <1>2, StepKeepsPromise, PTL DEF Spec, KeepsPromise, Promise!Spec, Waiting

-----------------------------------------------------------------------------
(* What is left to do when the process was told to stop *)

Busy == {r \in Resolver : query[r] = "busy"}

\* What loop has before it without the channel: in "select" it may have a tick with
\* a batch to write.
LoopLeft ==
    CASE loop = "select"  -> IF batch = <<>> THEN 3 ELSE 5
      [] loop = "write"   -> 4
      [] loop = "drain"   -> 2
      [] loop = "last"    -> 1
      [] loop = "stopped" -> 0

ClosingLeft == 4 * Cardinality(Busy) + 3 * Len(events) + LoopLeft

BusyInv == IsFiniteSet(Busy)

LEMMA BusyStep ==
  ASSUME TypeOK, [Next]_vars
  PROVE  \/ Busy' = Busy /\ ~\E r \in Resolver : Log(r)
         \/ \E r \in Resolver \ Busy : Busy' = Busy \cup {r} /\ Receive(r)
         \/ \E r \in Busy : Busy' = Busy \ {r} /\ Log(r)
<1>0. query \in [Resolver -> {"idle", "busy"}]
  BY DEF TypeOK
<1>1. ASSUME NEW r \in Resolver, Receive(r)
      PROVE  r \in Resolver \ Busy /\ Busy' = Busy \cup {r}
  BY <1>0, <1>1 DEF Receive, Busy
<1>2. ASSUME NEW r \in Resolver, Log(r)
      PROVE  r \in Busy /\ Busy' = Busy \ {r}
  BY <1>0, <1>2 DEF Log, Busy
<1>3. ASSUME UNCHANGED query PROVE Busy' = Busy /\ ~\E r \in Resolver : Log(r)
  <2>1. \A r \in Resolver : ~Log(r)
    BY <1>0, <1>3 DEF Log
  <2> QED
    BY <1>3, <2>1 DEF Busy
<1>4. CASE Loop \/ Stop \/ Close \/ Exit \/ Kill \/ UNCHANGED vars
  BY <1>3, <1>4 DEF Loop, LoopReceive, LoopTick, LoopDone, DrainReceive, DrainEnd, Write, WriteFails,
     Flushed, Stop, Close, Exit, Kill, vars
<1> QED
  BY <1>1, <1>2, <1>4 DEF Next

LEMMA BusyFinite == Spec => [](CountInv /\ BusyInv)
<1>1. Init => BusyInv
  <2> SUFFICES ASSUME Init PROVE BusyInv
    OBVIOUS
  <2>1. Busy = {}
    BY DEF Init, Busy
  <2> QED
    BY <2>1, FS_EmptySet DEF BusyInv
<1>2. CountInv /\ BusyInv /\ [Next]_vars => BusyInv'
  <2> SUFFICES ASSUME CountInv, BusyInv, [Next]_vars PROVE BusyInv'
    OBVIOUS
  <2>1. IsFiniteSet(Busy) /\ TypeOK
    BY DEF BusyInv, CountInv
  <2>2. \A r : IsFiniteSet(Busy \cup {r}) /\ IsFiniteSet(Busy \ {r})
    BY <2>1, FS_AddElement, FS_RemoveElement
  <2>3. IsFiniteSet(Busy')
    BY <2>1, <2>2, BusyStep
  <2> QED
    BY <2>3 DEF BusyInv
<1> QED
  BY <1>1, <1>2, CountInit, CountNext, PTL DEF Spec

LEMMA LogBringsOn ==
  ASSUME TypeOK, BusyInv, NEW r \in Resolver, Log(r)
  PROVE  ClosingLeft' < ClosingLeft
<1>0. Len(events) \in Nat /\ LoopLeft \in Nat /\ IsFiniteSet(Busy)
  BY LenProperties DEF TypeOK, LoopLeft, BusyInv
<1>1. Cardinality(Busy) \in Nat /\ Cardinality(Busy') = Cardinality(Busy) - 1
  <2>1. r \in Busy /\ Busy' = Busy \ {r}
    BY DEF Log, Busy, TypeOK
  <2> QED
    BY <1>0, <2>1, FS_CardinalityType, FS_RemoveElement
<1>2. Len(events') \in Nat /\ Len(events') <= Len(events) + 1
  <2>1. issued + 1 \in Event
    BY QueryLogAssumption DEF Log, Event, TypeOK
  <2> QED
    BY <1>0, <2>1, AppendProperties DEF Log, Accept, GiveUp, TypeOK
<1>3. LoopLeft' = LoopLeft
  BY DEF Log, LoopLeft, writerVars
<1>4. ClosingLeft' = 4 * Cardinality(Busy') + 3 * Len(events') + LoopLeft'
  BY DEF ClosingLeft
<1>5. ClosingLeft' = 4 * (Cardinality(Busy) - 1) + 3 * Len(events') + LoopLeft
  BY <1>1, <1>3, <1>4
<1>6. Len(events') \in Int /\ Cardinality(Busy) \in Int /\ LoopLeft \in Int /\ Len(events) \in Int
  BY <1>0, <1>1, <1>2
<1>7. 4 * (Cardinality(Busy) - 1) + 3 * Len(events') + LoopLeft
        < 4 * Cardinality(Busy) + 3 * Len(events) + LoopLeft
  <2> DEFINE c == Cardinality(Busy)
             n == Len(events)
             m == Len(events')
             k == LoopLeft
  <2>1. c \in Int /\ n \in Int /\ m \in Int /\ k \in Int /\ m <= n + 1
    BY <1>2, <1>6
  <2> HIDE DEF c, n, m, k
  <2>2. 4 * (c - 1) + 3 * m + k < 4 * c + 3 * n + k
    BY <2>1
  <2> QED
    BY <2>2 DEF c, n, m, k
<1>8. ClosingLeft = 4 * Cardinality(Busy) + 3 * Len(events) + LoopLeft
  BY DEF ClosingLeft
<1> QED
  BY <1>5, <1>7, <1>8

LEMMA LoopBringsOn ==
  ASSUME TypeOK, BusyInv, Loop
  PROVE  ClosingLeft' < ClosingLeft
<1>0. Len(events) \in Nat /\ LoopLeft \in Nat /\ Cardinality(Busy) \in Nat
  BY LenProperties, FS_CardinalityType DEF TypeOK, LoopLeft, BusyInv
<1>1. Busy' = Busy
  BY DEF Busy, Loop, LoopReceive, LoopTick, LoopDone, DrainReceive, DrainEnd, Write, WriteFails, Flushed
<1>2. CASE LoopReceive \/ DrainReceive
  <2>1. events # <<>> /\ Take
    BY <1>2 DEF LoopReceive, DrainReceive
  <2>2. Len(events') = Len(events) - 1
    BY <2>1, HeadTailProperties DEF Take, TypeOK
  <2>3. LoopLeft' <= LoopLeft + 2 /\ LoopLeft' \in Nat
    BY <1>2 DEF LoopReceive, DrainReceive, LoopLeft
  <2>4. ClosingLeft' = 4 * Cardinality(Busy') + 3 * Len(events') + LoopLeft'
    BY DEF ClosingLeft
  <2> QED
    BY <1>0, <1>1, <2>2, <2>3, <2>4 DEF ClosingLeft
<1>3. CASE LoopTick \/ LoopDone \/ DrainEnd \/ Write \/ WriteFails
  <2>1. events' = events
    BY <1>3 DEF LoopTick, LoopDone, DrainEnd, Write, WriteFails, Flushed
  <2>2. LoopLeft' < LoopLeft /\ LoopLeft' \in Nat
    BY <1>3 DEF LoopTick, LoopDone, DrainEnd, Write, WriteFails, Flushed, LoopLeft
  <2> QED
    BY <1>0, <1>1, <2>1, <2>2 DEF ClosingLeft
<1> QED
  BY <1>2, <1>3 DEF Loop

\* Once the servers were told to stop, every step of whoever is still at work - a
\* handler the shutdown did not wait for, and loop, with its ticker and a database
\* that may fail - brings Close nearer: it waits for at most four steps of each such
\* handler, three for each place of the channel, and five of loop.
ClosingAdvances ==
    [][phase = "closing" =>
         \/ phase' \in {"exited", "killed"}
         \/ ClosingLeft' < ClosingLeft /\ ClosingLeft' \in Nat]_vars

\* query_store.go:89 - Close has a bounded number of steps to wait for.
THEOREM ClosingStepsTheorem == Spec => ClosingAdvances
<1> DEFINE On == phase = "closing" =>
                    \/ phase' \in {"exited", "killed"}
                    \/ ClosingLeft' < ClosingLeft /\ ClosingLeft' \in Nat
<1>1. CountInv /\ BusyInv /\ CountInv' /\ BusyInv' /\ [Next]_vars => [On]_vars
  <2> SUFFICES ASSUME CountInv, BusyInv, CountInv', BusyInv', Next, phase = "closing"
               PROVE  \/ phase' \in {"exited", "killed"}
                      \/ ClosingLeft' < ClosingLeft /\ ClosingLeft' \in Nat
    BY DEF vars
  <2>1. ClosingLeft' \in Nat
    <3>1. Len(events') \in Nat /\ LoopLeft' \in Nat /\ Cardinality(Busy') \in Nat
      BY LenProperties, FS_CardinalityType DEF CountInv, TypeOK, LoopLeft, BusyInv
    <3> QED
      BY <3>1 DEF ClosingLeft
  <2>2. CASE \E r \in Resolver : Log(r)
    BY <2>1, <2>2, LogBringsOn DEF CountInv
  <2>3. CASE Loop
    BY <2>1, <2>3, LoopBringsOn DEF CountInv
  <2>4. CASE (\E r \in Resolver : Receive(r)) \/ Stop \/ Close \/ Exit \/ Kill
    BY <2>4 DEF Receive, Stop, Close, Exit, Kill
  <2> QED
    BY <2>2, <2>3, <2>4 DEF Next
<1> HIDE DEF On
<1>2. Spec => [][On]_vars
  BY <1>1, BusyFinite, PTL DEF Spec
<1> QED
  BY <1>2 DEF ClosingAdvances, On

-----------------------------------------------------------------------------
(* How long an accepted event waits *)

Serving == phase \in {"serving", "stopping"}
Waits(e) == e \in Elements(batch) \cup Elements(events)
Settles(e) == e \in Elements(query_log) \cup discarded

\* How many events of the channel come before it or are it, and what loop has before
\* it until the batch in hand is written.
Before(e) == Cardinality({x \in Elements(events) : x <= e})

Turn ==
    IF loop = "write" THEN 2
    ELSE IF batch = <<>> THEN 1
    ELSE 2 + (BatchSize - Len(batch))

SettleLeft(e) == (BatchSize + 1) * Before(e) + Turn

SettleInv == CountInv /\ OrderInv /\ EndInv

LEMMA SettleInvariant == Spec => []SettleInv
<1>1. Init => SettleInv
  BY CountInit, OrderInit, EndInit DEF SettleInv
<1>2. SettleInv /\ [Next]_vars => SettleInv'
  <2> SUFFICES ASSUME SettleInv, [Next]_vars PROVE SettleInv'
    OBVIOUS
  <2> QED
    BY CountNext, OrderNext, EndNext DEF SettleInv
<1> QED
  BY <1>1, <1>2, PTL DEF Spec

LEMMA ChannelFinite ==
  ASSUME TypeOK
  PROVE  /\ Elements(events) \subseteq Event /\ Event \subseteq Nat
         /\ IsFiniteSet(Elements(events))
         /\ \A e : IsFiniteSet({x \in Elements(events) : x <= e}) /\ Before(e) \in Nat
<1>1. Elements(events) \subseteq Event
  BY LenProperties, ElementOfSeq DEF TypeOK, Elements
<1>2. IsFiniteSet(Event) /\ Event \subseteq Nat
  BY QueryLogAssumption, FS_Interval DEF Event
<1>3. \A e : IsFiniteSet({x \in Elements(events) : x <= e})
  <2> TAKE e
  <2>1. {x \in Elements(events) : x <= e} \subseteq Event
    BY <1>1
  <2> QED
    BY <1>2, <2>1, FS_Subset
<1>4. \A e : Before(e) \in Nat
  BY <1>3, FS_CardinalityType DEF Before
<1> QED
  BY <1>1, <1>2, <1>3, <1>4, FS_Subset

\* The channel is in the order of the events, so what loop takes comes first.
LEMMA HeadIsFirst ==
  ASSUME SettleInv, events # <<>>
  PROVE  /\ Elements(events) = {Head(events)} \cup Elements(Tail(events))
         /\ Head(events) \notin Elements(Tail(events))
         /\ \A x \in Elements(events) : Head(events) <= x
<1> DEFINE t == query_log \o batch
           n == Len(events)
<1>1. /\ t \in Seq(Event) /\ events \in Seq(Event) /\ Held = t \o events
      /\ \A i, j \in DOMAIN Held : i < j => Held[i] < Held[j]
  BY ConcatProperties DEF SettleInv, CountInv, TypeOK, Held, OrderInv, ExactlyOnceInOrder
<1>2. /\ Len(t) \in Nat /\ n \in Nat \ {0} /\ DOMAIN events = 1..n
      /\ DOMAIN Held = 1..(Len(t) + n)
      /\ \A i \in 1..n : Held[Len(t) + i] = events[i]
  <2> HIDE DEF t
  <2>1. Len(t) \in Nat /\ n \in Nat \ {0} /\ DOMAIN events = 1..n
    BY <1>1, LenProperties, EmptySeq
  <2>2. /\ Len(t \o events) = Len(t) + n /\ t \o events \in Seq(Event)
        /\ \A i \in 1..(Len(t) + n) :
             (t \o events)[i] = IF i <= Len(t) THEN t[i] ELSE events[i - Len(t)]
    BY <1>1, ConcatProperties
  <2>3. \A i \in 1..n : Len(t) + i \in 1..(Len(t) + n) /\ ~(Len(t) + i <= Len(t))
                        /\ (Len(t) + i) - Len(t) = i
    BY <2>1
  <2> QED
    BY <1>1, <2>1, <2>2, <2>3, LenProperties
<1>3. \A i, j \in 1..n : i < j => events[i] < events[j]
  <2> HIDE DEF t, n
  <2> SUFFICES ASSUME NEW i \in 1..n, NEW j \in 1..n, i < j PROVE events[i] < events[j]
    OBVIOUS
  <2>1. /\ Len(t) + i \in DOMAIN Held /\ Len(t) + j \in DOMAIN Held
        /\ Len(t) + i < Len(t) + j
    BY <1>2
  <2>2. Held[Len(t) + i] < Held[Len(t) + j]
    BY <1>1, <2>1
  <2> QED
    BY <1>2, <2>2
<1>4. /\ Head(events) = events[1] /\ Tail(events) \in Seq(Event) /\ Len(Tail(events)) = n - 1
      /\ \A i \in 1..(n - 1) : Tail(events)[i] = events[i + 1]
  BY <1>1, HeadTailProperties
<1>5. DOMAIN Tail(events) = 1..(n - 1)
  BY <1>4, LenProperties
<1>6. Elements(Tail(events)) = {events[i] : i \in 2..n}
  <2>1. \A i \in 1..(n - 1) : i + 1 \in 2..n
    BY <1>2
  <2>2. \A i \in 2..n : i - 1 \in 1..(n - 1) /\ (i - 1) + 1 = i
    BY <1>2
  <2> HIDE DEF n
  <2> QED
    BY <1>4, <1>5, <2>1, <2>2 DEF Elements
<1>7. Elements(events) = {events[i] : i \in 1..n}
  BY <1>2 DEF Elements
<1>8. 1..n = {1} \cup 2..n /\ \A i \in 2..n : 1 < i /\ i \in 1..n /\ 1 \in 1..n
  BY <1>2
<1>9. \A i \in 1..n : events[i] \in Int
  BY <1>1, <1>2, ElementOfSeq, QueryLogAssumption DEF Event
<1> HIDE DEF n
<1>10. \A i \in 2..n : events[1] < events[i] /\ events[1] \in Int /\ events[i] \in Int
  BY <1>3, <1>8, <1>9
<1> QED
  BY <1>4, <1>6, <1>7, <1>8, <1>9, <1>10, <1>2

\* A receive brings every event of the channel one place on.
LEMMA ReceiveBringsOn ==
  ASSUME SettleInv, NEW e \in Event, events # <<>>, events' = Tail(events)
  PROVE  /\ Before(e) \in Nat /\ Before(e)' \in Nat /\ Before(e)' <= Before(e)
         /\ e \in Elements(events) => Before(e)' = Before(e) - 1
<1> DEFINE S == {x \in Elements(events) : x <= e}
           h == Head(events)
<1>1. IsFiniteSet(S) /\ Before(e) \in Nat /\ Before(e) = Cardinality(S)
  BY ChannelFinite DEF SettleInv, CountInv, Before
<1>2. Before(e)' = Cardinality({x \in Elements(Tail(events)) : x <= e})
  BY DEF Before, Elements
<1>3. {x \in Elements(Tail(events)) : x <= e} = S \ {h}
  BY HeadIsFirst
<1>4. IsFiniteSet(S \ {h}) /\ Cardinality(S \ {h}) \in Nat
      /\ Cardinality(S \ {h}) = IF h \in S THEN Cardinality(S) - 1 ELSE Cardinality(S)
  <2> HIDE DEF S
  <2> QED
    BY <1>1, FS_RemoveElement, FS_CardinalityType
<1>5. e \in Elements(events) => h \in S
  BY HeadIsFirst
<1>6. Before(e)' = Cardinality(S \ {h})
  BY <1>2, <1>3
<1> HIDE DEF S, h
<1>7. CASE h \in S
  BY <1>1, <1>4, <1>6, <1>7
<1>8. CASE h \notin S
  BY <1>1, <1>4, <1>5, <1>6, <1>8
<1> QED
  BY <1>7, <1>8

LEMMA TurnType == TypeOK /\ Serving /\ EndInv => Turn \in Nat
<1> SUFFICES ASSUME TypeOK, Serving, EndInv PROVE Turn \in Nat
  OBVIOUS
<1>1. Len(batch) \in Nat /\ (loop = "select" => Len(batch) < BatchSize)
      /\ loop \in {"select", "write"}
  BY LenProperties DEF TypeOK, Serving, EndInv
<1> QED
  BY <1>1, QueryLogAssumption DEF Turn

\* After a step that leaves the servers running, the counts are numbers again.
LEMMA AfterTypes ==
  ASSUME SettleInv', Serving'
  PROVE  Turn' \in Nat /\ \A e : Before(e)' \in Nat
<1>1. Turn' \in Nat
  <2>1. /\ Len(batch') \in Nat /\ (loop' = "select" => Len(batch') < BatchSize)
        /\ loop' \in {"select", "write"}
    BY LenProperties DEF TypeOK, Serving, EndInv, SettleInv, CountInv
  <2> QED
    BY <2>1, QueryLogAssumption DEF Turn
<1>2. IsFiniteSet(Event) /\ Elements(events') \subseteq Event
  <2>1. events' \in Seq(Event)
    BY DEF SettleInv, CountInv, TypeOK
  <2>2. Elements(events') \subseteq Event
    BY <2>1, LenProperties, ElementOfSeq DEF Elements
  <2> QED
    BY <2>2, QueryLogAssumption, FS_Interval DEF Event
<1>3. ASSUME NEW e PROVE Before(e)' \in Nat
  <2>1. {x \in Elements(events') : x <= e} \subseteq Event
    BY <1>2
  <2>2. Before(e)' = Cardinality({x \in Elements(events') : x <= e})
    BY DEF Before, Elements
  <2> QED
    BY <1>2, <2>1, <2>2, FS_Subset, FS_CardinalityType
<1> QED
  BY <1>1, <1>3

\* A log that is taken adds an event after every one that waits.
LEMMA LogKeepsPlaces ==
  ASSUME SettleInv, NEW e \in Elements(batch) \cup Elements(events),
         NEW r \in Resolver, Log(r)
  PROVE  /\ Before(e)' = Before(e)
         /\ Elements(events) \subseteq Elements(events') /\ batch' = batch
<1>1. /\ query_log \in Seq(Event) /\ batch \in Seq(Event) /\ events \in Seq(Event)
      /\ query_log \o batch \in Seq(Event) /\ issued \in Nat
  BY ConcatProperties DEF SettleInv, CountInv, TypeOK
<1>2. e \in Elements(accepted)
  <2>1. Elements(query_log \o batch) = Elements(query_log) \cup Elements(batch)
    BY <1>1, ConcatElements
  <2>2. Elements((query_log \o batch) \o events) = Elements(query_log \o batch) \cup Elements(events)
    BY <1>1, ConcatElements
  <2>3. e \in Elements(Held)
    BY <2>1, <2>2, Zenon DEF Held
  <2> QED
    BY <2>3 DEF SettleInv, OrderInv, ExactlyOnceInOrder
<1>3. e <= issued /\ e \in Nat
  <2>1. e \in Event
    BY <1>1, ElementOfSeq, LenProperties DEF Elements
  <2> QED
    BY <1>2, <2>1 DEF SettleInv, OrderInv, Event
<1>4. issued' = issued + 1 /\ issued' \in Event /\ batch' = batch
  BY <1>1, QueryLogAssumption DEF Log, writerVars, Event
<1>5. CASE events' = events
  BY <1>4, <1>5 DEF Before
<1>6. CASE Accept
  <2>1. Elements(events') = Elements(events) \cup {issued'}
    BY <1>1, <1>4, <1>6, AppendElements DEF Accept
  <2>2. ~(issued' <= e)
    BY <1>1, <1>3, <1>4
  <2>3. {x \in Elements(events') : x <= e} = {x \in Elements(events) : x <= e}
    BY <2>1, <2>2
  <2>4. Before(e)' = Cardinality({x \in Elements(events') : x <= e})
    BY DEF Before, Elements
  <2> QED
    BY <1>4, <2>1, <2>3, <2>4 DEF Before
<1> QED
  BY <1>5, <1>6 DEF Log, GiveUp

\* Two ways to have less left: a place less and at most one batch more of turns, or no
\* place more and a turn less.
LEMMA LessLeft ==
  ASSUME NEW b \in Nat, NEW n \in Nat, NEW m \in Nat, NEW t \in Nat, NEW u \in Nat,
         \/ m = n - 1 /\ u <= b /\ t > 0
         \/ m = n - 1 /\ u <= t
         \/ m <= n /\ u < t,
         b > 0
  PROVE  b * m + u < b * n + t
<1>1. b * m \in Int /\ b * n \in Int
  OBVIOUS
<1>2. CASE m = n - 1
  <2>1. b * m = b * n - b
    BY <1>2
  <2> QED
    BY <1>1, <2>1, <1>2
<1>3. CASE m <= n /\ u < t
  <2>1. b * m <= b * n
    BY <1>3
  <2> QED
    BY <1>1, <2>1, <1>3
<1> QED
  BY <1>2, <1>3

\* A receive, a tick or a write, each brings what waits nearer to the table.
LEMMA LoopSettles ==
  ASSUME SettleInv, SettleInv', Serving, NEW e \in Event, Waits(e), Loop
  PROVE  Settles(e)' \/ (Waits(e)' /\ SettleLeft(e)' < SettleLeft(e))
<1>1. /\ batch \in Seq(Event) /\ events \in Seq(Event) /\ query_log \in Seq(Event)
      /\ Len(batch) \in Nat /\ BatchSize \in Nat \ {0}
      /\ loop = "select" => Len(batch) < BatchSize
  BY LenProperties, QueryLogAssumption DEF SettleInv, CountInv, TypeOK
<1>2. /\ SettleLeft(e) = (BatchSize + 1) * Before(e) + Turn
      /\ SettleLeft(e)' = (BatchSize + 1) * Before(e)' + Turn'
  BY DEF SettleLeft
<1>3. phase' = phase /\ loop \in {"select", "write"}
  BY DEF Serving, SettleInv, CountInv, TypeOK, EndInv, Loop, LoopReceive, LoopTick, LoopDone,
     DrainReceive, DrainEnd, Write, WriteFails, Flushed
<1>4. Turn \in Nat /\ Turn' \in Nat /\ Before(e) \in Nat /\ Before(e)' \in Nat
  <2>1. Serving'
    BY <1>3 DEF Serving
  <2> QED
    BY <2>1, TurnType, ChannelFinite, AfterTypes DEF SettleInv, CountInv
<1> HIDE DEF SettleInv
<1>5. CASE LoopReceive
  <2>1. /\ events # <<>> /\ events' = Tail(events) /\ loop = "select"
        /\ batch' = Append(batch, Head(events))
        /\ loop' = IF Len(batch') >= BatchSize THEN "write" ELSE "select"
    BY <1>5 DEF LoopReceive, Take
  <2>2. Head(events) \in Event
    BY <1>1, <2>1, HeadTailProperties, EmptySeq
  <2>3. Elements(batch') = Elements(batch) \cup {Head(events)}
    BY <1>1, <2>1, <2>2, AppendElements
  <2>4. Elements(events) = {Head(events)} \cup Elements(events')
    BY <2>1, HeadIsFirst
  <2>5. Waits(e)'
    <3>1. Waits(e)' <=> e \in Elements(batch') \cup Elements(events')
      BY DEF Waits, Elements
    <3> QED
      BY <2>3, <2>4, <3>1 DEF Waits
  <2>6. Before(e)' <= Before(e) /\ (e \in Elements(events) => Before(e)' = Before(e) - 1)
    BY <2>1, ReceiveBringsOn
  <2>7. /\ Turn > 0 /\ Turn' <= BatchSize + 1 /\ (batch # <<>> => Turn' < Turn)
    <3>1. Len(batch') = Len(batch) + 1 /\ batch' # <<>>
      BY <1>1, <2>1, <2>2, AppendProperties, EmptySeq
    <3>2. batch # <<>> => Len(batch) > 0
      BY <1>1, EmptySeq
    <3>3. Turn > 0 /\ (batch # <<>> => Turn = 2 + (BatchSize - Len(batch)) /\ Turn > 2)
      BY <1>1, <2>1 DEF Turn
    <3>4. CASE loop' = "write"
      <4>1. Turn' = 2
        BY <3>4 DEF Turn
      <4> QED
        BY <1>1, <3>3, <4>1
    <3>5. CASE loop' # "write"
      <4>1. Turn' = 2 + (BatchSize - Len(batch'))
        BY <3>1, <3>5 DEF Turn
      <4>2. ~(Len(batch') >= BatchSize)
        BY <2>1, <3>5
      <4>3. Len(batch) + 1 < BatchSize
        BY <1>1, <3>1, <4>2
      <4> QED
        BY <1>1, <3>1, <3>2, <3>3, <4>1, <4>3
    <3> QED
      BY <3>4, <3>5
  <2>8. batch = <<>> => e \in Elements(events)
    <3>1. Elements(<<>>) = {}
      BY EmptySeq, LenProperties DEF Elements
    <3> QED
      BY <3>1 DEF Waits
  <2>9. \/ Before(e)' = Before(e) - 1 /\ Turn' <= BatchSize + 1 /\ Turn > 0
        \/ Before(e)' <= Before(e) /\ Turn' < Turn
    BY <2>6, <2>7, <2>8
  <2>10. BatchSize + 1 \in Nat /\ BatchSize + 1 > 0
    BY <1>1
  <2>11. (BatchSize + 1) * Before(e)' + Turn' < (BatchSize + 1) * Before(e) + Turn
    BY <1>4, <2>9, <2>10, LessLeft
  <2> QED
    BY <1>2, <2>5, <2>11
<1>6. CASE LoopTick
  <2>1. /\ batch # <<>> /\ batch' = batch /\ events' = events
        /\ loop = "select" /\ loop' = "write"
    BY <1>6 DEF LoopTick
  <2>2. Waits(e)' /\ Before(e)' = Before(e)
    BY <2>1 DEF Waits, Before, Elements
  <2>3. Turn' < Turn
    BY <1>1, <2>1 DEF Turn
  <2>4. BatchSize + 1 \in Nat /\ BatchSize + 1 > 0 /\ Before(e)' <= Before(e)
    BY <1>1, <1>4, <2>2
  <2>5. (BatchSize + 1) * Before(e)' + Turn' < (BatchSize + 1) * Before(e) + Turn
    BY <1>4, <2>3, <2>4, LessLeft
  <2> QED
    BY <1>2, <2>2, <2>5
<1>7. CASE Write \/ WriteFails
  <2>1. /\ events' = events /\ loop = "write" /\ loop' = "select" /\ batch' = <<>>
        /\ \/ query_log' = query_log \o batch
           \/ discarded' = discarded \cup Elements(batch)
    BY <1>3, <1>7 DEF Write, WriteFails, Flushed, Elements
  <2>2. CASE e \in Elements(batch)
    <3>1. Elements(query_log \o batch) = Elements(query_log) \cup Elements(batch)
      BY <1>1, ConcatElements
    <3>2. Settles(e)' <=> e \in Elements(query_log') \cup discarded'
      BY DEF Settles, Elements
    <3> QED
      BY <2>1, <2>2, <3>1, <3>2
  <2>3. CASE e \in Elements(events)
    <3>1. Waits(e)' /\ Before(e)' = Before(e)
      BY <2>1, <2>3 DEF Waits, Before, Elements
    <3>2. Turn' < Turn
      BY <2>1 DEF Turn
    <3>3. BatchSize + 1 \in Nat /\ BatchSize + 1 > 0 /\ Before(e)' <= Before(e)
      BY <1>1, <1>4, <3>1
    <3>4. (BatchSize + 1) * Before(e)' + Turn' < (BatchSize + 1) * Before(e) + Turn
      BY <1>4, <3>2, <3>3, LessLeft
    <3> QED
      BY <1>2, <3>1, <3>4
  <2> QED
    BY <2>2, <2>3 DEF Waits
<1>8. ~(LoopDone \/ DrainReceive \/ DrainEnd)
  BY <1>3 DEF Serving, LoopDone, DrainReceive, DrainEnd
<1> QED
  BY <1>5, <1>6, <1>7, <1>8 DEF Loop

\* While the servers run, a batch is never shut out by the events that follow: an
\* event that waits is settled, or has a receive, a tick or a write less before it,
\* with every step of loop, and no step of anyone else puts it back.
SettleAdvances ==
    [][\A e \in Event : Waits(e) /\ Serving =>
         \/ phase' \notin {"serving", "stopping"}
         \/ Settles(e)'
         \/ /\ Waits(e)' /\ SettleLeft(e)' \in Nat
            /\ SettleLeft(e)' <= SettleLeft(e)
            /\ Loop => SettleLeft(e)' < SettleLeft(e)]_vars

\* query_store.go:94 - an event the channel took has a bounded number of steps of
\* loop before it, however many queries are logged meanwhile.
THEOREM SettleStepsTheorem == Spec => SettleAdvances
<1> DEFINE On == \A e \in Event : Waits(e) /\ Serving =>
                   \/ phase' \notin {"serving", "stopping"}
                   \/ Settles(e)'
                   \/ /\ Waits(e)' /\ SettleLeft(e)' \in Nat
                      /\ SettleLeft(e)' <= SettleLeft(e)
                      /\ Loop => SettleLeft(e)' < SettleLeft(e)
<1>1. SettleInv /\ SettleInv' /\ [Next]_vars => [On]_vars
  <2> SUFFICES ASSUME SettleInv, SettleInv', Next,
                      NEW e \in Event, Waits(e), Serving, phase' \in {"serving", "stopping"}
               PROVE  \/ Settles(e)'
                      \/ /\ Waits(e)' /\ SettleLeft(e)' \in Nat
                         /\ SettleLeft(e)' <= SettleLeft(e)
                         /\ Loop => SettleLeft(e)' < SettleLeft(e)
    BY DEF vars
  <2>1. SettleLeft(e) \in Nat /\ SettleLeft(e)' \in Nat
    <3>1. Turn \in Nat /\ Before(e) \in Nat /\ BatchSize \in Nat
      BY TurnType, ChannelFinite, QueryLogAssumption DEF SettleInv, CountInv
    <3>2. Turn' \in Nat /\ Before(e)' \in Nat
      BY AfterTypes DEF Serving
    <3>3. /\ SettleLeft(e) = (BatchSize + 1) * Before(e) + Turn
          /\ SettleLeft(e)' = (BatchSize + 1) * Before(e)' + Turn'
      BY DEF SettleLeft
    <3> QED
      BY <3>1, <3>2, <3>3
  <2>2. CASE Loop
    <3>1. Settles(e)' \/ (Waits(e)' /\ SettleLeft(e)' < SettleLeft(e))
      BY <2>2, LoopSettles
    <3> QED
      BY <2>1, <3>1
  <2>3. CASE ~Loop /\ \E r \in Resolver : Log(r)
    <3>1. PICK r \in Resolver : Log(r)
      BY <2>3
    <3>2. e \in Elements(batch) \cup Elements(events)
      BY DEF Waits
    <3>3. /\ Before(e)' = Before(e) /\ Elements(events) \subseteq Elements(events')
          /\ batch' = batch
      BY <3>1, <3>2, LogKeepsPlaces
    <3>4. Waits(e)' <=> e \in Elements(batch') \cup Elements(events')
      BY DEF Waits, Elements
    <3>5. Turn' = Turn
      BY <3>1 DEF Log, Turn, writerVars
    <3>6. SettleLeft(e)' = (BatchSize + 1) * Before(e)' + Turn'
      BY DEF SettleLeft
    <3>7. SettleLeft(e)' = SettleLeft(e)
      BY <3>3, <3>5, <3>6 DEF SettleLeft
    <3> QED
      BY <2>1, <2>3, <3>2, <3>3, <3>4, <3>7
  <2>4. CASE ~Loop /\ ((\E r \in Resolver : Receive(r)) \/ Stop \/ Close \/ Exit \/ Kill)
    <3>1. UNCHANGED <<events, batch, loop>>
      BY <2>4 DEF Receive, Stop, Close, Exit, Kill, writerVars
    <3>2. Waits(e)' /\ SettleLeft(e)' = SettleLeft(e)
      BY <3>1 DEF Waits, Elements, SettleLeft, Before, Turn
    <3> QED
      BY <2>1, <2>4, <3>2
  <2> QED
    BY <2>2, <2>3, <2>4 DEF Next
<1> HIDE DEF On
<1>2. Spec => [][On]_vars
  BY <1>1, SettleInvariant, PTL DEF Spec
<1> QED
  BY <1>2 DEF SettleAdvances, On
=============================================================================
