---------------------------- MODULE Parsing_proofs ----------------------------
(***************************************************************************)
(* Theorems about Parsing, for lists of any length in any of the formats   *)
(* and filters of any number of tags.                                      *)
(* What a list blocks is what its parser finds in it; and a line that is   *)
(* added after a full sample is in no sample, so that the guess stays. The *)
(* form of a line tells the format of its author, so that a list that is   *)
(* guessed wrong gives away nothing but the names the property lists.      *)
(* What a filter means is shown tag by tag: there is no first number of    *)
(* tags after which the loop has anything but what the last of them said.  *)
(***************************************************************************)
EXTENDS Parsing, FiniteSetTheorems, WellFoundedInduction, TLAPS

\* Lists are of lines their author writes.
Written ==
    /\ format \in Format /\ list \in Seq(Line)
    /\ \A i \in DOMAIN list : list[i].form \in FormsOf[format]

LEMMA WrittenInvariant == Spec => []Written
<1>1. Init => Written
  BY DEF Init, Written
<1>2. Written /\ [Next]_vars => Written'
  <2> SUFFICES ASSUME Written, [Next]_vars PROVE Written'
    OBVIOUS
  <2>1. ASSUME NEW line \in Line, Write(line) PROVE Written'
    <3>1. /\ list' = Append(list, line) /\ format' = format
          /\ line.form \in FormsOf[format] /\ list \in Seq(Line)
      BY <2>1 DEF Write, Written
    <3>2. /\ list' \in Seq(Line) /\ DOMAIN list' = 1..(Len(list) + 1)
          /\ \A i \in 1..(Len(list) + 1) : list'[i] = IF i = Len(list) + 1 THEN line ELSE list[i]
          /\ DOMAIN list = 1..Len(list) /\ Len(list) \in Nat
      BY <3>1
    <3>3. \A i \in DOMAIN list' : list'[i].form \in FormsOf[format]
      BY <3>1, <3>2 DEF Written
    <3> QED
      BY <3>1, <3>2, <3>3 DEF Written
  <2>2. ASSUME UNCHANGED <<format, list>> PROVE Written'
    BY <2>2 DEF Written
  <2> QED
    BY <2>1, <2>2 DEF Next, AddTag, vars
<1> QED
  BY <1>1, <1>2, PTL DEF Spec

-----------------------------------------------------------------------------
(* A line that comes late *)

\* The lines before the last one are read as they were.
LEMMA EarlierLines ==
  ASSUME NEW body \in Seq(Line), NEW line \in Line, NEW longer, longer = Append(body, line)
  PROVE  /\ DOMAIN body = 1..Len(body) /\ Len(body) \in Nat
         /\ DOMAIN longer = 1..(Len(body) + 1) /\ Len(longer) = Len(body) + 1
         /\ \A i \in DOMAIN body : longer[i] = body[i]
         /\ longer[Len(longer)] = line
OBVIOUS

\* Past a full sample a line has no vote.
LEMMA SampleStays ==
  ASSUME NEW body \in Seq(Line), NEW line \in Line, NEW longer, longer = Append(body, line),
         Cardinality(Rules(body)) >= SampleSize
  PROVE  Sample(longer) = Sample(body)
<1> DEFINE n == Len(body)
<1>0. /\ DOMAIN body = 1..n /\ n \in Nat /\ DOMAIN longer = 1..(n + 1)
      /\ \A i \in DOMAIN body : longer[i] = body[i]
  BY EarlierLines
<1>1. \A i \in 1..n : i \in Rules(longer) <=> i \in Rules(body)
  BY <1>0 DEF Rules
<1>2. ASSUME NEW i \in 1..n PROVE {j \in Rules(longer) : j < i} = {j \in Rules(body) : j < i}
  <2>1. \A j \in 1..(n + 1) : j < i => j \in 1..n
    BY <1>0
  <2>2. Rules(longer) \subseteq 1..(n + 1) /\ Rules(body) \subseteq 1..n
    BY <1>0 DEF Rules
  <2> QED
    BY <1>1, <2>1, <2>2
<1>3. {j \in Rules(longer) : j < n + 1} = Rules(body)
  <2>1. \A j \in 1..(n + 1) : j < n + 1 <=> j \in 1..n
    BY <1>0
  <2>2. Rules(longer) \subseteq 1..(n + 1) /\ Rules(body) \subseteq 1..n
    BY <1>0 DEF Rules
  <2> QED
    BY <1>1, <2>1, <2>2
<1>4. \A i \in 1..n : i \in Sample(longer) <=> i \in Sample(body)
  BY <1>1, <1>2 DEF Sample
<1>5. n + 1 \notin Sample(longer)
  <2> SUFFICES ASSUME n + 1 \in Sample(longer) PROVE FALSE
    OBVIOUS
  <2>1. Cardinality(Rules(body)) < SampleSize
    BY <1>3 DEF Sample
  <2>2. Cardinality(Rules(body)) \in Nat /\ SampleSize \in Nat
    <3>1. IsFiniteSet(Rules(body))
      <4>1. IsFiniteSet(1..n)
        BY <1>0, FS_Interval
      <4>2. Rules(body) \subseteq 1..n
        BY <1>0 DEF Rules
      <4> QED
        BY <4>1, <4>2, FS_Subset
    <3> QED
      BY <3>1, FS_CardinalityType, ParsingAssumption
  <2> QED
    BY <2>1, <2>2
<1>6. Sample(longer) \subseteq 1..(n + 1) /\ Sample(body) \subseteq 1..n
  BY <1>0 DEF Sample, Rules
<1>7. \A i \in 1..(n + 1) : i = n + 1 \/ i \in 1..n
  BY <1>0
<1> QED
  BY <1>4, <1>5, <1>6, <1>7

LEMMA GuessStays ==
  ASSUME NEW body \in Seq(Line), NEW line \in Line, NEW longer, longer = Append(body, line),
         Cardinality(Rules(body)) >= SampleSize
  PROVE  Detected(longer) = Detected(body)
<1>1. Sample(longer) = Sample(body)
  BY SampleStays
<1>2. \A i \in Sample(body) : longer[i] = body[i]
  BY EarlierLines DEF Sample, Rules
<1>3. \A f : Votes(longer, f) = Votes(body, f)
  BY <1>1, <1>2 DEF Votes
<1> QED
  BY <1>3 DEF Detected

\* What is found in a list is found in a longer one, and the rest is the last line's.
LEMMA WordsGrow ==
  ASSUME NEW body \in Seq(Line), NEW line \in Line, NEW longer, longer = Append(body, line),
         NEW forms
  PROVE  /\ Words(body, forms) \subseteq Words(longer, forms)
         /\ Words(longer, forms) \subseteq Words(body, forms) \cup line.words
<1> DEFINE n == Len(body)
<1>0. /\ DOMAIN body = 1..n /\ n \in Nat /\ DOMAIN longer = 1..(n + 1)
      /\ \A i \in DOMAIN body : longer[i] = body[i]
      /\ longer[n + 1] = line
  BY EarlierLines
<1>1. \A i \in 1..n : i \in Readable(longer) <=> i \in Readable(body)
  <2>1. \A i \in 1..n : \A j \in 1..i : j \in 1..n
    BY <1>0
  <2>2. \A i \in 1..n : i \in 1..(n + 1)
    BY <1>0
  <2> QED
    BY <1>0, <2>1, <2>2 DEF Readable
<1>2. Readable(body) \subseteq 1..n /\ Readable(longer) \subseteq 1..(n + 1)
      /\ \A i \in 1..(n + 1) : i = n + 1 \/ i \in 1..n
  BY <1>0 DEF Readable
<1>3. ASSUME NEW w \in Words(body, forms) PROVE w \in Words(longer, forms)
  <2>1. PICK i \in Readable(body) : body[i].form \in forms /\ w \in body[i].words
    BY <1>3 DEF Words
  <2>2. i \in Readable(longer) /\ longer[i] = body[i]
    BY <1>0, <1>1, <1>2, <2>1
  <2> QED
    BY <2>1, <2>2 DEF Words
<1>4. ASSUME NEW w \in Words(longer, forms) PROVE w \in Words(body, forms) \cup line.words
  <2>1. PICK i \in Readable(longer) : longer[i].form \in forms /\ w \in longer[i].words
    BY <1>4 DEF Words
  <2>2. CASE i = n + 1
    BY <1>0, <2>1, <2>2
  <2>3. CASE i \in 1..n
    <3>1. i \in Readable(body) /\ longer[i] = body[i]
      BY <1>0, <1>1, <2>1, <2>3
    <3> QED
      BY <2>1, <3>1 DEF Words
  <2> QED
    BY <1>2, <2>2, <2>3
<1> QED
  BY <1>3, <1>4

\* Parsing is done word by word.
LEMMA NormalizeGrows ==
  ASSUME NEW few, NEW many, NEW more, few \subseteq many, many \subseteq few \cup more
  PROVE  /\ normalizeDomain(few) \subseteq normalizeDomain(many)
         /\ normalizeDomain(many) \subseteq normalizeDomain(few) \cup normalizeDomain(more)
BY DEF normalizeDomain

\* Whatever follows a full sample adds its own names at most.
THEOREM LaterLinesTheorem == Spec => LaterLinesOnlyAdd
<1> DEFINE Added ==
      Cardinality(Rules(list)) >= SampleSize =>
        /\ Detected(list') = Detected(list)
        /\ DetectAndParse(list) \subseteq DetectAndParse(list')
        /\ DetectAndParse(list') \subseteq
               DetectAndParse(list) \cup normalizeDomain(list'[Len(list')].words)
<1>1. ASSUME Written, NEW line \in Line, Write(line), Cardinality(Rules(list)) >= SampleSize
      PROVE  Added
  <2>0. list \in Seq(Line) /\ list' = Append(list, line)
    BY <1>1 DEF Written, Write
  <2>1. Detected(list') = Detected(list)
    BY <1>1, <2>0, GuessStays
  <2>2. list'[Len(list')] = line
    BY <2>0
  <2>3. \A forms : /\ normalizeDomain(Words(list, forms)) \subseteq normalizeDomain(Words(list', forms))
                   /\ normalizeDomain(Words(list', forms)) \subseteq
                        normalizeDomain(Words(list, forms)) \cup normalizeDomain(line.words)
    BY <1>1, <2>0, WordsGrow, NormalizeGrows
  <2>4. /\ ParseHosts(list) \subseteq ParseHosts(list')
        /\ ParseHosts(list') \subseteq ParseHosts(list) \cup normalizeDomain(line.words)
    BY <2>3 DEF ParseHosts
  <2>5. /\ ParsePlain(list) \subseteq ParsePlain(list')
        /\ ParsePlain(list') \subseteq ParsePlain(list) \cup normalizeDomain(line.words)
        /\ ParseABP(list) \subseteq ParseABP(list')
        /\ ParseABP(list') \subseteq ParseABP(list) \cup normalizeDomain(line.words)
    BY <2>3 DEF ParsePlain, ParseABP
  <2> QED
    BY <2>1, <2>2, <2>4, <2>5 DEF DetectAndParse
<1>2. LaterLinesOnlyAdd <=> [][Added]_list
  BY DEF LaterLinesOnlyAdd
<1>3. Written /\ [Next]_vars => [Added]_list
  <2> SUFFICES ASSUME Written, [Next]_vars, list' # list PROVE Added
    OBVIOUS
  <2>1. PICK line \in Line : Write(line)
    BY DEF Next, AddTag, vars
  <2> QED
    BY <1>1, <2>1
<1> HIDE DEF Added
<1> QED
  BY <1>2, <1>3, WrittenInvariant, PTL DEF Spec

-----------------------------------------------------------------------------
(* What a list blocks *)

\* A query is blocked by a list exactly when its name, normalised, was parsed.
LEMMA BlockedIsParsed ==
  ASSUME NEW body, NEW name \in Name
  PROVE  Blocked(body, name) <=> Normal[name] \in DetectAndParse(body)
<1> DEFINE snap == GravityOf(body)
           domain == Normal[name]
<1>1. /\ snap.exactAllow = {} /\ snap.regexAllow = <<>> /\ snap.regexDeny = <<>>
      /\ DOMAIN snap.exactDeny = DetectAndParse(body)
  BY DEF GravityOf
<1>2. ASSUME NEW qtype PROVE Evaluate(snap, name, qtype).Blocked <=> domain \in DetectAndParse(body)
  <2>1. Matching(snap.regexAllow, domain, qtype) = {} /\ Matching(snap.regexDeny, domain, qtype) = {}
    BY <1>1 DEF Matching
  <2>2. Evaluate(snap, name, qtype) = Denial(snap, domain, qtype)
    BY <1>1, <2>1 DEF Evaluate, Allowed
  <2>3. CASE domain \in DetectAndParse(body)
    <3>1. Denial(snap, domain, qtype) = Block(snap.exactDeny[domain], Nil)
      BY <1>1, <2>1, <2>3 DEF Denial
    <3> QED
      BY <2>2, <2>3, <3>1 DEF Block
  <2>4. CASE domain \notin DetectAndParse(body)
    <3>1. Denial(snap, domain, qtype) = Pass
      BY <1>1, <2>1, <2>4 DEF Denial
    <3> QED
      BY <2>2, <2>4, <3>1 DEF Pass
  <2> QED
    BY <2>3, <2>4
<1> HIDE DEF snap, domain
<1>3. PICK qtype : qtype \in QType
  BY ParsingAssumption
<1>4. (\E t \in QType : Evaluate(snap, name, t).Blocked) <=> domain \in DetectAndParse(body)
  BY <1>2, <1>3
<1> QED
  BY <1>4 DEF Blocked, snap, domain

\* Which parser a list goes through.
LEMMA ParserOf ==
  ASSUME NEW body
  PROVE  /\ Detected(body) \in Format
         /\ Detected(body) = "abp" => DetectAndParse(body) = ParseABP(body)
         /\ Detected(body) = "hosts" => DetectAndParse(body) = ParseHosts(body)
         /\ Detected(body) = "plain" => DetectAndParse(body) = ParsePlain(body)
<1>1. Detected(body) \in Format
  BY DEF Detected, Format
<1> QED
  BY <1>1 DEF DetectAndParse

\* A list whose format is guessed right blocks every domain it names.
THEOREM ListedTheorem == Spec => []ListedIsBlocked
<1>1. ASSUME Written, Detected(list) = format, NEW name \in Name,
             NEW w \in Words(list, RuleForms[format]) \ Malformed,
             Normal[w] = Normal[name], Normal[w] \notin Local
      PROVE  Blocked(list, name)
  <2>1. format \in {"hosts", "plain", "abp"}
    BY <1>1 DEF Written, Format
  <2>2. \A few, many : few \subseteq many =>
           (w \in Words(list, few) => Normal[w] \in normalizeDomain(Words(list, many)))
    BY <1>1 DEF Words, normalizeDomain
  <2>3. CASE format = "hosts"
    <3>1. Normal[w] \in ParseHosts(list)
      BY <1>1, <2>2, <2>3 DEF ParseHosts, RuleForms
    <3> QED
      BY <1>1, <2>3, <3>1, BlockedIsParsed, ParserOf
  <2>4. CASE format = "plain"
    <3>1. Normal[w] \in ParsePlain(list)
      BY <1>1, <2>2, <2>4 DEF ParsePlain, RuleForms
    <3> QED
      BY <1>1, <2>4, <3>1, BlockedIsParsed, ParserOf
  <2>5. CASE format = "abp"
    <3>1. Normal[w] \in ParseABP(list)
      BY <1>1, <2>2, <2>5 DEF ParseABP, RuleForms
    <3> QED
      BY <1>1, <2>5, <3>1, BlockedIsParsed, ParserOf
  <2> QED
    BY <2>1, <2>3, <2>4, <2>5
<1>2. Written => ListedIsBlocked
  BY <1>1 DEF ListedIsBlocked
<1> QED
  BY <1>2, WrittenInvariant, PTL

\* Nothing is blocked but for a line that names it, whatever is guessed.
THEOREM NothingElseTheorem == Spec => []NothingElseIsBlocked
<1> DEFINE Names(i, w, name) ==
      /\ w \in list[i].words /\ Normal[w] = Normal[name]
      /\ \/ list[i].form \in RuleForms[format] /\ Detected(list) = format
         \/ list[i].form = "path" /\ Detected(list) = "abp"
         \/ list[i].form = "cosmetic" /\ Detected(list) = "plain"
<1>1. ASSUME Written, NEW name \in Name, Blocked(list, name)
      PROVE  \E i \in DOMAIN list, w \in Name : Names(i, w, name)
  <2>0. Detected(list) \in {"hosts", "plain", "abp"} /\ Normal[name] \in DetectAndParse(list)
    BY <1>1, BlockedIsParsed, ParserOf DEF Format
  <2>1. ASSUME NEW forms, Normal[name] \in normalizeDomain(Words(list, forms))
        PROVE  \E i \in DOMAIN list, w \in Name :
                 /\ w \in list[i].words /\ Normal[w] = Normal[name]
                 /\ list[i].form \in forms /\ list[i].form \in FormsOf[format]
    <3>1. PICK w : w \in Words(list, forms) /\ Normal[w] = Normal[name]
      BY <2>1 DEF normalizeDomain
    <3>2. PICK i \in DOMAIN list : list[i].form \in forms /\ w \in list[i].words
      BY <3>1 DEF Words, Readable
    <3>3. list[i] \in Line /\ list[i].form \in FormsOf[format]
      BY <1>1 DEF Written
    <3>4. list[i].words \subseteq Name
      BY <3>3, ParsingAssumption
    <3> QED
      BY <3>1, <3>2, <3>3, <3>4
  <2>2. CASE Detected(list) = "hosts"
    <3>1. Normal[name] \in normalizeDomain(Words(list, {"sink", "sinktab"}))
      BY <2>0, <2>2, ParserOf DEF ParseHosts
    <3>2. PICK i \in DOMAIN list, w \in Name :
             /\ w \in list[i].words /\ Normal[w] = Normal[name]
             /\ list[i].form \in {"sink", "sinktab"} /\ list[i].form \in FormsOf[format]
      BY <2>1, <3>1
    <3>3. format = "hosts"
      BY <1>1, <3>2 DEF Written, Format, FormsOf
    <3>4. list[i].form \in RuleForms[format]
      BY <3>2, <3>3 DEF RuleForms
    <3> QED
      BY <2>2, <3>2, <3>3, <3>4
  <2>3. CASE Detected(list) = "plain"
    <3>1. Normal[name] \in normalizeDomain(Words(list, {"name", "cosmetic"}))
      BY <2>0, <2>3, ParserOf DEF ParsePlain
    <3>2. PICK i \in DOMAIN list, w \in Name :
             /\ w \in list[i].words /\ Normal[w] = Normal[name]
             /\ list[i].form \in {"name", "cosmetic"} /\ list[i].form \in FormsOf[format]
      BY <2>1, <3>1
    <3>3. list[i].form = "name" => format = "plain"
      BY <1>1, <3>2 DEF Written, Format, FormsOf
    <3>4. list[i].form = "name" => list[i].form \in RuleForms[format]
      BY <3>3 DEF RuleForms
    <3> QED
      BY <2>3, <3>2, <3>3, <3>4
  <2>4. CASE Detected(list) = "abp"
    <3>1. Normal[name] \in normalizeDomain(Words(list, {"anchor", "path"}))
      BY <2>0, <2>4, ParserOf DEF ParseABP
    <3>2. PICK i \in DOMAIN list, w \in Name :
             /\ w \in list[i].words /\ Normal[w] = Normal[name]
             /\ list[i].form \in {"anchor", "path"} /\ list[i].form \in FormsOf[format]
      BY <2>1, <3>1
    <3>3. format = "abp"
      BY <1>1, <3>2 DEF Written, Format, FormsOf
    <3>4. list[i].form = "anchor" => list[i].form \in RuleForms[format]
      BY <3>3 DEF RuleForms
    <3> QED
      BY <2>4, <3>2, <3>3, <3>4
  <2> QED
    BY <2>0, <2>2, <2>3, <2>4
<1>2. Written => NothingElseIsBlocked
  BY <1>1 DEF NothingElseIsBlocked
<1> QED
  BY <1>2, WrittenInvariant, PTL
-----------------------------------------------------------------------------
(* The tags of a filter *)

\* A set of naturals has a least element.
LEMMA Least ==
  ASSUME NEW T, T \subseteq Nat, T # {}
  PROVE  \E i \in T : \A j \in T : i <= j
<1> DEFINE Less == {ss \in Nat \X Nat : ss[1] < ss[2]}
<1>1. IsWellFoundedOn(Less, Nat)
  BY NatLessThanWellFounded DEF OpToRel
<1>2. PICK i \in T : \A j \in T : ~(<<j, i>> \in Less)
  <2> HIDE DEF Less
  <2> QED
    BY <1>1, WFMin
<1>3. ASSUME NEW j \in T PROVE i <= j
  <2>1. <<j, i>> \in Nat \X Nat /\ <<j, i>>[1] = j /\ <<j, i>>[2] = i
    OBVIOUS
  <2> QED
    BY <1>2, <2>1
<1> QED
  BY <1>3

\* A set that has 0, and each number's successor up to n, has the numbers up to n.
LEMMA UpTo ==
  ASSUME NEW n \in Nat, NEW S, 0 \in S,
         \A k \in 1..n : k - 1 \in S => k \in S
  PROVE  0..n \subseteq S
<1> DEFINE T == {k \in 0..n : k \notin S}
<1>1. ASSUME T # {} PROVE FALSE
  <2>1. T \subseteq Nat
    OBVIOUS
  <2>2. PICK k \in T : \A j \in T : k <= j
    <3> HIDE DEF T
    <3> QED
      BY <1>1, <2>1, Least
  <2>3. k \in Nat /\ k <= n /\ k \notin S /\ k # 0
    BY <2>2
  <2>4. k \in 1..n /\ k - 1 \in 0..n /\ ~(k <= k - 1)
    BY <2>3
  <2>5. k - 1 \notin T
    BY <2>2, <2>4
  <2> QED
    BY <2>3, <2>4, <2>5
<1> QED
  BY <1>1

\* The state of the loop after its nth tag, given those before.
AfterTag(after, ts, n) ==
    IF n = 0 THEN Compiled(NoRule)
    ELSE IF ~after[n - 1].ok \/ BadTag(ts[n]) THEN Rejected
    ELSE Compiled(Apply(after[n - 1].rule, ts[n]))

IsLoop(after, ts, m) == after = [n \in 0..m |-> AfterTag(after, ts, n)]

\* The loop has such a sequence of states, as it can always go on by one tag.
LEMMA LoopExists ==
  ASSUME NEW ts, NEW m \in Nat
  PROVE  \E after : IsLoop(after, ts, m)
<1> DEFINE S == {k \in Nat : \E after : IsLoop(after, ts, k)}
<1>1. 0 \in S
  <2> DEFINE h == [n \in 0..0 |-> Compiled(NoRule)]
  <2>1. \A n \in 0..0 : n = 0
    OBVIOUS
  <2>2. h = [n \in 0..0 |-> AfterTag(h, ts, n)]
    BY <2>1 DEF AfterTag
  <2> QED
    BY <2>2 DEF IsLoop
<1>2. ASSUME NEW k \in 1..m, k - 1 \in S PROVE k \in S
  <2>0. k \in Nat /\ k - 1 \in Nat /\ k # 0
    OBVIOUS
  <2>1. PICK g : IsLoop(g, ts, k - 1)
    BY <1>2
  <2> DEFINE h == [n \in 0..k |-> IF n = k THEN AfterTag(g, ts, k) ELSE g[n]]
  <2>2. ASSUME NEW n \in 0..k PROVE h[n] = AfterTag(h, ts, n)
    <3>1. n # 0 => h[n - 1] = g[n - 1]
      <4>1. n # 0 => n - 1 \in 0..k /\ n - 1 # k
        BY <2>0
      <4> QED
        BY <4>1
    <3>2. AfterTag(h, ts, n) = AfterTag(g, ts, n)
      <4> HIDE DEF h
      <4> QED
        BY <3>1 DEF AfterTag
    <3>3. CASE n = k
      BY <3>2, <3>3
    <3>4. CASE n # k
      <4>1. n \in 0..(k - 1)
        BY <2>0, <3>4
      <4>2. g[n] = AfterTag(g, ts, n)
        BY <2>1, <4>1 DEF IsLoop
      <4> QED
        BY <3>2, <3>4, <4>2
    <3> QED
      BY <3>3, <3>4
  <2>3. h = [n \in 0..k |-> AfterTag(h, ts, n)]
    <3>1. h = [n \in 0..k |-> h[n]]
      OBVIOUS
    <3> HIDE DEF h
    <3> QED
      BY <2>2, <3>1
  <2> QED
    BY <2>0, <2>3 DEF IsLoop
<1>3. 0..m \subseteq S
  <2> HIDE DEF S
  <2> QED
    BY <1>1, <1>2, UpTo
<1> QED
  BY <1>3

\* What ParseRegex returns is the last of the loop's states.
LEMMA ParseIsLoop ==
  ASSUME NEW ts \in Seq(Tag)
  PROVE  \E after : IsLoop(after, ts, Len(ts)) /\ ParseRegex(ts) = after[Len(ts)]
<1> DEFINE loop == CHOOSE after : IsLoop(after, ts, Len(ts))
<1>1. ParseRegex(ts) = loop[Len(ts)]
  BY DEF ParseRegex, IsLoop, AfterTag
<1>2. IsLoop(loop, ts, Len(ts))
  BY LoopExists
<1> QED
  BY <1>1, <1>2
\* The last of the first n tags that has a key.
IsLast(ts, n, key, i) ==
    i \in 1..n /\ ts[i].key = key /\ \A j \in (i + 1)..n : ts[j].key # key

\* What a state of the loop says of the tags before it.
Means(state, ts, n) ==
    /\ state.ok <=> \A i \in 1..n : ~BadTag(ts[i])
    /\ DOMAIN state.rule = DOMAIN NoRule
    /\ state.ok =>
        /\ state.rule.Invert <=> \E i \in 1..n : ts[i].key = "invert"
        /\ state.rule.Invert \in BOOLEAN
        /\ state.rule.Scoped <=> \E i \in 1..n : ts[i].key = "querytype"
        /\ \A i : IsLast(ts, n, "querytype", i) =>
              state.rule.QueryTypes = ts[i].types /\ state.rule.NegateQueryTypes = ts[i].negate
        /\ (\A i \in 1..n : ts[i].key # "reply") => state.rule.Reply = Nil
        /\ \A i : IsLast(ts, n, "reply", i) => state.rule.Reply = ts[i].reply

\* One more tag.
LEMMA TagStep ==
  ASSUME NEW ts, NEW n \in Nat \ {0}, NEW after, NEW m \in Nat, n <= m,
         IsLoop(after, ts, m), Means(after[n - 1], ts, n - 1)
  PROVE  Means(after[n], ts, n)
<1> DEFINE was == after[n - 1]
<1>0. /\ after[n] = IF ~was.ok \/ BadTag(ts[n]) THEN Rejected
                    ELSE Compiled(Apply(was.rule, ts[n]))
      /\ \A i : i \in 1..n <=> i \in 1..(n - 1) \/ i = n
      /\ n - 1 \in Nat /\ n \notin 1..(n - 1)
  BY DEF IsLoop, AfterTag
<1>1. \A key : ts[n].key = key => \A i : IsLast(ts, n, key, i) => i = n
  <2> SUFFICES ASSUME NEW i, IsLast(ts, n, ts[n].key, i), i # n PROVE FALSE
    OBVIOUS
  <2>1. i \in 1..(n - 1)
    BY <1>0 DEF IsLast
  <2>2. n \in (i + 1)..n
    BY <2>1
  <2> QED
    BY <2>2 DEF IsLast
<1>2. \A key : ts[n].key # key => \A i : IsLast(ts, n, key, i) => IsLast(ts, n - 1, key, i)
  <2> SUFFICES ASSUME NEW key, ts[n].key # key, NEW i, IsLast(ts, n, key, i)
               PROVE  IsLast(ts, n - 1, key, i)
    OBVIOUS
  <2>1. i \in 1..(n - 1)
    BY <1>0 DEF IsLast
  <2>2. \A j \in (i + 1)..(n - 1) : j \in (i + 1)..n
    BY <2>1
  <2> QED
    BY <2>1, <2>2 DEF IsLast
<1>3. CASE ~was.ok \/ BadTag(ts[n])
  <2>1. after[n] = Rejected
    BY <1>0, <1>3
  <2>2. ~ \A i \in 1..n : ~BadTag(ts[i])
    BY <1>0, <1>3 DEF Means
  <2> QED
    BY <2>1, <2>2 DEF Means, Rejected
<1>4. CASE was.ok /\ ~BadTag(ts[n])
  <2> DEFINE old == was.rule
             tag == ts[n]
             new == Apply(old, tag)
  <2>1. after[n].ok = TRUE /\ after[n].rule = new
    BY <1>0, <1>4 DEF Compiled
  <2>2. \A i \in 1..n : ~BadTag(ts[i])
    BY <1>0, <1>4 DEF Means
  <2>3. /\ DOMAIN old = {"Pattern", "Invert", "Scoped", "QueryTypes", "NegateQueryTypes", "Reply"}
        /\ DOMAIN old = DOMAIN NoRule /\ old.Invert \in BOOLEAN
    BY <1>4 DEF Means, NoRule
  <2>4. CASE tag.key = "invert"
    <3>1. /\ new = [old EXCEPT !.Invert = TRUE]
          /\ tag.key # "querytype" /\ tag.key # "reply"
      BY <2>4 DEF Apply
    <3>2. /\ new.Invert = TRUE /\ new.Scoped = old.Scoped /\ new.QueryTypes = old.QueryTypes
          /\ new.NegateQueryTypes = old.NegateQueryTypes /\ new.Reply = old.Reply
          /\ DOMAIN new = DOMAIN old
      BY <2>3, <3>1
    <3> HIDE DEF new, old
    <3> QED
      BY <1>0, <1>2, <1>4, <2>1, <2>2, <2>3, <2>4, <3>1, <3>2 DEF Means, old
  <2>5. CASE tag.key = "querytype"
    <3>1. new = Scope(old, tag) /\ tag.key # "invert" /\ tag.key # "reply"
      BY <2>5 DEF Apply
    <3>2. /\ new.Invert = old.Invert /\ new.Scoped = TRUE /\ new.QueryTypes = tag.types
          /\ new.NegateQueryTypes = tag.negate /\ new.Reply = old.Reply
          /\ DOMAIN new = DOMAIN old
      BY <2>3, <3>1 DEF Scope
    <3> HIDE DEF new, old
    <3> QED
      BY <1>0, <1>1, <1>2, <1>4, <2>1, <2>2, <2>3, <2>5, <3>1, <3>2 DEF Means, old
  <2>6. CASE tag.key = "reply"
    <3>1. new = [old EXCEPT !.Reply = tag.reply] /\ tag.key # "invert" /\ tag.key # "querytype"
      BY <2>6 DEF Apply
    <3>2. /\ new.Invert = old.Invert /\ new.Scoped = old.Scoped /\ new.QueryTypes = old.QueryTypes
          /\ new.NegateQueryTypes = old.NegateQueryTypes /\ new.Reply = tag.reply
          /\ DOMAIN new = DOMAIN old
      BY <2>3, <3>1
    <3> HIDE DEF new, old
    <3> QED
      BY <1>0, <1>1, <1>2, <1>4, <2>1, <2>2, <2>3, <2>6, <3>1, <3>2 DEF Means, old
  <2>7. CASE tag.key \notin {"invert", "querytype", "reply"}
    <3>1. new = old
      BY <2>7 DEF Apply
    <3> HIDE DEF new, old
    <3> QED
      BY <1>0, <1>2, <1>4, <2>1, <2>2, <2>3, <2>7, <3>1 DEF Means, old
  <2> QED
    BY <2>4, <2>5, <2>6, <2>7
<1> QED
  BY <1>3, <1>4

LEMMA ParseMeans ==
  ASSUME NEW ts \in Seq(Tag)
  PROVE  Means(ParseRegex(ts), ts, Len(ts))
<1>1. PICK after : IsLoop(after, ts, Len(ts)) /\ ParseRegex(ts) = after[Len(ts)]
  BY ParseIsLoop
<1> DEFINE S == {n \in 0..Len(ts) : Means(after[n], ts, n)}
<1>0. Len(ts) \in Nat
  OBVIOUS
<1>2. 0 \in S
  <2>1. after[0] = Compiled(NoRule) /\ 0 \in 0..Len(ts)
    BY <1>0, <1>1 DEF IsLoop, AfterTag
  <2>2. Means(Compiled(NoRule), ts, 0)
    <3>1. 1..0 = {} /\ \A key, i : ~IsLast(ts, 0, key, i)
      BY DEF IsLast
    <3>2. /\ Compiled(NoRule).ok = TRUE /\ Compiled(NoRule).rule = NoRule
          /\ NoRule.Invert = FALSE /\ NoRule.Scoped = FALSE /\ NoRule.Reply = Nil
      BY DEF Compiled, NoRule
    <3> QED
      BY <3>1, <3>2 DEF Means
  <2> QED
    BY <2>1, <2>2
<1>3. ASSUME NEW n \in 1..Len(ts), n - 1 \in S PROVE n \in S
  BY <1>0, <1>1, <1>3, TagStep
<1>4. 0..Len(ts) \subseteq S
  <2> HIDE DEF S
  <2> QED
    BY <1>0, <1>2, <1>3, UpTo
<1> QED
  BY <1>0, <1>1, <1>4

\* LastOf is 0, or the last of all tags.
LEMMA LastOfIsLast ==
  ASSUME tags \in Seq(Tag), NEW key
  PROVE  IF \E i \in 1..Len(tags) : tags[i].key = key
         THEN LastOf(key) > 0 /\ IsLast(tags, Len(tags), key, LastOf(key))
         ELSE LastOf(key) = 0
<1> DEFINE n == Len(tags)
           at == {i \in DOMAIN tags : tags[i].key = key}
<1>0. n \in Nat /\ DOMAIN tags = 1..n
  OBVIOUS
<1>1. CASE at = {}
  BY <1>0, <1>1 DEF LastOf
<1>2. CASE at # {}
  <2> DEFINE behind == {n - i : i \in at}
  <2>1. PICK i \in at : \A j \in at : j <= i
    <3>1. behind \subseteq Nat /\ behind # {}
      BY <1>0, <1>2
    <3>2. PICK d \in behind : \A e \in behind : d <= e
      <4> HIDE DEF behind
      <4> QED
        BY <3>1, Least
    <3>3. PICK i \in at : d = n - i
      BY <3>2
    <3>4. ASSUME NEW j \in at PROVE j <= i
      <4>1. n - i <= n - j
        BY <3>2, <3>3
      <4>2. i \in 1..n /\ j \in 1..n
        BY <1>0
      <4> QED
        BY <1>0, <4>1, <4>2
    <3> QED
      BY <3>4
  <2>2. LastOf(key) = CHOOSE k \in at : \A j \in at : j <= k
    BY <1>2 DEF LastOf
  <2>3. LastOf(key) \in at /\ \A j \in at : j <= LastOf(key)
    <3> HIDE DEF at
    <3> QED
      BY <2>1, <2>2
  <2>4. LastOf(key) \in 1..n /\ tags[LastOf(key)].key = key
    BY <1>0, <2>3
  <2>5. \A j \in (LastOf(key) + 1)..n : tags[j].key # key
    <3> SUFFICES ASSUME NEW j \in (LastOf(key) + 1)..n, tags[j].key = key PROVE FALSE
      OBVIOUS
    <3>1. j \in 1..n /\ ~(j <= LastOf(key))
      BY <1>0, <2>4
    <3>2. j \in at
      BY <1>0, <3>1
    <3> QED
      BY <2>3, <3>1, <3>2
  <2>6. LastOf(key) > 0
    BY <1>0, <2>4
  <2> QED
    BY <2>4, <2>5, <2>6 DEF IsLast
<1> QED
  BY <1>1, <1>2

\* However long a filter is and in whatever order its tags come: it is rejected for any
\* that is wrong, inverted by any ;invert, and scoped and answered as the last say.
THEOREM FilterTheorem == Spec => []FilterMeansItsTags
<1>1. Init => tags \in Seq(Tag)
  BY DEF Init
<1>2. tags \in Seq(Tag) /\ [Next]_vars => (tags \in Seq(Tag))'
  BY DEF Next, Write, AddTag, vars
<1>3. tags \in Seq(Tag) => FilterMeansItsTags
  <2> SUFFICES ASSUME tags \in Seq(Tag) PROVE FilterMeansItsTags
    OBVIOUS
  <2> DEFINE n == Len(tags)
             parsed == ParseRegex(tags)
             rule == parsed.rule
             scope == LastOf("querytype")
             reply == LastOf("reply")
  <2>0. DOMAIN tags = 1..n
    OBVIOUS
  <2>1. Means(parsed, tags, n)
    BY ParseMeans
  <2>2. /\ IF \E i \in 1..n : tags[i].key = "querytype"
           THEN scope > 0 /\ IsLast(tags, n, "querytype", scope) ELSE scope = 0
        /\ IF \E i \in 1..n : tags[i].key = "reply"
           THEN reply > 0 /\ IsLast(tags, n, "reply", reply) ELSE reply = 0
        /\ IF \E i \in 1..n : tags[i].key = "invert"
           THEN LastOf("invert") > 0 ELSE LastOf("invert") = 0
    BY LastOfIsLast
  <2>3. parsed.ok <=> \A i \in DOMAIN tags : ~BadTag(tags[i])
    BY <2>0, <2>1 DEF Means
  <2>4. ASSUME parsed.ok
        PROVE  /\ rule.Invert <=> LastOf("invert") > 0
               /\ \A t \in QType : InScope(rule, t) <=>
                    (scope > 0 => (t \in tags[scope].types) # tags[scope].negate)
               /\ rule.Reply = IF reply = 0 THEN Nil ELSE tags[reply].reply
    <3>1. rule.Invert <=> LastOf("invert") > 0
      BY <2>1, <2>2, <2>4 DEF Means
    <3>2. rule.Reply = IF reply = 0 THEN Nil ELSE tags[reply].reply
      BY <2>1, <2>2, <2>4 DEF Means
    <3>3. /\ rule.Scoped <=> scope > 0
          /\ scope > 0 => rule.QueryTypes = tags[scope].types
                          /\ rule.NegateQueryTypes = tags[scope].negate
      BY <2>1, <2>2, <2>4 DEF Means
    <3> QED
      BY <3>1, <3>2, <3>3 DEF InScope
  <2> QED
    BY <2>3, <2>4 DEF FilterMeansItsTags
<1> QED
  BY <1>1, <1>2, <1>3, PTL DEF Spec
=============================================================================
