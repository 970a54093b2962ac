------------------------------- MODULE Matcher -------------------------------
(***************************************************************************)
(* The decision of the matcher engine on one query: Evaluate of            *)
(* internal/matcher/engine.go and Matches of internal/gravity/regex.go.    *)
(*                                                                         *)
(* A domain is a name in its normal form, or another spelling of one: with *)
(* capitals or a trailing dot.  The pattern of a regex rule is the set of  *)
(* the names it matches.                                                   *)
(***************************************************************************)
EXTENDS Integers, Sequences

CONSTANTS
    Name,     \* spellings of domain names
    Normal,   \* lower case, no trailing dot: the names of all their spellings
    QType,    \* query types
    Nil       \* no value

\* ;reply= of a rule: an address is of a family, or is none at all.
Override == {"nodata", "nxdomain", "refused", "none", "ipv4", "ipv6", "badip"}

ASSUME MatcherAssumption ==
    /\ Normal \in [Name -> Name]
    /\ \A n \in Name : Normal[Normal[n]] = Normal[n]
    /\ Nil \notin Name \cup QType \cup Override

\* A compiled rule; Scoped when it names query types.
RegexRule == [Pattern : SUBSET Name, Invert : BOOLEAN, Scoped : BOOLEAN,
              QueryTypes : SUBSET QType, NegateQueryTypes : BOOLEAN,
              Reply : Override \cup {Nil}]

\* Compiled snapshots: the deny map gives the source of each of its domains.
IsSnapshot(snap) ==
    /\ snap.exactAllow \subseteq Name
    /\ DOMAIN snap.exactDeny \subseteq Name
    /\ \A n \in DOMAIN snap.exactDeny : snap.exactDeny[n] \in {"gravity", "manual"}
    /\ snap.regexAllow \in Seq(RegexRule) /\ snap.regexDeny \in Seq(RegexRule)

InScope(rule, qtype) ==
    rule.Scoped => (qtype \in rule.QueryTypes) # rule.NegateQueryTypes

Matches(rule, domain, qtype) ==
    InScope(rule, qtype) /\ (domain \in rule.Pattern) # rule.Invert

\* Positions of the rules that match.
Matching(rules, domain, qtype) == {i \in DOMAIN rules : Matches(rules[i], domain, qtype)}

Pass == [Blocked |-> FALSE, Source |-> Nil, Reply |-> Nil]
Block(source, reply) == [Blocked |-> TRUE, Source |-> source, Reply |-> reply]

Allowed(snap, domain, qtype) ==
    domain \in snap.exactAllow \/ Matching(snap.regexAllow, domain, qtype) # {}

\* The rules that deny are looked at in the order they were loaded in.
Denial(snap, domain, qtype) ==
    LET matching == Matching(snap.regexDeny, domain, qtype)
        first == CHOOSE i \in matching : \A j \in matching : i <= j
    IN CASE domain \in DOMAIN snap.exactDeny -> Block(snap.exactDeny[domain], Nil)
         [] domain \notin DOMAIN snap.exactDeny /\ matching # {} ->
                Block("regex", snap.regexDeny[first].Reply)
         [] OTHER -> Pass

\* The exact deny map is asked before the regex allow list.
MutEvaluate(snap, name, qtype) ==
    LET domain == Normal[name] IN
    IF domain \in snap.exactAllow THEN Pass
    ELSE IF domain \in DOMAIN snap.exactDeny THEN Denial(snap, domain, qtype)
    ELSE IF Allowed(snap, domain, qtype) THEN Pass
    ELSE Denial(snap, domain, qtype)

Evaluate(snap, name, qtype) ==
    LET domain == Normal[name] IN
    IF Allowed(snap, domain, qtype) THEN Pass ELSE Denial(snap, domain, qtype)
=============================================================================
