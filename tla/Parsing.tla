------------------------------- MODULE Parsing -------------------------------
(***************************************************************************)
(* From text to rules: DetectAndParse of internal/gravity/fetch.go with    *)
(* the three parsers of parse.go, and ParseRegex of regex.go.  The inputs  *)
(* grow: a blocklist line by line, in the format its author writes, or the *)
(* tags of a regex filter one by one.  What is parsed is handed to         *)
(* Evaluate, as a query would meet it.                                     *)
(*                                                                         *)
(* A line is told by its form, that is by what the code looks at: how it   *)
(* begins and what separates its words.  A word is a name of Matcher.      *)
(***************************************************************************)
EXTENDS Matcher, FiniteSets

CONSTANTS
    Malformed,   \* names with no point in them, or with a character no domain has
    Local,       \* localhost and its like, as normalised
    SampleSize,  \* the lines DetectAndParse looks at
    Line,        \* bound: the lines authors use
    MaxLines,    \* bound: lines of a list
    Tag,         \* bound: the tags of filters
    MaxTags      \* bound: tags of a filter

Format == {"hosts", "plain", "abp"}

\* Trimmed, a line is empty, a comment after # or !, a [header], an address of the
\* null route and names after blanks or a tab, another address and names, a name,
\* ||name^, ||name/path, @@||name^, or name##selector.
Form == {"blank", "hash", "bang", "header", "sink", "sinktab", "address", "name",
         "anchor", "path", "exception", "cosmetic"}

\* What an author of each format writes.
FormsOf == [hosts |-> {"blank", "hash", "sink", "sinktab", "address"},
            plain |-> {"blank", "hash", "name"},
            abp   |-> {"blank", "hash", "bang", "header", "anchor", "path",
                       "exception", "cosmetic"}]

TagType == [key : {"blank", "invert", "querytype", "reply", "unknown"},
            types : SUBSET (QType \cup {Nil}), negate : BOOLEAN,
            reply : Override \cup {Nil}]

ASSUME ParsingAssumption ==
    /\ Malformed \subseteq Name /\ Local \subseteq Name
    /\ QType # {} /\ SampleSize \in Nat \ {0}
    /\ Line \subseteq [form : Form, words : SUBSET Name, long : BOOLEAN]
    /\ Tag \subseteq TagType
    /\ MaxLines \in Nat /\ MaxTags \in Nat

VARIABLES
    format,   \* what the author of the list writes
    list,     \* the body of the list, line by line
    tags      \* the ;key=value tags of a filter whose pattern compiles

vars == <<format, list, tags>>

-----------------------------------------------------------------------------
(* DetectAndParse *)

Rules(body) == {i \in DOMAIN body : body[i].form \notin {"blank", "hash", "bang"}}

\* The sample is the whole list.
MutSample(body) == Rules(body)

Sample(body) ==
    {i \in Rules(body) : Cardinality({j \in Rules(body) : j < i}) < SampleSize}

\* A header, an exception, a cosmetic rule, another address, and an address
\* followed by a tab all count as plain.
Vote(line) ==
    CASE line.form \in {"anchor", "path"} -> "abp"
      [] line.form = "sink" -> "hosts"
      [] OTHER -> "plain"

Votes(body, f) == Cardinality({i \in Sample(body) : Vote(body[i]) = f})

Detected(body) ==
    LET abp == Votes(body, "abp")
        hosts == Votes(body, "hosts")
        plain == Votes(body, "plain")
    IN CASE abp >= hosts /\ abp >= plain /\ abp > 0 -> "abp"
         [] ~(abp >= hosts /\ abp >= plain /\ abp > 0) /\ hosts >= plain /\ hosts > 0 -> "hosts"
         [] OTHER -> "plain"

\* The scanner of a parser stops for good at a line it has no room for.
Readable(body) == {i \in DOMAIN body : \A j \in 1..i : ~body[j].long}

Words(body, forms) ==
    UNION {body[i].words : i \in {k \in Readable(body) : body[k].form \in forms}}

\* Validated and stored as they are written.
MutnormalizeDomain(words) == words \ Malformed
normalizeDomain(words) == {Normal[w] : w \in words \ Malformed}

ParseHosts(body) == normalizeDomain(Words(body, {"sink", "sinktab"})) \ Local

\* What is after # is cut off, so that a cosmetic rule leaves its name; words
\* with blanks, tabs, | or / in them are not valid.
ParsePlain(body) == normalizeDomain(Words(body, {"name", "cosmetic"}))

\* An exception is taken for a rule.
MutParseABP(body) == normalizeDomain(Words(body, {"anchor", "path", "exception"}))

\* A rule is cut at the first of ^ / * $, so that a path rule leaves its name.
ParseABP(body) == normalizeDomain(Words(body, {"anchor", "path"}))

DetectAndParse(body) ==
    CASE Detected(body) = "abp" -> ParseABP(body)
      [] Detected(body) = "hosts" -> ParseHosts(body)
      [] OTHER -> ParsePlain(body)

-----------------------------------------------------------------------------
(* ParseRegex *)

NoRule == [Pattern |-> {}, Invert |-> FALSE, Scoped |-> FALSE, QueryTypes |-> {},
           NegateQueryTypes |-> FALSE, Reply |-> Nil]
Compiled(rule) == [ok |-> TRUE, rule |-> rule]
Rejected == [ok |-> FALSE, rule |-> NoRule]

BadTag(tag) ==
    \/ tag.key = "unknown"
    \/ tag.key = "querytype" /\ Nil \in tag.types   \* a type nobody knows
    \/ tag.key = "reply" /\ tag.reply = Nil         \* no value

\* The types of all tags are collected.
MutScope(rule, tag) ==
    [rule EXCEPT !.Scoped = TRUE, !.QueryTypes = @ \cup tag.types,
                 !.NegateQueryTypes = tag.negate]
Scope(rule, tag) ==
    [rule EXCEPT !.Scoped = TRUE, !.QueryTypes = tag.types,
                 !.NegateQueryTypes = tag.negate]

Apply(rule, tag) ==
    CASE tag.key = "invert" -> [rule EXCEPT !.Invert = TRUE]
      [] tag.key = "querytype" -> Scope(rule, tag)
      [] tag.key = "reply" -> [rule EXCEPT !.Reply = tag.reply]
      [] OTHER -> rule

\* The loop over the tags; an error ends it.
ParseRegex(ts) ==
    LET after[n \in 0..Len(ts)] ==
            IF n = 0 THEN Compiled(NoRule)
            ELSE IF ~after[n - 1].ok \/ BadTag(ts[n]) THEN Rejected
            ELSE Compiled(Apply(after[n - 1].rule, ts[n]))
    IN after[Len(ts)]

-----------------------------------------------------------------------------
(* The inputs, one at a time: a list or a filter *)

Write(line) ==
    /\ tags = <<>> /\ Len(list) < MaxLines
    /\ line.form \in FormsOf[format]
    /\ list' = Append(list, line)
    /\ UNCHANGED <<format, tags>>

AddTag(tag) ==
    /\ list = <<>> /\ Len(tags) < MaxTags
    /\ tags' = Append(tags, tag)
    /\ UNCHANGED <<format, list>>

Init == format \in Format /\ list = <<>> /\ tags = <<>>

Next ==
    \/ \E line \in Line : Write(line)
    \/ \E tag \in Tag : AddTag(tag)

Spec == Init /\ [][Next]_vars

-----------------------------------------------------------------------------
(* Properties *)

\* Builder.Run stores the domains, LoadSnapshot reads them, Load compiles them.
GravityOf(body) ==
    [exactAllow |-> {}, exactDeny |-> [d \in DetectAndParse(body) |-> "gravity"],
     regexAllow |-> <<>>, regexDeny |-> <<>>]

Blocked(body, name) ==
    \E qtype \in QType : Evaluate(GravityOf(body), name, qtype).Blocked

\* The forms that name a domain to block in the author's format; path rules do
\* not, says parse.go:96.
RuleForms == [hosts |-> {"sink", "sinktab"}, plain |-> {"name"}, abp |-> {"anchor"}]

\* A list whose format is guessed right blocks every domain it names before the
\* first line that is too long, however list and query spell it (save local names).
ListedIsBlocked ==
    Detected(list) = format =>
        \A name \in Name :
            (\E w \in Words(list, RuleForms[format]) \ Malformed :
                Normal[w] = Normal[name] /\ Normal[w] \notin Local) => Blocked(list, name)

\* Whatever is guessed, a domain is blocked only because of a line that names it:
\* a rule, or the name a path rule or, guessed wrong, a cosmetic rule is about.  So
\* a hosts list that is guessed wrong blocks nothing.
NothingElseIsBlocked ==
    \A name \in Name : Blocked(list, name) =>
        \E i \in DOMAIN list, w \in Name :
            /\ w \in list[i].words /\ Normal[w] = Normal[name]
            /\ \/ list[i].form \in RuleForms[format] /\ Detected(list) = format
               \/ list[i].form = "path" /\ Detected(list) = "abp"
               \/ list[i].form = "cosmetic" /\ Detected(list) = "plain"

\* Once the sample is full, what follows changes neither the guess nor a domain
\* that was found, and adds its own at most: a body that is cut off (the 128 MiB of
\* Fetch, a line too long) loses domains, and only its last line can invent any.
LaterLinesOnlyAdd ==
    [][Cardinality(Rules(list)) >= SampleSize =>
        /\ Detected(list') = Detected(list)
        /\ DetectAndParse(list) \subseteq DetectAndParse(list')
        /\ DetectAndParse(list') \subseteq
               DetectAndParse(list) \cup normalizeDomain(list'[Len(list')].words)]_list

\* regex.go:55 - a filter is rejected for any tag that is wrong, inverted by any
\* ;invert, and scoped and answered as its last ;querytype= and ;reply= say.
LastOf(key) ==
    LET at == {i \in DOMAIN tags : tags[i].key = key}
    IN IF at = {} THEN 0 ELSE CHOOSE i \in at : \A j \in at : j <= i

FilterMeansItsTags ==
    LET parsed == ParseRegex(tags)
        scope == LastOf("querytype")
        reply == LastOf("reply")
    IN /\ parsed.ok <=> \A i \in DOMAIN tags : ~BadTag(tags[i])
       /\ parsed.ok =>
            /\ parsed.rule.Invert <=> LastOf("invert") > 0
            /\ \A t \in QType : InScope(parsed.rule, t) <=>
                   (scope > 0 => (t \in tags[scope].types) # tags[scope].negate)
            /\ parsed.rule.Reply = IF reply = 0 THEN Nil ELSE tags[reply].reply

\* parse.go:97 - path-based rules are skipped: out of scope for DNS blocking.
PathRulesAreSkipped ==
    \A name \in Name : Blocked(list, name) =>
        \E i \in DOMAIN list : \E w \in list[i].words :
            list[i].form # "path" /\ Normal[w] = Normal[name]
=============================================================================
