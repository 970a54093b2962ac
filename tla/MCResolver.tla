------------------------------ MODULE MCResolver -----------------------------
\* TLC instances of Resolver: a name and a capitalised spelling of it, and
\* snapshots in which it is denied, allowed and overridden in every way.
EXTENDS Resolver, TLC

CONSTANTS site, Site

MCNormal == site :> site @@ Site :> site
MCUpstreams == <<"u1", "u2">>

Regex(pattern, override) ==
    [Pattern |-> pattern, Invert |-> FALSE, Scoped |-> FALSE, QueryTypes |-> {},
     NegateQueryTypes |-> FALSE, Reply |-> override]
Scoped(rule, types, negate) ==
    [rule EXCEPT !.Scoped = TRUE, !.QueryTypes = types, !.NegateQueryTypes = negate]
Inverted(rule) == [rule EXCEPT !.Invert = TRUE]

Snap(allow, deny, regexAllow, regexDeny) ==
    [exactAllow |-> allow, exactDeny |-> deny,
     regexAllow |-> regexAllow, regexDeny |-> regexDeny]
NoDeny == [d \in {} |-> Nil]

\* The last one answers A queries with an address that is none.
MCSnapshots ==
    {Snap({site}, site :> "gravity", <<>>, <<>>),
     Snap({}, site :> "gravity", <<Scoped(Regex({site}, Nil), {"A"}, FALSE)>>, <<>>),
     Snap({}, site :> "manual", <<>>, <<Regex({site}, "none")>>),
     Snap({}, NoDeny, <<Inverted(Regex({site}, Nil))>>, <<Inverted(Regex({}, "none"))>>),
     Snap({}, NoDeny, <<>>,
          <<Scoped(Regex({site}, "ipv4"), {"A"}, TRUE), Regex({site}, "badip")>>)}
=============================================================================
