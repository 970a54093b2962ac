---------------------------- MODULE MCQueryReads ----------------------------
\* TLC instance of QueryReads: buffer and batch small enough to fill, more events
\* than both hold together, of both outcomes and of four query types, two of them
\* without a name.
EXTENDS QueryReads

MCIsBlocked == {e \in Event : e % 3 = 1}
MCQTypeOf == [e \in Event |-> CASE e = 1 -> "A" [] e = 2 -> "NAPTR" [] e = 3 -> "CAA" [] OTHER -> "AAAA"]
MCFilter == {Event, MCIsBlocked}
=============================================================================
