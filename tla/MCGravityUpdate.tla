--------------------------- MODULE MCGravityUpdate ---------------------------
\* TLC instances of GravityUpdate: two addresses with two versions each, one of
\* them empty, so that storing the domains of a deleted list can also succeed.
EXTENDS GravityUpdate, TLC

CONSTANTS u1, u2, a1, a2, b1

MCAddress == {u1, u2}
MCDomain == {a1, a2, b1}
MCCorpus == (u1 :> <<{a1}, {a2}>>) @@ (u2 :> <<{b1}, {}>>)
Symm == Permutations(Updater)

\* One address: what two builders do to the same list.
MCAddressOne == {u1}
MCCorpusOne == u1 :> <<{a1, b1}, {a2, b1}>>
=============================================================================
