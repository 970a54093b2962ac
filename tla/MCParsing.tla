------------------------------ MODULE MCParsing ------------------------------
\* TLC instance of Parsing: two domains, one of them in two spellings, a local
\* name and a malformed one, on lines of every form.
EXTENDS Parsing

CONSTANTS ads, ADS, site, local, junk, A, AAAA

MCNormal == [n \in Name |-> IF n = ADS THEN ads ELSE n]

Short(form, words) == [form |-> form, words |-> words, long |-> FALSE]
MCLine ==
    {Short(f, {}) : f \in {"hash", "bang", "header"}} \cup
    {Short("sink", w) : w \in {{ADS}, {site, junk}, {local}}} \cup
    {Short("sinktab", {ads}), Short("address", {site})} \cup
    {Short("name", {w}) : w \in {ads, ADS, site, junk}} \cup
    {Short("anchor", {w}) : w \in {ads, ADS}} \cup
    {Short(f, {site}) : f \in {"path", "exception", "cosmetic"}} \cup
    {Short("cosmetic", {junk})} \cup
    {[form |-> f, words |-> {site}, long |-> TRUE] : f \in {"sink", "name", "anchor"}}

Plain(key) == [key |-> key, types |-> {}, negate |-> FALSE, reply |-> Nil]
MCTag ==
    {Plain(k) : k \in {"blank", "invert", "unknown", "reply"}} \cup
    {[Plain("querytype") EXCEPT !.types = ts, !.negate = n] :
        ts \in {{A}, {AAAA}, {A, Nil}}, n \in BOOLEAN} \cup
    {[Plain("reply") EXCEPT !.reply = r] : r \in {"nxdomain", "badip"}}
=============================================================================
