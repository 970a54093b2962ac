---------------------------- MODULE MCRuleReload ----------------------------
\* TLC instances of RuleReload: handlers are alike.
EXTENDS RuleReload, TLC

Symm == Permutations(Handler)
=============================================================================
