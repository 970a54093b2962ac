----------------------------- MODULE MCBedtime -----------------------------
\* TLC instances of Bedtime: three ticks to a second, so that a pause starts at
\* any fraction of one, and a duration of 32 values that whole seconds overflow.
EXTENDS Bedtime, TLC

Symm == Permutations(Caller)
=============================================================================
