---------------------------- MODULE MCDeployment ----------------------------
\* TLC instance of Deployment: a service with servers of its own, and one without.
EXTENDS Deployment

MCService == {"wifi", "lan"}
MCOriginal == [s \in Service |-> IF s = "wifi" THEN "manual" ELSE "dhcp"]

\* One script with an icon, or two without; three, for an installation that is repeated
\* and removed.
MCBudget == {<<1, TRUE>>, <<2, FALSE>>}
MCScripts == {<<3, FALSE>>}
=============================================================================
