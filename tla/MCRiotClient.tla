---------------------------- MODULE MCRiotClient -----------------------------
EXTENDS RiotClient, TLC

CONSTANTS c1, c2, account, league, match

MCCallers == {c1, c2}
MCKeys == {account, league, match}
\* An account is cached for long, league entries briefly, a match not at all.
MCTtl == (account :> 2) @@ (league :> 1) @@ (match :> 0)
==============================================================================
