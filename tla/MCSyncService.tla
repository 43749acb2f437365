---------------------------- MODULE MCSyncService ----------------------------
EXTENDS SyncService, TLC

CONSTANTS p, q, j1, j2

MCPuuids == {p, q}
MCJobs == {j1, j2}
MCMatches == 1..2
\* One match both play and one of p alone.
MCParticipants == (1 :> {p, q}) @@ (2 :> {p})
==============================================================================
