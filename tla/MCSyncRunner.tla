---------------------------- MODULE MCSyncRunner -----------------------------
EXTENDS SyncRunner

CONSTANTS w1, w2, s1, s2, p

MCWorkers == {w1, w2}
MCSubmitters == {s1, s2}
MCPuuids == {p}
==============================================================================
