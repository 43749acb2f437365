---------------------------- MODULE MCSyncTicker -----------------------------
EXTENDS SyncTicker

CONSTANTS w1, w2, h, t, p, q

MCWorkers == {w1, w2}
MCSubmitters == {h, t}
MCPuuids == {p, q}
==============================================================================
