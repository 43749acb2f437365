---------------------------- MODULE MCSyncServer -----------------------------
EXTENDS SyncServer

CONSTANTS w1, w2, h, t, p

MCWorkers == {w1, w2}
MCSubmitters == {h, t}
MCPuuids == {p}
==============================================================================
