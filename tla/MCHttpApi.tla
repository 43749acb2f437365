------------------------------ MODULE MCHttpApi ------------------------------
EXTENDS HttpApi, TLC

CONSTANTS ann, bob, id, r1, r2, w1, w2

MCPlayers == {ann, bob}
MCNames == {id}
MCTwo == {r1, r2}
MCWorkers == {w1, w2}
MCNever == -1

Symmetry == Permutations(MCTwo) \cup Permutations(MCPlayers) \cup Permutations(MCWorkers)
==============================================================================
