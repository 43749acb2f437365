---------------------------- MODULE MCRateLimiter ----------------------------
(* Two windows: a short one and a long one, as for a Riot development key. *)
EXTENDS RateLimiter, TLC

CONSTANTS c1, c2, c3, short, long

MCCallers == {c1, c2, c3}
MCWindows == {short, long}
MCLimit == (short :> 1) @@ (long :> 2)
MCPer == (short :> 1) @@ (long :> 3)

Symmetry == Permutations(Callers)
==============================================================================
