---------------------------- MODULE MCLimiterSends ----------------------------
(* One window is enough for requests to bunch. *)
EXTENDS LimiterSends, TLC

CONSTANTS c1, c2, c3, window

MCCallers == {c1, c2, c3}
MCWindows == {window}
MCLimit == window :> 2
MCPer == window :> 3

Symmetry == Permutations(Callers)
==============================================================================
