---------------------------- MODULE MCPlayerStats ----------------------------
(* PlayerStats for TLC: KDAs that tie with and without a death, that differ, *)
(* and that add up to something else than the mean of two games.             *)
EXTENDS PlayerStats

MCRow ==
    {[champion |-> c, ka |-> x[1], deaths |-> x[2], win |-> x[1] > x[2]] :
        c \in Champions, x \in {<<1, 0>>, <<1, 1>>, <<4, 1>>, <<1, 2>>}}
=============================================================================
