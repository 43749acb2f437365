------------------------------- MODULE JobPool -------------------------------
(***************************************************************************)
(* What syncer.Runner promises its callers, without channels or goroutines: *)
(* accepted jobs start in the order they were accepted, each once, at most  *)
(* Capacity of them wait and at most Slots of them run; once the pool is    *)
(* closed, no more than Slots further jobs start.                           *)
(***************************************************************************)
EXTENDS Naturals, FiniteSets

CONSTANTS Capacity, Slots

VARIABLES
    accepted,   \* jobs accepted so far; job n is the n-th of them
    started,    \* jobs 1..started have started
    ended,      \* the jobs that have ended
    closed,     \* no longer meant to start anything
    startedLate \* jobs started since it was closed

poolVars == <<accepted, started, ended, closed, startedLate>>

Init ==
    /\ accepted = 0 /\ started = 0 /\ ended = {}
    /\ closed = FALSE /\ startedLate = 0

Accept ==
    /\ accepted - started < Capacity
    /\ accepted' = accepted + 1
    /\ UNCHANGED <<started, ended, closed, startedLate>>

Start ==
    /\ started < accepted
    /\ started - Cardinality(ended) < Slots
    /\ closed => startedLate < Slots
    /\ started' = started + 1
    /\ startedLate' = IF closed THEN startedLate + 1 ELSE startedLate
    /\ UNCHANGED <<accepted, ended, closed>>

End(n) ==
    /\ n \in (1..started) \ ended
    /\ ended' = ended \cup {n}
    /\ UNCHANGED <<accepted, started, closed, startedLate>>

Close ==
    /\ ~closed
    /\ closed' = TRUE
    /\ UNCHANGED <<accepted, started, ended, startedLate>>

Next == Accept \/ Start \/ Close \/ \E n \in 1..started : End(n)

Spec == Init /\ [][Next]_poolVars
==============================================================================
