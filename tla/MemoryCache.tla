----------------------------- MODULE MemoryCache -----------------------------
(***************************************************************************)
(* internal/cache/memory.go: the response cache kept in the process.  An     *)
(* entry is reduced to the moment at which Riot gave the answer it holds.    *)
(* Every operation runs under the mutex and is one step.                     *)
(***************************************************************************)
EXTENDS Integers, FiniteSets

CONSTANTS
    Keys,         \* what can be asked of Riot
    MinSweepSize  \* size below which the map is never swept

ASSUME KeysAssumption == IsFiniteSet(Keys)
ASSUME MinSweepSizeAssumption == MinSweepSize \in Nat \ {0}

VARIABLES
    clock,     \* real time
    items,     \* Memory.items: a function on the keys present
    nextSweep  \* Memory.nextSweep: the size at which Set sweeps

cacheVars == <<items, nextSweep>>

Item == [asOf : Nat, expires : Nat]

Size == Cardinality(DOMAIN items)

CacheInit ==
    /\ clock = 0
    /\ items = [k \in {} |-> [asOf |-> 0, expires |-> 0]]
    /\ nextSweep = MinSweepSize

\* An entry that is served in the instant in which it expires.
LiveBug(k) == k \in DOMAIN items /\ items[k].expires >= clock

\* Get finds an entry that has not expired.
Live(k) == k \in DOMAIN items /\ items[k].expires > clock

\* sweep: what is left
Swept == [k \in {l \in DOMAIN items : Live(l)} |-> items[k]]

\* sweep: the size at which the next one happens
NextSweep ==
    LET next == 2 * Cardinality(DOMAIN Swept)
    IN  IF next > MinSweepSize THEN next ELSE MinSweepSize

With(f, k, item) == [l \in DOMAIN f \cup {k} |-> IF l = k THEN item ELSE f[l]]

\* Swept once and never again: the threshold is not set anew.
SetBug(k, asOf, ttl) ==
    LET item == [asOf |-> asOf, expires |-> clock + ttl]
    IN  /\ items' = With(IF Size = nextSweep THEN Swept ELSE items, k, item)
        /\ UNCHANGED nextSweep

\* Set, for a ttl above zero (Set ignores the others, and so does its caller).
Set(k, asOf, ttl) ==
    LET item == [asOf |-> asOf, expires |-> clock + ttl]
    IN  IF Size >= nextSweep
        THEN items' = With(Swept, k, item) /\ nextSweep' = NextSweep
        ELSE items' = With(items, k, item) /\ UNCHANGED nextSweep

-----------------------------------------------------------------------------

\* The map never grows beyond the size at which it is swept, so that it holds
\* at most twice what was alive at the last sweep, whatever the keys and the
\* times to live: entries that nobody asks for again do not pile up.
SizeBounded == Size <= nextSweep
==============================================================================
