----------------------------- MODULE PlayerStats -----------------------------
(***************************************************************************)
(* GET /summoners/{puuid}/stats: the handler getStats, the query of the     *)
(* period and domain.AggregateStats.  Its table of champions is a Go map,   *)
(* walked in an order that differs from call to call, and slices.SortFunc   *)
(* is not stable.  Kills and assists are only ever added up and divided, so *)
(* they are one number here, and a ratio is the pair of its integers.       *)
(***************************************************************************)
EXTENDS Integers, Sequences, FiniteSets, FiniteSetsExt, SequencesExt

CONSTANTS
    Champions,      \* 1..n, in the order of their names
    Row,            \* the results of a game that occur
    Games,          \* bound: rows of the player, one for each day back
    DefaultPeriod,  \* defaultPeriodDays
    MaxPeriod,      \* maxPeriodDays
    TopCount,       \* topChampionCount
    None            \* no period given, no answer

ASSUME StatsAssumption ==
    /\ Champions \subseteq Nat /\ Games \in Nat
    /\ Row \subseteq [champion : Champions, ka : Nat, deaths : Nat, win : BOOLEAN]
    /\ DefaultPeriod \in 1..MaxPeriod /\ MaxPeriod \in Nat /\ TopCount \in Nat \ {0}
ASSUME NoneAssumption == None \notin Nat \cup {"ok"}

VARIABLES
    tracked, rows, period,   \* input: is there a summoner, its rows, ?period=
    pc, answer,
    left,                    \* the rows of the period that are still to be added
    total, byChampion,       \* the sums, over all rows and for each champion
    top                      \* the slice champions

input == <<tracked, rows, period>>
vars == <<input, pc, answer, left, total, byChampion, top>>

Zero == [games |-> 0, wins |-> 0, ka |-> 0, deaths |-> 0]

\* rows[i] was played i - 1 days and some hours ago.
Init ==
    /\ tracked \in BOOLEAN /\ rows \in [1..Games -> Row]
    /\ period \in {None} \cup 0..(MaxPeriod + 1)
    /\ pc = "parse" /\ answer = None
    /\ left = {} /\ total = Zero /\ byChampion = <<>> /\ top = <<>>

Days == IF period = None THEN DefaultPeriod ELSE period

Respond(code) == pc' = "answered" /\ answer' = code

\* parsePeriod, and the summoner must be known.
ParsePeriod ==
    /\ pc = "parse"
    /\ IF Days \notin 1..MaxPeriod THEN Respond("invalid_period")
       ELSE IF ~tracked THEN Respond("summoner_not_found")
       ELSE pc' = "query" /\ UNCHANGED answer
    /\ UNCHANGED <<input, left, total, byChampion, top>>

\* Either query may fail, that of ByPUUID with the same answer.
StorageFails ==
    /\ pc = "query" /\ Respond("internal_error")
    /\ UNCHANGED <<input, left, total, byChampion, top>>

\* WHERE game_creation >= since
ParticipationsSince ==
    /\ pc = "query"
    /\ left' = {i \in DOMAIN rows : i - 1 < Days}
    /\ pc' = "add"
    /\ UNCHANGED <<input, answer, total, byChampion, top>>

Plus(t, r) ==
    [games |-> t.games + 1, wins |-> t.wins + (IF r.win THEN 1 ELSE 0),
     ka |-> t.ka + r.ka, deaths |-> t.deaths + r.deaths]

\* Mutant: the champion's first game only opens its entry in the map.
TotalsSkipped(c, r) ==
    IF c \in DOMAIN byChampion THEN Plus(byChampion[c], r) ELSE Zero

\* The entry of champion c after row r.
Totals(c, r) ==
    Plus(IF c \in DOMAIN byChampion THEN byChampion[c] ELSE Zero, r)

\* One turn of the loop over the participations, newest first.
AddRow ==
    /\ pc = "add" /\ left # {}
    /\ LET i == Min(left)
           c == rows[i].champion
       IN /\ left' = left \ {i}
          /\ total' = Plus(total, rows[i])
          /\ byChampion' = [d \in DOMAIN byChampion \cup {c} |->
                 IF d = c THEN Totals(c, rows[i]) ELSE byChampion[d]]
    /\ UNCHANGED <<input, pc, answer, top>>

\* aggregateKDA: without deaths, the kills and assists themselves.
KDA(t) == <<t.ka, Max({t.deaths, 1})>>
Higher(x, y) == x[1] * y[2] > y[1] * x[2]

\* Mutant: a tie of games and KDA is left to the order of the map.
BeforeTied(a, b) ==
    LET s == byChampion[a]  t == byChampion[b] IN
    \/ s.games > t.games
    \/ s.games = t.games /\ Higher(KDA(s), KDA(t))

\* The function given to slices.SortFunc: is champion a put before b?
Before(a, b) ==
    LET s == byChampion[a]  t == byChampion[b] IN
    \/ s.games > t.games
    \/ s.games = t.games /\ Higher(KDA(s), KDA(t))
    \/ s.games = t.games /\ ~Higher(KDA(s), KDA(t)) /\ ~Higher(KDA(t), KDA(s)) /\ a < b

\* The map is walked in any order, and the sort leaves any order in which no
\* champion stands behind one it goes before; then the slice is cut.
Sorted(C) ==
    {s \in SetToSeqs(C) : \A i, j \in DOMAIN s : i < j => ~Before(s[j], s[i])}
SortAndCut ==
    /\ pc = "add" /\ left = {}
    /\ \E s \in Sorted(DOMAIN byChampion) : top' = SubSeq(s, 1, Min({TopCount, Len(s)}))
    /\ Respond("ok")
    /\ UNCHANGED <<input, left, total, byChampion>>

Next == ParsePeriod \/ StorageFails \/ ParticipationsSince \/ AddRow \/ SortAndCut

Spec == Init /\ [][Next]_vars

-----------------------------------------------------------------------------
(* Properties. *)

\* The games of the period, of one champion or of all.
Played(C) == {i \in DOMAIN rows : i <= Days /\ rows[i].champion \in C}

\* What happened in the games S: each kill, assist and death is one thing.
Wins(S) == {i \in S : rows[i].win}
Kills(S) == UNION {{i} \X (1..rows[i].ka) : i \in S}
Deaths(S) == UNION {{i} \X (1..rows[i].deaths) : i \in S}
Summary(S) ==
    [games |-> Cardinality(S), wins |-> Cardinality(Wins(S)),
     ka |-> Cardinality(Kills(S)), deaths |-> Cardinality(Deaths(S))]

\* An answer holds the sums over exactly the games of the period, and for each
\* champion it names the sums over its own games: no average of averages.
StatsMatchReference ==
    answer = "ok" =>
        /\ Days \in 1..MaxPeriod
        /\ total = Summary(Played(Champions))
        /\ \A c \in Range(top) : byChampion[c] = Summary(Played({c}))

\* The order of the answer follows from the games alone, however the map is
\* walked and the slice sorted: at each place stands the champion that as many
\* champions as the place says have beaten, by games, then by KDA, then by name.
Beats(a, b) ==
    LET s == Summary(Played({a}))  t == Summary(Played({b}))
        x == s.ka * Max({t.deaths, 1})
        y == t.ka * Max({s.deaths, 1})
    IN \/ s.games > t.games
       \/ s.games = t.games /\ (x > y \/ (x = y /\ a < b))
TopDetermined ==
    answer = "ok" =>
        LET present == {c \in Champions : Played({c}) # {}} IN
        /\ Len(top) = Min({TopCount, Cardinality(present)})
        /\ \A p \in DOMAIN top :
              top[p] \in present /\ Cardinality({c \in present : Beats(c, top[p])}) = p - 1
=============================================================================
