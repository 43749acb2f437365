-------------------------- MODULE PlayerStatsProofs --------------------------
(***************************************************************************)
(* Proofs about getStats and AggregateStats, for any rows, champions,       *)
(* period and length of the list: the sums are those of the games of the    *)
(* period, and the comparison orders the champions in one way only.         *)
(***************************************************************************)
EXTENDS PlayerStats, TLAPS, FiniteSetTheorems, WellFoundedInduction

-----------------------------------------------------------------------------
(* Sums. A game more adds what happened in it, and nothing else. *)

Things(f, S) == UNION {{i} \X (1..f[i]) : i \in S}

LEMMA ThingsFinite ==
    ASSUME NEW f, NEW S, IsFiniteSet(S), \A i \in S : f[i] \in Nat
    PROVE  IsFiniteSet(Things(f, S))
<1> DEFINE g == [i \in S |-> {i} \X (1..f[i])]
           T == {{i} \X (1..f[i]) : i \in S}
<1>1. g \in Surjection(S, T)
  <2>1. g \in [S -> T]
    OBVIOUS
  <2>2. \A t \in T : \E i \in S : g[i] = t
    OBVIOUS
  <2> QED BY <2>1, <2>2, Zenon DEF Surjection
<1>2. IsFiniteSet(T)
  <2> HIDE DEF g, T
  <2> QED BY <1>1, FS_Surjection
<1>3. \A i \in S : IsFiniteSet({i} \X (1..f[i]))
  <2> TAKE i \in S
  <2>1. IsFiniteSet({i})
    BY FS_Singleton
  <2>2. IsFiniteSet(1..f[i])
    BY FS_Interval
  <2> QED BY <2>1, <2>2, FS_Product
<1>4. \A U \in T : IsFiniteSet(U)
  BY <1>3
<1> HIDE DEF T
<1>5. IsFiniteSet(UNION T)
  BY <1>2, <1>4, FS_UNION
<1> QED BY <1>5 DEF T, Things

LEMMA ThingsAdd ==
    ASSUME NEW f, NEW S, IsFiniteSet(S), \A j \in S : f[j] \in Nat,
           NEW i, i \notin S, f[i] \in Nat
    PROVE  Cardinality(Things(f, S \cup {i})) = Cardinality(Things(f, S)) + f[i]
<1> DEFINE New == {i} \X (1..f[i])
           Old == Things(f, S)
<1>1. Things(f, S \cup {i}) = Old \cup New
  BY DEF Things
<1>2. Old \cap New = {}
  BY DEF Things
<1>3. IsFiniteSet(New) /\ Cardinality(New) = f[i]
  <2>1. IsFiniteSet({i}) /\ Cardinality({i}) = 1
    BY FS_Singleton
  <2>2. IsFiniteSet(1..f[i]) /\ Cardinality(1..f[i]) = f[i]
    BY FS_Interval
  <2>3. IsFiniteSet(New) /\ Cardinality(New) = Cardinality({i}) * Cardinality(1..f[i])
    BY <2>1, <2>2, FS_Product
  <2> HIDE DEF New
  <2> QED BY <2>1, <2>2, <2>3
<1>4. IsFiniteSet(Old)
  BY ThingsFinite
<1> HIDE DEF New, Old
<1>5. Cardinality(Old \cup New) = Cardinality(Old) + Cardinality(New) - Cardinality({})
  BY <1>2, <1>3, <1>4, FS_Union
<1>6. Cardinality({}) = 0 /\ Cardinality(Old) \in Nat
  BY <1>4, FS_EmptySet, FS_CardinalityType
<1>7. Cardinality(Old \cup New) = Cardinality(Old) + f[i]
  BY <1>3, <1>5, <1>6
<1> QED BY <1>1, <1>7 DEF Old

RowsTyped == rows \in [1..Games -> Row]

LEMMA RowFields ==
    ASSUME RowsTyped, NEW i \in DOMAIN rows
    PROVE  /\ i \in Nat /\ rows[i].champion \in Champions /\ rows[i].win \in BOOLEAN
           /\ rows[i].ka \in Nat /\ rows[i].deaths \in Nat
<1>1. rows[i] \in Row /\ i \in Nat
  BY DEF RowsTyped
<1> QED BY <1>1, StatsAssumption

Sum == [games : Nat, wins : Nat, ka : Nat, deaths : Nat]

LEMMA SummaryType ==
    ASSUME RowsTyped, NEW S, S \subseteq DOMAIN rows
    PROVE  IsFiniteSet(S) /\ Summary(S) \in Sum
<1>1. IsFiniteSet(S)
  <2>1. IsFiniteSet(1..Games)
    BY StatsAssumption, FS_Interval
  <2> QED BY <2>1, FS_Subset DEF RowsTyped
<1> DEFINE ka == [i \in S |-> rows[i].ka]
           deaths == [i \in S |-> rows[i].deaths]
<1>2. IsFiniteSet(Things(ka, S)) /\ IsFiniteSet(Things(deaths, S))
  BY <1>1, RowFields, ThingsFinite
<1>3. Kills(S) = Things(ka, S) /\ Deaths(S) = Things(deaths, S)
  BY DEF Kills, Deaths, Things
<1> HIDE DEF ka, deaths
<1>4. IsFiniteSet(Wins(S))
  BY <1>1, FS_Subset DEF Wins
<1>5. /\ Cardinality(S) \in Nat /\ Cardinality(Wins(S)) \in Nat
      /\ Cardinality(Kills(S)) \in Nat /\ Cardinality(Deaths(S)) \in Nat
  BY <1>1, <1>2, <1>3, <1>4, FS_CardinalityType
<1> QED BY <1>1, <1>5 DEF Summary, Sum

LEMMA SummaryEmpty == Summary({}) = Zero
<1>1. Wins({}) = {} /\ Kills({}) = {} /\ Deaths({}) = {}
  BY DEF Wins, Kills, Deaths
<1> QED BY <1>1, FS_EmptySet DEF Summary, Zero

LEMMA SummaryAdd ==
    ASSUME RowsTyped, NEW S, S \subseteq DOMAIN rows, NEW i \in DOMAIN rows, i \notin S
    PROVE  Summary(S \cup {i}) = Plus(Summary(S), rows[i])
<1> DEFINE T == S \cup {i}
           ka == [j \in T |-> rows[j].ka]
           deaths == [j \in T |-> rows[j].deaths]
<1>1. IsFiniteSet(S)
  BY SummaryType
<1>2. Cardinality(T) = Cardinality(S) + 1
  BY <1>1, FS_AddElement
<1>3. Cardinality(Wins(T)) = Cardinality(Wins(S)) + (IF rows[i].win THEN 1 ELSE 0)
  <2>1. IsFiniteSet(Wins(S)) /\ i \notin Wins(S) /\ Cardinality(Wins(S)) \in Nat
    BY <1>1, FS_Subset, FS_CardinalityType DEF Wins
  <2>2. CASE rows[i].win
    <3>1. Wins(T) = Wins(S) \cup {i}
      BY <2>2 DEF Wins
    <3> QED BY <2>1, <2>2, <3>1, FS_AddElement
  <2>3. CASE ~rows[i].win
    <3>1. Wins(T) = Wins(S)
      BY <2>3 DEF Wins
    <3> QED BY <2>1, <2>3, <3>1
  <2> QED BY <2>2, <2>3
<1>4. \A j \in T : ka[j] \in Nat /\ deaths[j] \in Nat
  BY RowFields
<1>5. /\ Cardinality(Things(ka, T)) = Cardinality(Things(ka, S)) + ka[i]
      /\ Cardinality(Things(deaths, T)) = Cardinality(Things(deaths, S)) + deaths[i]
  <2> HIDE DEF ka, deaths
  <2> QED BY <1>1, <1>4, ThingsAdd
<1>6. /\ Kills(S) = Things(ka, S) /\ Kills(T) = Things(ka, T)
      /\ Deaths(S) = Things(deaths, S) /\ Deaths(T) = Things(deaths, T)
  BY DEF Kills, Deaths, Things
<1>7. ka[i] = rows[i].ka /\ deaths[i] = rows[i].deaths
  OBVIOUS
<1> HIDE DEF T, ka, deaths
<1>8. Summary(T) = Plus(Summary(S), rows[i])
  BY <1>2, <1>3, <1>5, <1>6, <1>7 DEF Summary, Plus
<1> QED BY <1>8 DEF T

-----------------------------------------------------------------------------
(* The loop. What is in the sums is what is no longer left.                  *)

LEMMA LeastRow ==
    ASSUME RowsTyped, NEW S, S \subseteq DOMAIN rows, S # {}
    PROVE  Min(S) \in S
<1> DEFINE R == OpToRel(<, Nat)
<1>1. S \subseteq Nat
  BY DEF RowsTyped
<1>2. PICK k \in S : \A j \in S : <<j, k>> \notin R
  <2>1. IsWellFoundedOn(R, Nat)
    BY NatLessThanWellFounded
  <2> HIDE DEF R
  <2> QED BY <1>1, <2>1, WFMin
<1>3. \A j \in S : k <= j
  <2> TAKE j \in S
  <2>1. j \in Nat /\ k \in Nat /\ ~(j < k)
    BY <1>1, <1>2 DEF OpToRel
  <2> QED BY <2>1
<1> QED BY <1>2, <1>3 DEF Min

Added(C) == Played(C) \ left

SumsRight ==
    /\ Days \in 1..MaxPeriod
    /\ left \subseteq Played(Champions)
    /\ total = Summary(Added(Champions))
    /\ byChampion = [c \in {d \in Champions : Added({d}) # {}} |-> Summary(Added({c}))]

Ranked == \E s \in Sorted(DOMAIN byChampion) : top = SubSeq(s, 1, Min({TopCount, Len(s)}))

StatsInv ==
    /\ RowsTyped /\ Days \in Int
    /\ pc \in {"parse", "query", "add", "answered"}
    /\ pc \in {"parse", "query"} => left = {} /\ total = Zero /\ byChampion = <<>>
    /\ pc \in {"query", "add"} => Days \in 1..MaxPeriod
    /\ pc = "add" => SumsRight
    /\ answer = "ok" => pc = "answered" /\ SumsRight /\ left = {} /\ Ranked

LEMMA PlayedRows ==
    ASSUME NEW C
    PROVE  Played(C) \subseteq DOMAIN rows
  BY DEF Played

LEMMA StatsInit == Init => StatsInv
<1> SUFFICES ASSUME Init
             PROVE  StatsInv
  OBVIOUS
<1>1. Days \in Int
  BY StatsAssumption DEF Init, Days
<1> QED BY <1>1, NoneAssumption DEF Init, StatsInv, RowsTyped

\* Before the loop, all rows of the period are left and nothing is added up.
LEMMA QueryStep ==
    ASSUME StatsInv, ParticipationsSince
    PROVE  SumsRight'
<1>1. /\ pc = "query" /\ total = Zero /\ byChampion = <<>> /\ Days \in 1..MaxPeriod
      /\ UNCHANGED <<rows, period, total, byChampion>> /\ RowsTyped
      /\ left' = {i \in DOMAIN rows : i - 1 < Days}
  BY DEF ParticipationsSince, StatsInv, input
<1>2. Days' = Days
  BY <1>1 DEF Days
<1>3. \A C : Played(C)' = Played(C)
  BY <1>1, <1>2 DEF Played
<1>4. left' = Played(Champions)
  <2>1. \A i \in DOMAIN rows : (i - 1 < Days <=> i <= Days) /\ rows[i].champion \in Champions
    <3> TAKE i \in DOMAIN rows
    <3>1. i \in Int /\ Days \in Int /\ rows[i].champion \in Champions
      BY <1>1, RowFields
    <3> QED BY <3>1
  <2> QED BY <1>1, <2>1 DEF Played
<1>5. \A C \in SUBSET Champions : Added(C)' = {}
  BY <1>3, <1>4 DEF Added, Played
<1>6. Added(Champions)' = {} /\ \A d \in Champions : Added({d})' = {}
  BY <1>5
<1>7. total' = Summary({})'
  <2>1. Summary({})' = Zero
    <3>1. Wins({})' = {} /\ Kills({})' = {} /\ Deaths({})' = {}
      BY DEF Wins, Kills, Deaths
    <3> QED BY <3>1, FS_EmptySet DEF Summary, Zero
  <2> QED BY <1>1, <2>1
<1>8. byChampion' = [c \in {d \in Champions : Added({d})' # {}} |-> Summary(Added({c}))']
  <2>1. {d \in Champions : Added({d})' # {}} = {}
    BY <1>6
  <2> QED BY <1>1, <2>1
<1> QED BY <1>1, <1>2, <1>3, <1>4, <1>6, <1>7, <1>8 DEF SumsRight

\* A turn of the loop.
LEMMA AddStep ==
    ASSUME StatsInv, AddRow
    PROVE  SumsRight'
<1>1. /\ pc = "add" /\ left # {} /\ SumsRight /\ RowsTyped
      /\ UNCHANGED <<rows, period>>
  BY DEF AddRow, StatsInv, input
<1>2. PICK i \in DOMAIN rows, c \in Champions : i = Min(left) /\ i \in left /\ c = rows[i].champion
  <2>1. left \subseteq DOMAIN rows
    BY <1>1, PlayedRows DEF SumsRight
  <2>2. Min(left) \in left
    BY <1>1, <2>1, LeastRow
  <2> QED BY <1>1, <2>1, <2>2, RowFields
<1> DEFINE r == rows[i]
<1>3. /\ left' = left \ {i} /\ total' = Plus(total, r)
      /\ byChampion' = [d \in DOMAIN byChampion \cup {c} |->
             IF d = c THEN Totals(c, r) ELSE byChampion[d]]
  BY <1>2 DEF AddRow
<1>4. Days' = Days /\ (\A C : Played(C)' = Played(C)) /\ (\A S : Summary(S)' = Summary(S))
  BY <1>1 DEF Days, Played, Summary, Wins, Kills, Deaths
<1>5. i \in Played(Champions) /\ \A d : i \in Played({d}) <=> d = c
  BY <1>1, <1>2 DEF SumsRight, Played
<1>6. /\ Added(Champions)' = Added(Champions) \cup {i}
      /\ Added({c})' = Added({c}) \cup {i}
      /\ \A d : d # c => Added({d})' = Added({d})
  <2>1. \A C : Added(C)' = Played(C) \ (left \ {i})
    BY <1>3, <1>4 DEF Added
  <2> HIDE DEF r
  <2>2. \A C : i \in Played(C) => Added(C)' = Added(C) \cup {i}
    BY <1>2, <2>1 DEF Added
  <2>3. \A C : i \notin Played(C) => Added(C)' = Added(C)
    BY <1>2, <2>1 DEF Added
  <2> QED BY <1>5, <2>2, <2>3
<1>7. \A C : Added(C) \subseteq DOMAIN rows /\ i \notin Added(C)
  BY <1>2, PlayedRows DEF Added
<1>8. total' = Summary(Added(Champions))'
  <2>1. total = Summary(Added(Champions))
    BY <1>1 DEF SumsRight
  <2>2. Summary(Added(Champions) \cup {i}) = Plus(Summary(Added(Champions)), r)
    BY <1>1, <1>2, <1>7, SummaryAdd
  <2>3. Summary(Added(Champions))' = Summary(Added(Champions) \cup {i})
    BY <1>1, <1>6 DEF Summary, Wins, Kills, Deaths
  <2> QED BY <1>3, <2>1, <2>2, <2>3
<1>9. byChampion' = [d \in {e \in Champions : Added({e})' # {}} |-> Summary(Added({d}))']
  <2> DEFINE D == {e \in Champions : Added({e}) # {}}
             Entry(d) == IF d = c THEN Totals(c, r) ELSE byChampion[d]
  <2>1. byChampion = [d \in D |-> Summary(Added({d}))]
    BY <1>1 DEF SumsRight
  <2>2. Totals(c, r) = Summary(Added({c}) \cup {i})
    <3>1. Summary(Added({c}) \cup {i}) = Plus(Summary(Added({c})), r)
      BY <1>1, <1>2, <1>7, SummaryAdd
    <3>2. CASE c \in D
      <4> HIDE DEF D
      <4> QED BY <2>1, <3>1, <3>2 DEF Totals
    <3>3. CASE c \notin D
      <4>1. Added({c}) = {}
        BY <1>2, <3>3
      <4> HIDE DEF D
      <4> QED BY <2>1, <3>1, <3>3, <4>1, SummaryEmpty DEF Totals
    <3> QED BY <3>2, <3>3
  <2>3. {e \in Champions : Added({e})' # {}} = D \cup {c}
    <3>1. \A e \in Champions : Added({e})' # {} <=> e \in D \cup {c}
      <4> TAKE e \in Champions
      <4>1. CASE e = c
        BY <1>6, <4>1
      <4>2. CASE e # c
        BY <1>6, <4>2
      <4> QED BY <4>1, <4>2
    <3> QED BY <1>2, <3>1
  <2>4. \A d \in D \cup {c} : Summary(Added({d}))' = Entry(d)
    <3> TAKE d \in D \cup {c}
    <3>1. CASE d = c
      <4>1. Summary(Added({c}))' = Summary(Added({c}) \cup {i})
        BY <1>1, <1>6 DEF Summary, Wins, Kills, Deaths
      <4> QED BY <2>2, <3>1, <4>1
    <3>2. CASE d # c
      <4>1. Summary(Added({d}))' = Summary(Added({d}))
        <5>1. Added({d})' = Added({d}) /\ rows' = rows
          BY <1>1, <1>6, <3>2
        <5> QED BY <5>1 DEF Summary, Wins, Kills, Deaths
      <4>2. d \in D
        BY <3>2
      <4> HIDE DEF D
      <4> QED BY <2>1, <3>2, <4>1, <4>2
    <3> QED BY <3>1, <3>2
  <2>5. DOMAIN byChampion = D
    <3> HIDE DEF D
    <3> QED BY <2>1
  <2>6. byChampion' = [d \in D \cup {c} |-> Entry(d)]
    BY <1>3, <2>5
  <2> HIDE DEF D, Entry, r
  <2> QED BY <2>3, <2>4, <2>6
<1>10. left' \subseteq Played(Champions)'
  BY <1>1, <1>3, <1>4 DEF SumsRight
<1>11. Days' \in 1..MaxPeriod
  BY <1>1, <1>4 DEF SumsRight
<1> QED BY <1>8, <1>9, <1>10, <1>11 DEF SumsRight

LEMMA StatsStep == StatsInv /\ [Next]_vars => StatsInv'
<1> SUFFICES ASSUME StatsInv, [Next]_vars
             PROVE  StatsInv'
  OBVIOUS
<1>1. RowsTyped' /\ Days' = Days /\ UNCHANGED input
  <2>1. UNCHANGED input
    BY DEF Next, vars, ParsePeriod, StorageFails, ParticipationsSince, AddRow, SortAndCut
  <2> QED BY <2>1 DEF StatsInv, RowsTyped, Days, input
<1>2. SumsRight /\ UNCHANGED <<left, total, byChampion>> => SumsRight'
  BY <1>1 DEF SumsRight, Added, Played, Summary, Wins, Kills, Deaths, input
<1>3. CASE ParsePeriod
  BY <1>1, <1>3 DEF ParsePeriod, Respond, StatsInv
<1>4. CASE StorageFails
  BY <1>1, <1>4 DEF StorageFails, Respond, StatsInv
<1>5. CASE ParticipationsSince
  BY <1>1, <1>5, QueryStep DEF ParticipationsSince, StatsInv
<1>6. CASE AddRow
  BY <1>1, <1>6, AddStep DEF AddRow, StatsInv
<1>7. CASE SortAndCut
  <2>1. SumsRight' /\ left' = {} /\ pc' = "answered" /\ answer' = "ok"
    BY <1>2, <1>7 DEF SortAndCut, Respond, StatsInv
  <2>2. Ranked'
    <3>1. UNCHANGED byChampion /\ \A s : s \in Sorted(DOMAIN byChampion) <=> s \in Sorted(DOMAIN byChampion)'
      BY <1>7 DEF SortAndCut, Sorted, Before, KDA, Higher
    <3> QED BY <1>7, <3>1 DEF SortAndCut, Ranked
  <2> QED BY <1>1, <2>1, <2>2 DEF StatsInv
<1>8. CASE UNCHANGED vars
  <2>1. Ranked => Ranked'
    <3>1. \A s : s \in Sorted(DOMAIN byChampion) <=> s \in Sorted(DOMAIN byChampion)'
      BY <1>8 DEF vars, Sorted, Before, KDA, Higher
    <3> QED BY <1>8, <3>1 DEF vars, Ranked
  <2> QED BY <1>1, <1>2, <1>8, <2>1 DEF vars, StatsInv
<1> QED BY <1>3, <1>4, <1>5, <1>6, <1>7, <1>8 DEF Next

LEMMA Invariance == Spec => []StatsInv
  BY StatsInit, StatsStep, PTL DEF Spec

-----------------------------------------------------------------------------
(* The comparison. It compares games, then the fractions by their products,  *)
(* then names.                                                               *)

Tallied ==
    /\ DOMAIN byChampion \subseteq Champions
    /\ \A c \in DOMAIN byChampion : byChampion[c] \in Sum

LEMMA MaxOne ==
    ASSUME NEW d \in Nat
    PROVE  Max({d, 1}) \in Nat \ {0}
<1>1. \E x \in {d, 1} : \A y \in {d, 1} : x >= y
  <2>1. CASE d >= 1
    BY <2>1
  <2>2. CASE ~(d >= 1)
    BY <2>2
  <2> QED BY <2>1, <2>2
<1>2. Max({d, 1}) \in {d, 1} /\ \A y \in {d, 1} : Max({d, 1}) >= y
  BY <1>1 DEF Max
<1> QED BY <1>2

LEMMA Cancel ==
    ASSUME NEW m \in Nat, NEW n \in Nat, NEW k \in Nat \ {0}
    PROVE  (m * k >= n * k <=> m >= n) /\ (m * k > n * k <=> m > n)
  OBVIOUS

\* Fractions compared by products: going down twice is going down.
LEMMA Products ==
    ASSUME NEW x \in Nat, NEW y \in Nat, NEW z \in Nat,
           NEW p \in Nat \ {0}, NEW q \in Nat \ {0}, NEW r \in Nat \ {0},
           x * q >= y * p, y * r >= z * q
    PROVE  /\ x * r >= z * p
           /\ x * q > y * p \/ y * r > z * q => x * r > z * p
<1>1. (x * q) * r >= (y * p) * r /\ (x * q > y * p => (x * q) * r > (y * p) * r)
  BY Cancel
<1>2. (y * r) * p >= (z * q) * p /\ (y * r > z * q => (y * r) * p > (z * q) * p)
  BY Cancel
<1>3. /\ (x * q) * r = (x * r) * q /\ (y * p) * r = (y * r) * p
      /\ (z * q) * p = (z * p) * q
  OBVIOUS
<1>4. /\ (x * r) * q >= (z * p) * q
      /\ x * q > y * p \/ y * r > z * q => (x * r) * q > (z * p) * q
  BY <1>1, <1>2, <1>3
<1>5. x * r \in Nat /\ z * p \in Nat
  OBVIOUS
<1> QED BY <1>4, <1>5, Cancel

Cross(a, b) == byChampion[a].ka * Max({byChampion[b].deaths, 1})

LEMMA Compared ==
    ASSUME Tallied, NEW a \in DOMAIN byChampion, NEW b \in DOMAIN byChampion
    PROVE  /\ a \in Nat /\ b \in Nat /\ Cross(a, b) \in Nat /\ Cross(b, a) \in Nat
           /\ byChampion[a].games \in Nat /\ byChampion[b].games \in Nat
           /\ Before(a, b) <=>
                \/ byChampion[a].games > byChampion[b].games
                \/ /\ byChampion[a].games = byChampion[b].games
                   /\ \/ Cross(a, b) > Cross(b, a)
                      \/ Cross(a, b) = Cross(b, a) /\ a < b
<1> DEFINE s == byChampion[a]
           t == byChampion[b]
<1>1. a \in Nat /\ b \in Nat /\ s \in Sum /\ t \in Sum
  BY StatsAssumption DEF Tallied
<1>2. /\ s.games \in Nat /\ s.ka \in Nat /\ s.deaths \in Nat
      /\ t.games \in Nat /\ t.ka \in Nat /\ t.deaths \in Nat
  BY <1>1 DEF Sum
<1>3. Max({s.deaths, 1}) \in Nat /\ Max({t.deaths, 1}) \in Nat
  BY <1>2, MaxOne
<1>4. Cross(a, b) \in Nat /\ Cross(b, a) \in Nat
  BY <1>2, <1>3 DEF Cross
<1>5. /\ Higher(KDA(s), KDA(t)) <=> Cross(a, b) > Cross(b, a)
      /\ Higher(KDA(t), KDA(s)) <=> Cross(b, a) > Cross(a, b)
  BY DEF Higher, KDA, Cross
<1>6. Before(a, b) <=>
        \/ s.games > t.games
        \/ s.games = t.games /\ Cross(a, b) > Cross(b, a)
        \/ /\ s.games = t.games /\ ~(Cross(a, b) > Cross(b, a))
           /\ ~(Cross(b, a) > Cross(a, b)) /\ a < b
  BY <1>5 DEF Before
<1> HIDE DEF s, t
<1>7. Before(a, b) <=>
        \/ s.games > t.games
        \/ s.games = t.games /\ (Cross(a, b) > Cross(b, a) \/ (Cross(a, b) = Cross(b, a) /\ a < b))
  BY <1>4, <1>6
<1> QED BY <1>1, <1>2, <1>4, <1>7 DEF s, t

\* What slices.SortFunc asks of its function, a strict weak ordering, and more:
\* of two champions one always goes before the other.
StrictOrder ==
    \A a, b \in DOMAIN byChampion :
        /\ ~(Before(a, b) /\ Before(b, a))
        /\ a # b => Before(a, b) \/ Before(b, a)
        /\ \A c \in DOMAIN byChampion : Before(a, b) /\ Before(b, c) => Before(a, c)

LEMMA Ordered == Tallied => StrictOrder
<1> SUFFICES ASSUME Tallied, NEW a \in DOMAIN byChampion, NEW b \in DOMAIN byChampion
             PROVE  /\ ~(Before(a, b) /\ Before(b, a))
                    /\ a # b => Before(a, b) \/ Before(b, a)
                    /\ \A c \in DOMAIN byChampion :
                          Before(a, b) /\ Before(b, c) => Before(a, c)
  BY DEF StrictOrder
<1>1. ~(Before(a, b) /\ Before(b, a))
  BY Compared
<1>2. a # b => Before(a, b) \/ Before(b, a)
  BY Compared
<1>3. ASSUME NEW c \in DOMAIN byChampion, Before(a, b), Before(b, c)
      PROVE  Before(a, c)
  <2> DEFINE d(e) == Max({byChampion[e].deaths, 1})
             g(e) == byChampion[e].games
  <2>1. \A e \in {a, b, c} : /\ byChampion[e].ka \in Nat /\ d(e) \in Nat \ {0}
                             /\ g(e) \in Nat /\ e \in Nat
    <3> TAKE e \in {a, b, c}
    <3>1. byChampion[e] \in Sum /\ e \in Nat
      BY StatsAssumption DEF Tallied
    <3>2. byChampion[e].deaths \in Nat /\ byChampion[e].ka \in Nat /\ g(e) \in Nat
      BY <3>1 DEF Sum
    <3> QED BY <3>1, <3>2, MaxOne
  <2>2. g(a) >= g(b) /\ g(b) >= g(c)
    BY <1>3, Compared
  <2>3. CASE g(a) > g(b) \/ g(b) > g(c)
    <3>1. g(a) > g(c)
      BY <2>1, <2>2, <2>3
    <3> QED BY <3>1, Compared
  <2>4. CASE g(a) = g(b) /\ g(b) = g(c)
    <3>1. Cross(a, b) >= Cross(b, a) /\ (Cross(a, b) = Cross(b, a) => a < b)
      BY <1>3, <2>4, Compared
    <3>2. Cross(b, c) >= Cross(c, b) /\ (Cross(b, c) = Cross(c, b) => b < c)
      BY <1>3, <2>4, Compared
    <3>3. /\ Cross(a, c) >= Cross(c, a)
          /\ Cross(a, b) > Cross(b, a) \/ Cross(b, c) > Cross(c, b) => Cross(a, c) > Cross(c, a)
      <4> DEFINE ka(e) == byChampion[e].ka
      <4>1. \A e, f \in {a, b, c} : Cross(e, f) = ka(e) * d(f)
        BY DEF Cross
      <4>2. \A e \in {a, b, c} : ka(e) \in Nat /\ d(e) \in Nat \ {0}
        BY <2>1
      <4> HIDE DEF d, ka
      <4>3. ka(a) * d(b) >= ka(b) * d(a) /\ ka(b) * d(c) >= ka(c) * d(b)
        BY <3>1, <3>2, <4>1
      <4>4. /\ ka(a) * d(c) >= ka(c) * d(a)
            /\ ka(a) * d(b) > ka(b) * d(a) \/ ka(b) * d(c) > ka(c) * d(b)
               => ka(a) * d(c) > ka(c) * d(a)
        BY <4>2, <4>3, Products
      <4> QED BY <4>1, <4>4
    <3>4. Cross(a, c) > Cross(c, a) \/ (Cross(a, c) = Cross(c, a) /\ a < c)
      BY <2>1, <3>1, <3>2, <3>3, Compared
    <3> QED BY <2>4, <3>4, Compared
  <2> QED BY <2>1, <2>2, <2>3, <2>4
<1> QED BY <1>1, <1>2, <1>3

-----------------------------------------------------------------------------
(* The sort. A champion's place is the number of those that go before it.    *)

Ahead(c) == {d \in DOMAIN byChampion : Before(d, c)}

LEMMA AheadFinite ==
    ASSUME IsFiniteSet(DOMAIN byChampion), NEW c
    PROVE  IsFiniteSet(Ahead(c)) /\ Cardinality(Ahead(c)) \in Nat
<1>1. IsFiniteSet(Ahead(c))
  BY FS_Subset DEF Ahead
<1> QED BY <1>1, FS_CardinalityType

LEMMA AheadGrows ==
    ASSUME StrictOrder, IsFiniteSet(DOMAIN byChampion),
           NEW a \in DOMAIN byChampion, NEW b \in DOMAIN byChampion, Before(a, b)
    PROVE  Cardinality(Ahead(a)) < Cardinality(Ahead(b))
<1>1. Ahead(a) \subseteq Ahead(b) /\ a \in Ahead(b) /\ a \notin Ahead(a)
  BY DEF StrictOrder, Ahead
<1>2. /\ Cardinality(Ahead(a)) <= Cardinality(Ahead(b))
      /\ Cardinality(Ahead(b)) = Cardinality(Ahead(a)) => Ahead(b) = Ahead(a)
  BY <1>1, AheadFinite, FS_Subset
<1> QED BY <1>1, <1>2, AheadFinite

LEMMA AheadSame ==
    ASSUME StrictOrder, IsFiniteSet(DOMAIN byChampion),
           NEW a \in DOMAIN byChampion, NEW b \in DOMAIN byChampion,
           Cardinality(Ahead(a)) = Cardinality(Ahead(b))
    PROVE  a = b
<1> SUFFICES ASSUME a # b
             PROVE  FALSE
  OBVIOUS
<1>1. Before(a, b) \/ Before(b, a)
  BY DEF StrictOrder
<1> QED BY <1>1, AheadGrows, AheadFinite

\* In a sorted slice, all and only those that stand in front go before.
LEMMA SortedPlaces ==
    ASSUME StrictOrder, IsFiniteSet(DOMAIN byChampion), NEW s \in Sorted(DOMAIN byChampion)
    PROVE  LET n == Cardinality(DOMAIN byChampion) IN
           /\ n \in Nat /\ DOMAIN s = 1..n /\ Len(s) = n /\ s \in Seq(DOMAIN byChampion)
           /\ \A p \in 1..n : s[p] \in DOMAIN byChampion /\ Cardinality(Ahead(s[p])) = p - 1
<1> DEFINE C == DOMAIN byChampion
           n == Cardinality(C)
<1>1. n \in Nat
  BY FS_CardinalityType
<1>2. /\ s \in [1..n -> C]
      /\ \A i, j \in 1..n : i # j => s[i] # s[j]
      /\ \A i, j \in 1..n : i < j => ~Before(s[j], s[i])
  BY DEF Sorted, SetToSeqs
<1> HIDE DEF C, n
<1>3. IsFiniteSet(C) /\ IsFiniteSet(1..n) /\ Cardinality(1..n) = n /\ n = Cardinality(C)
  BY <1>1, FS_Interval DEF C, n
<1>4. s \in Injection(1..n, C)
  BY <1>2 DEF Injection, IsInjective
<1>5. s \in Surjection(1..n, C)
  BY <1>3, <1>4, FS_Injection
<1>6. \A c \in C : \E p \in 1..n : s[p] = c
  BY <1>5, Zenon DEF Surjection
<1>7. \A i, j \in 1..n : i < j => Before(s[i], s[j])
  BY <1>2 DEF StrictOrder, C
<1>8. ASSUME NEW p \in 1..n
      PROVE  Cardinality(Ahead(s[p])) = p - 1
  <2> DEFINE front == [q \in 1..(p - 1) |-> s[q]]
  <2>1. \A q \in 1..n : Before(s[q], s[p]) <=> q < p
    <3> TAKE q \in 1..n
    <3>1. q \in Int /\ p \in Int /\ s[p] \in C /\ s[q] \in C
      BY <1>1, <1>2
    <3>2. ~Before(s[p], s[p])
      BY <3>1 DEF StrictOrder, C
    <3>3. CASE q < p
      BY <1>7, <3>3
    <3>4. CASE q = p
      BY <3>2, <3>4
    <3>5. CASE p < q
      BY <1>2, <3>1, <3>5
    <3> QED BY <3>1, <3>3, <3>4, <3>5
  <2>2. /\ IsFiniteSet(1..(p - 1)) /\ Cardinality(1..(p - 1)) = p - 1
        /\ 1..(p - 1) \subseteq 1..n
    BY <1>1, FS_Interval
  <2>3. \A q \in 1..(p - 1) : s[q] \in Ahead(s[p])
    BY <1>2, <2>1, <2>2 DEF Ahead, C
  <2>4. \A c \in Ahead(s[p]) : \E q \in 1..(p - 1) : s[q] = c
    <3> TAKE c \in Ahead(s[p])
    <3>1. c \in C /\ Before(c, s[p])
      BY DEF Ahead, C
    <3>2. PICK q \in 1..n : s[q] = c
      BY <1>6, <3>1
    <3>3. q \in 1..(p - 1)
      BY <1>1, <2>1, <3>1, <3>2
    <3> QED BY <3>2, <3>3
  <2>5. front \in Injection(1..(p - 1), Ahead(s[p]))
    BY <1>2, <2>2, <2>3 DEF Injection, IsInjective
  <2>6. front \in Surjection(1..(p - 1), Ahead(s[p]))
    <3>1. front \in [1..(p - 1) -> Ahead(s[p])]
      BY <2>3
    <3>2. \A c \in Ahead(s[p]) : \E q \in 1..(p - 1) : front[q] = c
      BY <2>4
    <3> HIDE DEF front
    <3> QED BY <3>1, <3>2, Zenon DEF Surjection
  <2> HIDE DEF front
  <2> QED BY <2>2, <2>5, <2>6, FS_Surjection
<1>9. s \in Seq(C) /\ Len(s) = n /\ DOMAIN s = 1..n
  BY <1>1, <1>2
<1>10. \A p \in 1..n : s[p] \in C
  BY <1>2
<1> QED BY <1>1, <1>8, <1>9, <1>10 DEF C, n

\* All slices that slices.SortFunc may leave are one.
LEMMA SortedUnique ==
    ASSUME StrictOrder, IsFiniteSet(DOMAIN byChampion),
           NEW s \in Sorted(DOMAIN byChampion), NEW t \in Sorted(DOMAIN byChampion)
    PROVE  s = t
<1> DEFINE C == DOMAIN byChampion
           n == Cardinality(C)
<1>1. /\ s \in [1..n -> C] /\ t \in [1..n -> C]
  BY DEF Sorted, SetToSeqs
<1>2. \A p \in 1..n : s[p] = t[p]
  <2> TAKE p \in 1..n
  <2>1. /\ s[p] \in C /\ t[p] \in C
        /\ Cardinality(Ahead(s[p])) = p - 1 /\ Cardinality(Ahead(t[p])) = p - 1
    BY SortedPlaces
  <2> QED BY <2>1, AheadSame
<1>3. s = [p \in 1..n |-> s[p]] /\ t = [p \in 1..n |-> t[p]]
  <2> HIDE DEF C, n
  <2> QED BY <1>1
<1>4. [p \in 1..n |-> s[p]] = [p \in 1..n |-> t[p]]
  <2> HIDE DEF n
  <2> QED BY <1>2
<1> QED BY <1>3, <1>4, Zenon

\* There is such a slice: every champion at its place.
LEMMA SortedExists ==
    ASSUME StrictOrder, IsFiniteSet(DOMAIN byChampion)
    PROVE  Sorted(DOMAIN byChampion) # {}
<1> DEFINE C == DOMAIN byChampion
           n == Cardinality(C)
           place == [c \in C |-> Cardinality(Ahead(c)) + 1]
           s == [p \in 1..n |-> CHOOSE c \in C : place[c] = p]
<1>1. n \in Nat /\ IsFiniteSet(1..n) /\ Cardinality(1..n) = n
  BY FS_CardinalityType, FS_Interval
<1>2. ASSUME NEW c \in C
      PROVE  Cardinality(Ahead(c)) \in Nat /\ Cardinality(Ahead(c)) + 1 \in 1..n
  <2>1. Ahead(c) \subseteq C /\ c \notin Ahead(c)
    BY DEF Ahead, StrictOrder
  <2>2. /\ Cardinality(Ahead(c)) <= n
        /\ n = Cardinality(Ahead(c)) => C = Ahead(c)
    BY <2>1, FS_Subset
  <2>3. Cardinality(Ahead(c)) \in Nat
    BY AheadFinite
  <2> HIDE DEF C, n
  <2> QED BY <1>1, <2>1, <2>2, <2>3
<1>3. \A c, d \in C : place[c] = place[d] => c = d
  BY <1>2, AheadSame
<1>4. \A c, d \in C : Before(c, d) => place[c] < place[d]
  BY <1>2, AheadGrows
<1>5. place \in [C -> 1..n]
  BY <1>2
<1>6. IsFiniteSet(C) /\ n = Cardinality(C) /\ \A c \in C : c \in DOMAIN place
  OBVIOUS
<1>7. Sorted(C) = {u \in SetToSeqs(C) : \A i, j \in DOMAIN u : i < j => ~Before(u[j], u[i])}
  BY DEF Sorted
<1> HIDE DEF C, n, place
<1>8. place \in Injection(C, 1..n)
  BY <1>3, <1>5 DEF Injection, IsInjective
<1>9. place \in Surjection(C, 1..n)
  BY <1>1, <1>6, <1>8, FS_Injection
<1>10. \A p \in 1..n : \E c \in C : place[c] = p
  BY <1>9, Zenon DEF Surjection
<1>11. \A p \in 1..n : s[p] \in C /\ place[s[p]] = p
  BY <1>10
<1>12. s \in [1..n -> C]
  BY <1>11
<1> HIDE DEF s
<1>13. \A i, j \in 1..n : i # j => s[i] # s[j]
  BY <1>11
<1>14. \A i, j \in 1..n : i < j => ~Before(s[j], s[i])
  BY <1>4, <1>11
<1>15. s \in Sorted(C)
  BY <1>6, <1>7, <1>12, <1>13, <1>14 DEF SetToSeqs
<1> QED BY <1>15 DEF C

-----------------------------------------------------------------------------
(* The theorems.                                                             *)

LEMMA SumsTallied ==
    ASSUME RowsTyped, SumsRight
    PROVE  /\ Tallied /\ IsFiniteSet(DOMAIN byChampion) /\ StrictOrder
           /\ DOMAIN byChampion = {c \in Champions : Added({c}) # {}}
           /\ \A c \in DOMAIN byChampion : byChampion[c] = Summary(Added({c}))
<1> DEFINE D == {c \in Champions : Added({c}) # {}}
<1>1. byChampion = [c \in D |-> Summary(Added({c}))]
  BY DEF SumsRight
<1>2. DOMAIN byChampion = D /\ \A c \in D : byChampion[c] = Summary(Added({c}))
  <2> HIDE DEF D
  <2> QED BY <1>1
<1>3. \A c : Added({c}) \subseteq DOMAIN rows
  BY PlayedRows DEF Added
<1>4. Tallied
  BY <1>2, <1>3, SummaryType DEF Tallied
<1>5. IsFiniteSet(D)
  <2> DEFINE R == Added(Champions)
             f == [i \in R |-> rows[i].champion]
  <2>1. IsFiniteSet(R)
    BY PlayedRows, SummaryType DEF Added
  <2>2. \A i \in R : f[i] \in D
    <3> TAKE i \in R
    <3>1. i \in Played(Champions) /\ i \notin left /\ i \in DOMAIN rows
      BY DEF Added, Played
    <3>2. i \in Added({rows[i].champion}) /\ rows[i].champion \in Champions
      BY <3>1, RowFields DEF Added, Played
    <3> QED BY <3>2
  <2>3. \A c \in D : \E i \in R : f[i] = c
    <3> TAKE c \in D
    <3>1. PICK i \in Added({c}) : TRUE
      OBVIOUS
    <3>2. i \in R /\ rows[i].champion = c
      BY <3>1 DEF Added, Played
    <3> QED BY <3>2
  <2>4. f \in [R -> D]
    BY <2>2
  <2> HIDE DEF R, f, D
  <2>5. f \in Surjection(R, D)
    BY <2>3, <2>4, Zenon DEF Surjection
  <2> QED BY <2>1, <2>5, FS_Surjection
<1> QED BY <1>2, <1>4, <1>5, Ordered

\* Once all rows are added, the sums are those of the games of the period.
LEMMA SumsPlayed ==
    ASSUME StatsInv, answer = "ok"
    PROVE  /\ Days \in 1..MaxPeriod /\ total = Summary(Played(Champions))
           /\ DOMAIN byChampion = {c \in Champions : Played({c}) # {}}
           /\ \A c \in DOMAIN byChampion : byChampion[c] = Summary(Played({c}))
<1>1. RowsTyped /\ SumsRight /\ left = {}
  BY DEF StatsInv
<1>2. \A C : Added(C) = Played(C)
  BY <1>1 DEF Added
<1> QED BY <1>1, <1>2, SumsTallied DEF SumsRight

LEMMA LeastOf ==
    ASSUME NEW n \in Nat
    PROVE  Min({TopCount, n}) \in 0..n
<1>1. TopCount \in Nat
  BY StatsAssumption
<1>2. \E x \in {TopCount, n} : \A y \in {TopCount, n} : x =< y
  <2>1. CASE TopCount <= n
    BY <1>1, <2>1
  <2>2. CASE ~(TopCount <= n)
    BY <1>1, <2>2
  <2> QED BY <2>1, <2>2
<1>3. Min({TopCount, n}) \in {TopCount, n} /\ \A y \in {TopCount, n} : Min({TopCount, n}) =< y
  BY <1>2 DEF Min
<1> QED BY <1>1, <1>3

\* The slice of the answer: the first champions of the sorted slice.
LEMMA TopPlaces ==
    ASSUME StatsInv, answer = "ok"
    PROVE  LET n == Cardinality(DOMAIN byChampion) IN
           /\ n \in Nat /\ Len(top) = Min({TopCount, n}) /\ DOMAIN top = 1..Len(top)
           /\ \A p \in DOMAIN top :
                 /\ p \in Nat /\ top[p] \in DOMAIN byChampion
                 /\ Cardinality(Ahead(top[p])) = p - 1
<1> DEFINE C == DOMAIN byChampion
           n == Cardinality(C)
           m == Min({TopCount, n})
<1>1. RowsTyped /\ SumsRight /\ Ranked
  BY DEF StatsInv
<1>2. PICK s \in Sorted(C) : top = SubSeq(s, 1, Min({TopCount, Len(s)}))
  BY <1>1 DEF Ranked
<1>3. StrictOrder /\ IsFiniteSet(C)
  BY <1>1, SumsTallied
<1>4. /\ n \in Nat /\ Len(s) = n /\ s \in Seq(C)
      /\ \A p \in 1..n : s[p] \in C /\ Cardinality(Ahead(s[p])) = p - 1
  BY <1>3, SortedPlaces
<1>5. m \in 0..n
  BY <1>4, LeastOf
<1>6. top = SubSeq(s, 1, m)
  BY <1>2, <1>4
<1> HIDE DEF C, n, m
<1>7. Len(top) = m /\ DOMAIN top = 1..m /\ \A p \in 1..m : top[p] = s[p]
  BY <1>4, <1>5, <1>6
<1>8. \A p \in 1..m : p \in Nat /\ p \in 1..n
  BY <1>4, <1>5
<1> QED BY <1>4, <1>7, <1>8 DEF C, n, m

\* The sums of an answer are those over the games of the period, whatever the
\* rows (AggregateStats and the query of the participations since a day).
THEOREM SumsMatch == Spec => []StatsMatchReference
<1>1. StatsInv => StatsMatchReference
  <2> SUFFICES ASSUME StatsInv, answer = "ok"
               PROVE  /\ Days \in 1..MaxPeriod
                      /\ total = Summary(Played(Champions))
                      /\ \A c \in Range(top) : byChampion[c] = Summary(Played({c}))
    BY DEF StatsMatchReference
  <2>1. \A c \in Range(top) : c \in DOMAIN byChampion
    BY TopPlaces DEF Range
  <2> QED BY <2>1, SumsPlayed
<1> QED BY <1>1, Invariance, PTL

\* The champions of an answer and their order follow from the games alone.
THEOREM TopOrdered == Spec => []TopDetermined
<1>1. ASSUME StatsInv, answer = "ok"
      PROVE  TopDetermined
  <2> DEFINE present == {c \in Champions : Played({c}) # {}}
  <2>1. /\ DOMAIN byChampion = present
        /\ \A c \in present : byChampion[c] = Summary(Played({c}))
    BY <1>1, SumsPlayed
  <2>2. Tallied
    BY <1>1, SumsTallied DEF StatsInv
  <2>3. \A a, b \in present : Before(a, b) <=> Beats(a, b)
    <3> TAKE a \in present, b \in present
    <3> DEFINE s == Summary(Played({a}))
               t == Summary(Played({b}))
    <3>1. byChampion[a] = s /\ byChampion[b] = t
      BY <2>1
    <3>2. Cross(a, b) = s.ka * Max({t.deaths, 1}) /\ Cross(b, a) = t.ka * Max({s.deaths, 1})
      BY <3>1 DEF Cross
    <3>3. Beats(a, b) <=>
            \/ s.games > t.games
            \/ /\ s.games = t.games
               /\ \/ Cross(a, b) > Cross(b, a)
                  \/ Cross(a, b) = Cross(b, a) /\ a < b
      BY <3>2 DEF Beats
    <3>4. a \in DOMAIN byChampion /\ b \in DOMAIN byChampion
      BY <2>1
    <3> HIDE DEF s, t
    <3> QED BY <2>2, <3>1, <3>3, <3>4, Compared
  <2>4. \A c \in present : {d \in present : Beats(d, c)} = Ahead(c)
    BY <2>1, <2>3 DEF Ahead
  <2> HIDE DEF present
  <2>5. /\ Len(top) = Min({TopCount, Cardinality(present)})
        /\ \A p \in DOMAIN top :
              top[p] \in present /\ Cardinality({c \in present : Beats(c, top[p])}) = p - 1
    BY <1>1, <2>1, <2>4, TopPlaces
  <2> QED BY <2>5 DEF TopDetermined, present
<1>2. StatsInv => TopDetermined
  BY <1>1 DEF TopDetermined
<1> QED BY <1>2, Invariance, PTL

\* The function given to slices.SortFunc is a strict total order on the champions
\* counted so far, so the sort has an outcome, and only one.
SortDecided ==
    pc = "add" => StrictOrder /\ \E s : Sorted(DOMAIN byChampion) = {s}

\* slices.SortFunc gets a comparison it can work with, and its result does not
\* depend on the order in which the map was walked.
THEOREM SortHasOneOutcome == Spec => []SortDecided
<1>1. ASSUME StatsInv, pc = "add"
      PROVE  StrictOrder /\ \E s : Sorted(DOMAIN byChampion) = {s}
  <2>1. StrictOrder /\ IsFiniteSet(DOMAIN byChampion)
    BY <1>1, SumsTallied DEF StatsInv
  <2>2. PICK s : s \in Sorted(DOMAIN byChampion)
    BY <2>1, SortedExists
  <2>3. \A t \in Sorted(DOMAIN byChampion) : t = s
    BY <2>1, <2>2, SortedUnique
  <2> QED BY <2>1, <2>2, <2>3
<1>2. StatsInv => SortDecided
  BY <1>1 DEF SortDecided
<1> QED BY <1>2, Invariance, PTL
=============================================================================
