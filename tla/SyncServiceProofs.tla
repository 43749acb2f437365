-------------------------- MODULE SyncServiceProofs --------------------------
(***************************************************************************)
(* Proofs about syncer.Service over the database: any number of players,    *)
(* matches and synchronisations under way at once, in any interleaving of   *)
(* their calls, with failed calls and crashes anywhere.                     *)
(***************************************************************************)
EXTENDS SyncService, TLAPS

-----------------------------------------------------------------------------
(* The inductive invariant. *)

DbTyped ==
    /\ played \subseteq Matches
    /\ summoners \subseteq Puuids
    /\ synced \subseteq summoners /\ ranks \subseteq summoners
    /\ stored \subseteq played
    /\ rows \subseteq stored \X summoners
    /\ covered \in [Puuids -> SUBSET played]
    /\ failures \in 0..MaxFailures

JobsTyped ==
    /\ step \in [Jobs -> Steps]
    /\ puuid \in [Jobs -> Puuids \cup {Nobody}]
    /\ \A j \in Jobs : step[j] # "idle" => puuid[j] \in summoners
    /\ addOnly \in [Jobs -> BOOLEAN]
    /\ ids \in [Jobs -> SUBSET played]
    /\ known \in [Jobs -> SUBSET stored]
    /\ tracked \in [Jobs -> SUBSET summoners]
    /\ listed \in [Jobs -> SUBSET played]
    /\ fetched \in [Jobs -> SUBSET played]
    /\ skipped \in [Jobs -> SUBSET played]

\* A job that looks for matches looks for those of its own player, and the
\* player is among the tracked ones it saves rows for.
OwnMatches ==
    /\ \A j \in Jobs : step[j] = "matches" => puuid[j] \in tracked[j]
    /\ \A j \in Jobs : \A m \in ids[j] : puuid[j] \in Participants[m]
    /\ \A j \in Jobs : step[j] = "idle" => ids[j] = {} /\ fetched[j] = {}

\* What Riot listed is still to be looked at, stored, or given up.
NothingForgotten == \A j \in Jobs : listed[j] \ skipped[j] \subseteq stored \cup ids[j]

Inv ==
    /\ DbTyped /\ JobsTyped /\ OwnMatches /\ NothingForgotten
    /\ OwnMatchInFeed /\ MarkedWhenComplete

LEMMA NewestPlayed ==
    \A p : \A m \in Newest(p) : m \in played /\ p \in Participants[m]
  BY DEF Newest

\* A synchronisation that ends, and a crash that ends all of them, leave the
\* other ones as they were.
LEMMA Forgotten ==
    ASSUME NEW js \in SUBSET Jobs, Forget(js), Inv,
           played' = played, summoners' = summoners, stored' = stored, rows' = rows
    PROVE  JobsTyped' /\ OwnMatches' /\ NothingForgotten' /\ OwnMatchInFeed'
<1>1. \A j \in Jobs :
         /\ step'[j] = IF j \in js THEN "idle" ELSE step[j]
         /\ puuid'[j] = IF j \in js THEN Nobody ELSE puuid[j]
         /\ addOnly'[j] = IF j \in js THEN FALSE ELSE addOnly[j]
         /\ ids'[j] = IF j \in js THEN {} ELSE ids[j]
         /\ known'[j] = IF j \in js THEN {} ELSE known[j]
         /\ tracked'[j] = IF j \in js THEN {} ELSE tracked[j]
         /\ listed'[j] = IF j \in js THEN {} ELSE listed[j]
         /\ fetched'[j] = IF j \in js THEN {} ELSE fetched[j]
         /\ skipped'[j] = IF j \in js THEN {} ELSE skipped[j]
  BY DEF Forget
<1>2. JobsTyped'
  <2>1. step' \in [Jobs -> Steps] /\ addOnly' \in [Jobs -> BOOLEAN]
        /\ puuid' \in [Jobs -> Puuids \cup {Nobody}]
    BY DEF Forget, Inv, JobsTyped, Steps
  <2>2. ids' \in [Jobs -> SUBSET played] /\ known' \in [Jobs -> SUBSET stored]
        /\ tracked' \in [Jobs -> SUBSET summoners]
    BY DEF Forget, Inv, JobsTyped
  <2>3. listed' \in [Jobs -> SUBSET played] /\ fetched' \in [Jobs -> SUBSET played]
        /\ skipped' \in [Jobs -> SUBSET played]
    BY DEF Forget, Inv, JobsTyped
  <2>4. \A j \in Jobs : step'[j] # "idle" => puuid'[j] \in summoners
    BY <1>1 DEF Inv, JobsTyped
  <2> QED BY <2>1, <2>2, <2>3, <2>4 DEF JobsTyped
<1>3. OwnMatches'
  BY <1>1 DEF Inv, OwnMatches
<1>4. NothingForgotten' /\ OwnMatchInFeed'
  BY <1>1 DEF Inv, NothingForgotten, OwnMatchInFeed
<1> QED BY <1>2, <1>3, <1>4

LEMMA InitInv == Init => Inv
  BY FailuresAssumption
  DEF Init, Inv, DbTyped, JobsTyped, OwnMatches, NothingForgotten, OwnMatchInFeed,
      MarkedWhenComplete, Steps

LEMMA ReturnStep ==
    ASSUME Inv, NEW j \in Jobs, Return(j),
           played' = played, summoners' = summoners, stored' = stored, rows' = rows,
           DbTyped', MarkedWhenComplete'
    PROVE  Inv'
  BY Forgotten DEF Return, Inv

LEMMA FailsTyped == failures \in 0..MaxFailures /\ Fails => failures' \in 0..MaxFailures
  BY FailuresAssumption DEF Fails

LEMMA AfterRanksStep ==
    ASSUME Inv, NEW j \in Jobs, AfterRanks(j), step[j] \in {"ranks", "replace"},
           played' = played, summoners' = summoners, stored' = stored, rows' = rows,
           DbTyped', MarkedWhenComplete'
    PROVE  Inv'
<1>1. CASE addOnly[j]
  BY <1>1, ReturnStep DEF AfterRanks
<1>2. CASE ~addOnly[j]
  BY <1>2
  DEF AfterRanks, GoOn, Inv, JobsTyped, OwnMatches, NothingForgotten, OwnMatchInFeed, Steps
<1> QED BY <1>1, <1>2

LEMMA InvStep == Inv /\ [Next]_vars => Inv'
<1> SUFFICES ASSUME Inv, [Next]_vars
             PROVE  Inv'
  OBVIOUS
<1> USE DEF Inv
<1>1. CASE GameEnds
  <2>1. played \subseteq played' /\ played' \subseteq Matches /\ UNCHANGED <<dbVars, jobVars, covered, failures>>
    BY <1>1 DEF GameEnds, DbTyped
  <2> QED
    BY <2>1
    DEF dbVars, jobVars, DbTyped, JobsTyped, OwnMatches, NothingForgotten, OwnMatchInFeed,
        MarkedWhenComplete
<1>2. CASE Crash
  <2>1. DbTyped' /\ MarkedWhenComplete'
    BY <1>2, FailsTyped DEF Crash, dbVars, DbTyped, MarkedWhenComplete
  <2> QED BY <1>2, <2>1, Forgotten DEF Crash, dbVars
<1>3. ASSUME NEW j \in Jobs, NEW p \in Puuids, SyncProfile(j, p) \/ SyncSummoner(j, p)
      PROVE  Inv'
  <2>1. /\ step[j] = "idle" /\ p \in summoners'
        /\ summoners \subseteq summoners' /\ summoners' \subseteq Puuids
        /\ UNCHANGED <<played, synced, ranks, stored, rows, covered, failures>>
        /\ UNCHANGED <<ids, known, tracked, listed, fetched, skipped>>
        /\ puuid' = [puuid EXCEPT ![j] = p]
        /\ step' = [step EXCEPT ![j] = "ranks"]
        /\ addOnly' \in [Jobs -> BOOLEAN]
    BY <1>3 DEF SyncProfile, SyncSummoner, Upsert, GoOn, dbVars, DbTyped, JobsTyped
  <2>2. DbTyped' /\ MarkedWhenComplete'
    BY <2>1 DEF DbTyped, MarkedWhenComplete
  <2>3. JobsTyped'
    BY <2>1 DEF JobsTyped, Steps
  <2>4. OwnMatches' /\ NothingForgotten' /\ OwnMatchInFeed'
    BY <2>1 DEF JobsTyped, OwnMatches, NothingForgotten, OwnMatchInFeed
  <2> QED BY <2>2, <2>3, <2>4
<1>4. ASSUME NEW j \in Jobs, FetchRanks(j)
      PROVE  Inv'
  BY <1>4
  DEF FetchRanks, GoOn, dbVars, DbTyped, JobsTyped, OwnMatches, NothingForgotten,
      OwnMatchInFeed, MarkedWhenComplete, Steps
<1>5. ASSUME NEW j \in Jobs, ReplaceRanks(j)
      PROVE  Inv'
  <2>1. DbTyped' /\ MarkedWhenComplete'
    BY <1>5 DEF ReplaceRanks, Replace, DbTyped, JobsTyped, MarkedWhenComplete
  <2> QED BY <1>5, <2>1, AfterRanksStep DEF ReplaceRanks
<1>6. ASSUME NEW j \in Jobs, RanksFail(j)
      PROVE  Inv'
  <2>1. DbTyped' /\ MarkedWhenComplete'
    BY <1>6, FailsTyped DEF RanksFail, dbVars, DbTyped, MarkedWhenComplete
  <2> QED BY <1>6, <2>1, AfterRanksStep DEF RanksFail, dbVars
<1>7. ASSUME NEW j \in Jobs, ListMatches(j)
      PROVE  Inv'
  <2>1. Newest(puuid[j]) \subseteq played
    BY NewestPlayed
  <2>2. DbTyped' /\ MarkedWhenComplete'
    BY <1>7 DEF ListMatches, dbVars, DbTyped, MarkedWhenComplete
  <2>3. JobsTyped'
    BY <1>7, <2>1 DEF ListMatches, GoOn, dbVars, JobsTyped, Steps
  <2>4. OwnMatches'
    BY <1>7, NewestPlayed DEF ListMatches, GoOn, JobsTyped, OwnMatches
  <2>5. NothingForgotten' /\ OwnMatchInFeed'
    BY <1>7 DEF ListMatches, dbVars, JobsTyped, NothingForgotten, OwnMatchInFeed
  <2> QED BY <2>2, <2>3, <2>4, <2>5
<1>8. ASSUME NEW j \in Jobs, KnownIDs(j)
      PROVE  Inv'
  BY <1>8
  DEF KnownIDs, GoOn, dbVars, DbTyped, JobsTyped, OwnMatches, NothingForgotten,
      OwnMatchInFeed, MarkedWhenComplete, Steps
<1>9. ASSUME NEW j \in Jobs, TrackedPUUIDs(j)
      PROVE  Inv'
  BY <1>9
  DEF TrackedPUUIDs, GoOn, dbVars, DbTyped, JobsTyped, OwnMatches, NothingForgotten,
      OwnMatchInFeed, MarkedWhenComplete, Steps
<1>10. ASSUME NEW j \in Jobs, NEW m \in Matches, SyncMatch(j, m)
       PROVE  Inv'
  <2>1. /\ step[j] = "matches" /\ m \in ids[j] \ known[j]
        /\ ids' = [ids EXCEPT ![j] = @ \ {m}]
        /\ stored' = stored \cup {m} /\ rows' = rows \cup TrackedOnly(j, m)
        /\ fetched' = [fetched EXCEPT ![j] = @ \cup {m}]
        /\ UNCHANGED <<played, summoners, synced, ranks, step, puuid, addOnly,
                       known, tracked, listed, skipped, covered, failures>>
    BY <1>10 DEF SyncMatch, NextId, Insert
  <2>2. m \in played /\ puuid[j] \in tracked[j] /\ puuid[j] \in Participants[m]
    BY <2>1 DEF JobsTyped, OwnMatches
  <2>3. <<m, puuid[j]>> \in rows' /\ rows' \subseteq stored' \X summoners
    BY <2>1, <2>2 DEF TrackedOnly, DbTyped, JobsTyped
  <2>4. DbTyped' /\ MarkedWhenComplete'
    BY <2>1, <2>2, <2>3 DEF DbTyped, MarkedWhenComplete
  <2>5. JobsTyped'
    BY <2>1, <2>2 DEF JobsTyped
  <2>6. OwnMatches' /\ NothingForgotten'
    BY <2>1 DEF JobsTyped, OwnMatches, NothingForgotten
  <2>7. OwnMatchInFeed'
    BY <2>1, <2>3 DEF JobsTyped, OwnMatchInFeed
  <2> QED BY <2>4, <2>5, <2>6, <2>7
<1>11. ASSUME NEW j \in Jobs, NEW m \in Matches, SkipMatch(j, m)
       PROVE  Inv'
  <2>1. /\ step[j] = "matches" /\ m \in ids[j] \ known[j]
        /\ ids' = [ids EXCEPT ![j] = @ \ {m}]
        /\ skipped' = [skipped EXCEPT ![j] = @ \cup {m}]
        /\ UNCHANGED <<played, dbVars, step, puuid, addOnly, known, tracked, listed,
                       fetched, covered>>
        /\ Fails \/ failures' = failures
    BY <1>11 DEF SkipMatch, NextId
  <2>2. DbTyped' /\ MarkedWhenComplete'
    BY <2>1, FailsTyped DEF dbVars, DbTyped, MarkedWhenComplete
  <2>3. JobsTyped'
    BY <2>1 DEF dbVars, JobsTyped
  <2>4. OwnMatches' /\ NothingForgotten' /\ OwnMatchInFeed'
    BY <2>1 DEF dbVars, JobsTyped, OwnMatches, NothingForgotten, OwnMatchInFeed
  <2> QED BY <2>2, <2>3, <2>4
<1>12. ASSUME NEW j \in Jobs, Abort(j)
       PROVE  Inv'
  <2>1. DbTyped' /\ MarkedWhenComplete'
    BY <1>12, FailsTyped DEF Abort, dbVars, DbTyped, MarkedWhenComplete
  <2> QED BY <1>12, <2>1, ReturnStep DEF Abort, dbVars
<1>13. ASSUME NEW j \in Jobs, MarkSynced(j)
       PROVE  Inv'
  <2>1. /\ step[j] = "matches" /\ ids[j] \subseteq known[j]
        /\ synced' = synced \cup {puuid[j]} /\ Return(j)
        /\ covered' = [covered EXCEPT ![puuid[j]] = listed[j] \ skipped[j]]
        /\ UNCHANGED <<played, summoners, ranks, stored, rows, failures>>
    BY <1>13 DEF MarkSynced, SetLastSyncedAt
  <2>2. puuid[j] \in summoners /\ listed[j] \in SUBSET played /\ known[j] \subseteq stored
    BY <2>1 DEF JobsTyped
  <2>3. listed[j] \ skipped[j] \subseteq stored
    BY <2>1, <2>2 DEF NothingForgotten
  <2>4. DbTyped' /\ MarkedWhenComplete'
    BY <2>1, <2>2, <2>3 DEF DbTyped, MarkedWhenComplete
  <2> QED BY <2>1, <2>4, ReturnStep
<1>14. CASE UNCHANGED vars
  BY <1>14
  DEF vars, dbVars, jobVars, DbTyped, JobsTyped, OwnMatches, NothingForgotten, OwnMatchInFeed,
      MarkedWhenComplete
<1> QED
  BY <1>1, <1>2, <1>3, <1>4, <1>5, <1>6, <1>7, <1>8, <1>9, <1>10, <1>11, <1>12, <1>13, <1>14
  DEF Next, Work, Trouble

LEMMA Invariance == Spec => []Inv
  BY InitInv, InvStep, PTL DEF Spec

-----------------------------------------------------------------------------

\* Types; a synchronisation that is under way is about a tracked summoner, and
\* the rows of match_participants refer to stored matches and tracked summoners.
THEOREM TypesKept == Spec => []TypeOK
<1>1. Inv => TypeOK
  BY DEF Inv, DbTyped, JobsTyped, TypeOK
<1> QED BY <1>1, Invariance, PTL

\* A match a synchronisation has fetched and saved is in its own summoner's
\* feed, whatever the other synchronisations have stored in between.
THEOREM OwnMatchesSaved == Spec => []OwnMatchInFeed
<1>1. Inv => OwnMatchInFeed
  BY DEF Inv
<1> QED BY <1>1, Invariance, PTL

\* last_synced_at stands for stored matches, crashes and failures included.
THEOREM MarksComplete == Spec => []MarkedWhenComplete
<1>1. Inv => MarkedWhenComplete
  BY DEF Inv
<1> QED BY <1>1, Invariance, PTL

-----------------------------------------------------------------------------
(* The rows of match_participants. *)

\* Rows are only of players who were in the match, and a stored match is in the
\* feed of at least one tracked summoner: nobody's feed shows a foreign game,
\* and no match is kept that no feed can reach.
RowsReal == \A m \in stored, p \in Puuids : <<m, p>> \in rows => p \in Participants[m]
NoOrphans == \A m \in stored : \E p \in summoners : <<m, p>> \in rows

LEMMA RowsStep == Inv /\ RowsReal /\ NoOrphans /\ [Next]_vars => RowsReal' /\ NoOrphans'
<1> SUFFICES ASSUME Inv, RowsReal, NoOrphans, [Next]_vars
             PROVE  RowsReal' /\ NoOrphans'
  OBVIOUS
<1>1. CASE summoners \subseteq summoners' /\ stored' = stored /\ rows' = rows
  BY <1>1 DEF RowsReal, NoOrphans
<1>2. ASSUME NEW j \in Jobs, NEW m \in Matches, SyncMatch(j, m)
      PROVE  RowsReal' /\ NoOrphans'
  <2>1. /\ step[j] = "matches" /\ m \in ids[j]
        /\ stored' = stored \cup {m} /\ rows' = rows \cup TrackedOnly(j, m)
        /\ summoners' = summoners
    BY <1>2 DEF SyncMatch, NextId, Insert
  <2>2. puuid[j] \in tracked[j] /\ puuid[j] \in Participants[m] /\ puuid[j] \in summoners
    BY <2>1 DEF Inv, JobsTyped, OwnMatches
  <2>3. \A k, p : <<k, p>> \in TrackedOnly(j, m) => k = m /\ p \in Participants[m]
    BY DEF TrackedOnly
  <2>4. RowsReal'
    <3>1. \A k, p : <<k, p>> \in rows => k \in stored /\ p \in Puuids
      BY DEF Inv, DbTyped
    <3> QED BY <2>1, <2>3, <3>1 DEF RowsReal
  <2>5. <<m, puuid[j]>> \in rows'
    BY <2>1, <2>2 DEF TrackedOnly
  <2>6. NoOrphans'
    BY <2>1, <2>2, <2>5 DEF NoOrphans
  <2> QED BY <2>4, <2>6
<1> QED
  BY <1>1, <1>2
  DEF Next, Work, Trouble, GameEnds, Crash, SyncProfile, SyncSummoner, Upsert, FetchRanks,
      ReplaceRanks, RanksFail, ListMatches, KnownIDs, TrackedPUUIDs, SkipMatch, Abort,
      MarkSynced, vars, dbVars

\* match_participants is right for every interleaving of the synchronisations:
\* its rows are of players of the match, every match of the table matches has
\* one, and its foreign key never refuses what syncMatch inserts.
THEOREM RowsSound ==
    Spec => [](RowsReal /\ NoOrphans /\ \A j \in Jobs, m \in Matches : Admitted(j, m))
<1>1. Init => RowsReal /\ NoOrphans
  BY DEF Init, RowsReal, NoOrphans
<1>2. Inv => \A j \in Jobs, m \in Matches : Admitted(j, m)
  BY DEF Inv, JobsTyped, Admitted, TrackedOnly
<1> QED BY <1>1, <1>2, Invariance, RowsStep, PTL DEF Spec

-----------------------------------------------------------------------------
(* How far the feed of a summoner is complete. *)

\* Before the loop nothing is given up; in it, what Riot listed is known, still to
\* be looked at, in the summoner's own feed, or given up.
Accounted ==
    \A j \in Jobs :
        /\ step[j] \in {"idle", "ranks", "replace", "list"} => listed[j] = {}
        /\ step[j] \in {"known", "tracked"} => listed[j] = ids[j]
        /\ step[j] = "matches" => listed[j] \subseteq known[j] \cup ids[j] \cup fetched[j] \cup skipped[j]

LEMMA AccountedStep == Inv /\ Accounted /\ [Next]_vars => Accounted'
<1> SUFFICES ASSUME Inv, Accounted, [Next]_vars
             PROVE  Accounted'
  OBVIOUS
<1> USE DEF Inv, JobsTyped, GoOn
<1>1. CASE UNCHANGED jobVars
  BY <1>1 DEF jobVars, Accounted
<1>2. ASSUME NEW js \in SUBSET Jobs, Forget(js)
      PROVE  Accounted'
  <2>1. \A j \in Jobs :
           /\ step'[j] = IF j \in js THEN "idle" ELSE step[j]
           /\ ids'[j] = IF j \in js THEN {} ELSE ids[j]
           /\ known'[j] = IF j \in js THEN {} ELSE known[j]
           /\ listed'[j] = IF j \in js THEN {} ELSE listed[j]
           /\ fetched'[j] = IF j \in js THEN {} ELSE fetched[j]
           /\ skipped'[j] = IF j \in js THEN {} ELSE skipped[j]
    BY <1>2 DEF Forget
  <2> QED BY <2>1 DEF Accounted
<1>3. ASSUME NEW j \in Jobs, NEW p \in Puuids, SyncProfile(j, p) \/ SyncSummoner(j, p)
      PROVE  Accounted'
  BY <1>3 DEF SyncProfile, SyncSummoner, Accounted
<1>4. ASSUME NEW j \in Jobs, FetchRanks(j)
      PROVE  Accounted'
  BY <1>4 DEF FetchRanks, Accounted
<1>5. ASSUME NEW j \in Jobs, AfterRanks(j), step[j] \in {"ranks", "replace"}
      PROVE  Accounted'
  <2>1. CASE addOnly[j]
    BY <1>2, <1>5, <2>1 DEF AfterRanks, Return
  <2>2. CASE ~addOnly[j]
    BY <1>5, <2>2 DEF AfterRanks, Accounted
  <2> QED BY <2>1, <2>2
<1>6. ASSUME NEW j \in Jobs, ListMatches(j)
      PROVE  Accounted'
  BY <1>6, NewestPlayed DEF ListMatches, Accounted
<1>7. ASSUME NEW j \in Jobs, KnownIDs(j)
      PROVE  Accounted'
  BY <1>7 DEF KnownIDs, Accounted
<1>8. ASSUME NEW j \in Jobs, TrackedPUUIDs(j)
      PROVE  Accounted'
  BY <1>8 DEF TrackedPUUIDs, Accounted
<1>9. ASSUME NEW j \in Jobs, NEW m \in Matches, SyncMatch(j, m)
      PROVE  Accounted'
  BY <1>9 DEF SyncMatch, NextId, Accounted
<1>10. ASSUME NEW j \in Jobs, NEW m \in Matches, SkipMatch(j, m)
       PROVE  Accounted'
  BY <1>10 DEF SkipMatch, NextId, Accounted
<1> QED
  BY <1>1, <1>2, <1>3, <1>4, <1>5, <1>6, <1>7, <1>8, <1>9, <1>10
  DEF Next, Work, Trouble, GameEnds, Crash, ReplaceRanks, RanksFail, Abort, MarkSynced,
      Return, vars

\* When a synchronisation is about to be marked, what Riot listed to it is in the
\* summoner's feed, but for the matches it gave up and those that were stored
\* before it began its loop.
FeedButKnown ==
    \A j \in Jobs : step[j] = "matches" /\ ids[j] \subseteq known[j] =>
        \A m \in listed[j] \ (skipped[j] \cup known[j]) : <<m, puuid[j]>> \in rows

\* The hole that LastMatchesInFeed shows is the only one: a match is missing from
\* the feed only because KnownIDs found it, never because of what other
\* synchronisations have stored since.
THEOREM FeedCompleteButKnown == Spec => []FeedButKnown
<1>1. Init => Accounted
  BY DEF Init, Accounted
<1>2. Inv /\ Accounted => FeedButKnown
  BY DEF Inv, OwnMatchInFeed, Accounted, FeedButKnown
<1> QED BY <1>1, <1>2, Invariance, AccountedStep, PTL DEF Spec

=============================================================================
