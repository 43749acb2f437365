----------------------------- MODULE SyncService -----------------------------
(***************************************************************************)
(* internal/syncer/service.go over internal/storage: what one               *)
(* synchronisation reads from Riot and writes to the database, one step per *)
(* call, with several synchronisations interleaved (the pool has three      *)
(* workers, and a summoner may have a periodic and a manual job at once)    *)
(* and with new matches being played meanwhile.  A database statement or    *)
(* transaction is one step.  Summoners are never deleted.                   *)
(***************************************************************************)
EXTENDS Integers, FiniteSets

CONSTANTS
    Puuids,       \* players
    Matches,      \* matches, numbered in the order they are played
    Participants, \* who plays each match
    Count,        \* matches a synchronisation asks for: the newest ones
    Jobs,         \* synchronisations that can be under way at the same time
    Nobody,       \* no player
    MaxFailures   \* bound: failed calls and crashes

ASSUME MatchesAssumption == Matches \subseteq Nat /\ IsFiniteSet(Matches)
ASSUME ParticipantsAssumption == Participants \in [Matches -> SUBSET Puuids]
ASSUME CountAssumption == Count \in Nat \ {0}
ASSUME FailuresAssumption == MaxFailures \in Nat

VARIABLES
    (* Riot. *)
    played,     \* matches that Match-V5 lists
    (* The database. *)
    summoners,  \* table summoners: the tracked puuids
    synced,     \* the summoners whose last_synced_at is set
    ranks,      \* the summoners whose rows in ranked_stats have been replaced
    stored,     \* table matches
    rows,       \* table match_participants: <<match, puuid>>
    (* The synchronisations. *)
    step,       \* where each is
    puuid,      \* whom it is about
    addOnly,    \* it is a SyncProfile, which ends after the ranks
    ids,        \* the ids it still has to look at
    known,      \* its snapshot of known ids
    tracked,    \* its snapshot of tracked puuids
    (* History and bounds. *)
    listed,     \* the ids GetMatchIDs gave it
    fetched,    \* the matches it has fetched and inserted
    skipped,    \* the matches it went on without
    covered,    \* what each player's last MarkSynced stands for: ids listed and not skipped
    failures    \* failed calls and crashes so far

dbVars == <<summoners, synced, ranks, stored, rows>>
jobVars == <<step, puuid, addOnly, ids, known, tracked, listed, fetched, skipped>>
vars == <<played, dbVars, jobVars, covered, failures>>

Newest(p) ==
    LET mine == {m \in played : p \in Participants[m]}
    IN  {m \in mine : Cardinality({k \in mine : k > m}) < Count}

Init ==
    /\ played = {}
    /\ summoners = {}
    /\ synced = {}
    /\ ranks = {}
    /\ stored = {}
    /\ rows = {}
    /\ step = [j \in Jobs |-> "idle"]
    /\ puuid = [j \in Jobs |-> Nobody]
    /\ addOnly = [j \in Jobs |-> FALSE]
    /\ ids = [j \in Jobs |-> {}]
    /\ known = [j \in Jobs |-> {}]
    /\ tracked = [j \in Jobs |-> {}]
    /\ listed = [j \in Jobs |-> {}]
    /\ fetched = [j \in Jobs |-> {}]
    /\ skipped = [j \in Jobs |-> {}]
    /\ covered = [p \in Puuids |-> {}]
    /\ failures = 0

-----------------------------------------------------------------------------
(* Riot and the outside. *)

GameEnds ==
    /\ \E m \in Matches \ played :
          /\ \A k \in played : k < m
          /\ played' = played \cup {m}
    /\ UNCHANGED <<dbVars, jobVars, covered, failures>>

Fails == failures < MaxFailures /\ failures' = failures + 1

GoOn(j, to) == step' = [step EXCEPT ![j] = to]

\* The synchronisations js are over; their locals are gone.
Forget(js) ==
    LET Reset(f, none) == [j \in Jobs |-> IF j \in js THEN none ELSE f[j]]
    IN  /\ step' = Reset(step, "idle")
        /\ puuid' = Reset(puuid, Nobody)
        /\ addOnly' = Reset(addOnly, FALSE)
        /\ ids' = Reset(ids, {})
        /\ known' = Reset(known, {})
        /\ tracked' = Reset(tracked, {})
        /\ listed' = Reset(listed, {})
        /\ fetched' = Reset(fetched, {})
        /\ skipped' = Reset(skipped, {})

Return(j) == Forget({j})

\* The process dies and is started again: what is committed stays.
Crash ==
    /\ Fails
    /\ Forget(Jobs)
    /\ UNCHANGED <<played, dbVars, covered>>

-----------------------------------------------------------------------------
(* internal/storage: one statement or one transaction each. *)

\* Summoners.Upsert
Upsert(p) == summoners' = summoners \cup {p}

\* RankedStats.Replace deletes and inserts in one transaction.
Replace(p) == ranks' = ranks \cup {p}

\* A match that somebody else has stored meanwhile is left as it is.
InsertBug(m, participants) ==
    /\ stored' = stored \cup {m}
    /\ rows' = IF m \in stored THEN rows ELSE rows \cup participants

\* Matches.Insert: what is there already stays, each row by itself.
Insert(m, participants) ==
    /\ stored' = stored \cup {m}
    /\ rows' = rows \cup participants

\* Summoners.MarkSynced
SetLastSyncedAt(p) == synced' = synced \cup {p}

-----------------------------------------------------------------------------
(* SyncProfile and SyncSummoner. *)

\* GetAccountByRiotID and GetSummonerByPUUID have answered: Upsert.
SyncProfile(j, p) ==
    /\ step[j] = "idle"
    /\ Upsert(p)
    /\ puuid' = [puuid EXCEPT ![j] = p]
    /\ addOnly' = [addOnly EXCEPT ![j] = TRUE]
    /\ GoOn(j, "ranks")
    /\ UNCHANGED <<played, synced, ranks, stored, rows, ids, known,
                   tracked, listed, fetched, skipped, covered, failures>>

\* A job taken up without ByPUUID.
SyncSummonerBug(j, p) ==
    /\ step[j] = "idle"
    /\ puuid' = [puuid EXCEPT ![j] = p]
    /\ GoOn(j, "ranks")
    /\ UNCHANGED <<played, dbVars, addOnly, ids, known, tracked,
                   listed, fetched, skipped, covered, failures>>

\* A worker of the pool begins a job: ByPUUID finds the summoner.
SyncSummoner(j, p) ==
    /\ step[j] = "idle"
    /\ p \in summoners
    /\ puuid' = [puuid EXCEPT ![j] = p]
    /\ GoOn(j, "ranks")
    /\ UNCHANGED <<played, dbVars, addOnly, ids, known, tracked,
                   listed, fetched, skipped, covered, failures>>

\* syncRanks: GetLeagueEntriesByPUUID.
FetchRanks(j) ==
    /\ step[j] = "ranks"
    /\ GoOn(j, "replace")
    /\ UNCHANGED <<played, dbVars, puuid, addOnly, ids, known, tracked,
                   listed, fetched, skipped, covered, failures>>

AfterRanks(j) ==
    IF addOnly[j]
    THEN Return(j)
    ELSE /\ GoOn(j, "list")
         /\ UNCHANGED <<puuid, addOnly, ids, known, tracked, listed,
                        fetched, skipped>>

\* syncRanks: the entries go to the database.
ReplaceRanks(j) ==
    /\ step[j] = "replace"
    /\ Replace(puuid[j])
    /\ AfterRanks(j)
    /\ UNCHANGED <<played, summoners, synced, stored, rows, covered, failures>>

\* Either half of syncRanks fails: a warning, and on.  (Two transactions that
\* replace the ranks of one summoner at once are a case of it: the second
\* cannot insert its rows.)
RanksFail(j) ==
    /\ step[j] \in {"ranks", "replace"}
    /\ Fails
    /\ AfterRanks(j)
    /\ UNCHANGED <<played, dbVars, covered>>

-----------------------------------------------------------------------------
(* SyncMatches. *)

ListMatches(j) ==
    /\ step[j] = "list"
    /\ listed' = [listed EXCEPT ![j] = Newest(puuid[j])]
    /\ ids' = [ids EXCEPT ![j] = Newest(puuid[j])]
    /\ GoOn(j, "known")
    /\ UNCHANGED <<played, dbVars, puuid, addOnly, known, tracked,
                   fetched, skipped, covered, failures>>

KnownIDs(j) ==
    /\ step[j] = "known"
    /\ known' = [known EXCEPT ![j] = ids[j] \cap stored]
    /\ GoOn(j, "tracked")
    /\ UNCHANGED <<played, dbVars, puuid, addOnly, ids, tracked,
                   listed, fetched, skipped, covered, failures>>

TrackedPUUIDs(j) ==
    /\ step[j] = "tracked"
    /\ tracked' = [tracked EXCEPT ![j] = summoners]
    /\ GoOn(j, "matches")
    /\ UNCHANGED <<played, dbVars, puuid, addOnly, ids, known,
                   listed, fetched, skipped, covered, failures>>

\* The next id of the list, newest first; known ones are passed over.
NextId(j, m) ==
    /\ step[j] = "matches"
    /\ m \in ids[j] \ known[j]
    /\ \A k \in ids[j] \ known[j] : k <= m
    /\ ids' = [ids EXCEPT ![j] = @ \ {m}]

\* trackedOnly forgotten: all participants are inserted.
TrackedOnlyBug(j, m) == {<<m, p>> : p \in Participants[m]}

\* trackedOnly, with the snapshot taken before the loop
TrackedOnly(j, m) == {<<m, p>> : p \in Participants[m] \cap tracked[j]}

\* The foreign key of match_participants holds for the rows of Insert.
Admitted(j, m) == \A row \in TrackedOnly(j, m) : row[2] \in summoners

\* syncMatch: GetMatch, then Insert of the match and the tracked participants.
SyncMatch(j, m) ==
    /\ NextId(j, m)
    /\ Admitted(j, m)
    /\ Insert(m, TrackedOnly(j, m))
    /\ fetched' = [fetched EXCEPT ![j] = @ \cup {m}]
    /\ UNCHANGED <<played, summoners, synced, ranks, step, puuid, addOnly,
                   known, tracked, listed, skipped, covered, failures>>

\* syncMatch fails on this match alone: a warning, and on.  A foreign key that
\* refuses the rows is no accident and counts for none.
SkipMatch(j, m) ==
    /\ NextId(j, m)
    /\ IF Admitted(j, m) THEN Fails ELSE UNCHANGED failures
    /\ skipped' = [skipped EXCEPT ![j] = @ \cup {m}]
    /\ UNCHANGED <<played, dbVars, step, puuid, addOnly, known,
                   tracked, listed, fetched, covered>>

\* An error that leaves the loop without a return: it ends in MarkSynced.
AbortBug(j) ==
    /\ step[j] = "matches"
    /\ Fails
    /\ ids' = [ids EXCEPT ![j] = {}]
    /\ UNCHANGED <<played, dbVars, step, puuid, addOnly, known,
                   tracked, listed, fetched, skipped, covered>>

\* The list, a snapshot or MarkSynced fails, or a match fails because the key
\* is dead or the context has ended: SyncMatches returns the error.
Abort(j) ==
    /\ step[j] \in {"list", "known", "tracked", "matches"}
    /\ Fails
    /\ Return(j)
    /\ UNCHANGED <<played, dbVars, covered>>

\* Every id has been looked at: last_synced_at moves.
MarkSynced(j) ==
    /\ step[j] = "matches"
    /\ ids[j] \subseteq known[j]
    /\ SetLastSyncedAt(puuid[j])
    /\ Return(j)
    /\ covered' = [covered EXCEPT ![puuid[j]] = listed[j] \ skipped[j]]
    /\ UNCHANGED <<played, summoners, ranks, stored, rows, failures>>

-----------------------------------------------------------------------------

Work(j) ==
    \/ FetchRanks(j) \/ ReplaceRanks(j)
    \/ ListMatches(j) \/ KnownIDs(j) \/ TrackedPUUIDs(j)
    \/ \E m \in Matches : SyncMatch(j, m)
    \/ MarkSynced(j)

Trouble(j) ==
    \/ RanksFail(j) \/ Abort(j) \/ \E m \in Matches : SkipMatch(j, m)

Next ==
    \/ GameEnds \/ Crash
    \/ \E j \in Jobs :
          \/ \E p \in Puuids : SyncProfile(j, p) \/ SyncSummoner(j, p)
          \/ Work(j) \/ Trouble(j)

Spec == Init /\ [][Next]_vars

\* Every tracked summoner is synchronised again and again (the ticker), and a
\* synchronisation that has begun goes on.
FairSpec ==
    /\ Spec
    /\ \A j \in Jobs : WF_vars(Work(j) \/ Trouble(j))
    /\ \A p \in Puuids : SF_vars(\E j \in Jobs : SyncSummoner(j, p))

-----------------------------------------------------------------------------
(* Properties. *)

Steps == {"idle", "ranks", "replace", "list", "known", "tracked", "matches"}

\* Types; a synchronisation that is under way is about a tracked summoner.
TypeOK ==
    /\ played \subseteq Matches
    /\ summoners \subseteq Puuids
    /\ synced \subseteq summoners /\ ranks \subseteq summoners
    /\ stored \subseteq played
    /\ rows \subseteq stored \X summoners
    /\ step \in [Jobs -> Steps]
    /\ puuid \in [Jobs -> Puuids \cup {Nobody}]
    /\ \A j \in Jobs : step[j] # "idle" => puuid[j] \in summoners
    /\ addOnly \in [Jobs -> BOOLEAN]
    /\ ids \in [Jobs -> SUBSET played]
    /\ known \in [Jobs -> SUBSET stored]
    /\ tracked \in [Jobs -> SUBSET summoners]
    /\ covered \in [Puuids -> SUBSET played]
    /\ failures \in 0..MaxFailures

\* A match that a synchronisation has fetched and saved is in the feed of the
\* summoner it is about, even if another synchronisation, which did not know
\* this summoner yet, has stored the match in between.
OwnMatchInFeed ==
    \A j \in Jobs : \A m \in fetched[j] : <<m, puuid[j]>> \in rows

\* A mark stands for data: each match Riot listed to the synchronisation that
\* set last_synced_at is stored, except those it gave up one by one; one that
\* ended on an expired key or a cancelled context leaves no mark.
MarkedWhenComplete == \A p \in Puuids : covered[p] \subseteq stored

\* A match that stays among the newest of a tracked summoner does get stored:
\* what failed, was skipped or was lost in a crash is made up for later.
EventuallyStored ==
    \A p \in Puuids : \A m \in Matches :
        []<>(p \in summoners /\ m \in Newest(p) => m \in stored)

\* SPEC.md: a summoner can be added by Riot ID, and one gets the profile and
\* the last matches.  Stated of a synchronisation that had no failure: when it
\* is about to be marked, the matches Riot listed are in the summoner's feed.
LastMatchesInFeed ==
    \A j \in Jobs :
        step[j] = "matches" /\ ids[j] \subseteq known[j] /\ skipped[j] = {} =>
            \A m \in listed[j] : <<m, puuid[j]>> \in rows

==============================================================================
