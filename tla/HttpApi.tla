------------------------------- MODULE HttpApi -------------------------------
(***************************************************************************)
(* The handlers of internal/httpapi that add a summoner (createSummoner),   *)
(* show one (getSummoner) and synchronise one out of turn (forceSync), over *)
(* the table summoners and the pool of jobs.  Each access to the database,  *)
(* the clock or the pool is a step, with other requests, jobs and the       *)
(* ticker in between.  A request is handled once and keeps its answer,      *)
(* which is named by the error code of the source.                          *)
(***************************************************************************)
EXTENDS Integers, Sequences, FiniteSets

CONSTANTS
    Players,     \* puuids
    Names,       \* Riot IDs with their region
    Requests,    \* requests to the API
    Workers,     \* workers of the pool
    QueueSize,   \* its capacity
    Second,      \* ticks of the clock in a second
    Cooldown,    \* manualSyncCooldown in ticks
    Never,       \* last_synced_at IS NULL
    None,        \* no row, no player, no request
    MaxTime,     \* bound: the clock
    MaxRenames,  \* bound: Riot IDs that pass to another player
    MaxRestarts  \* bound: restarts of the process

ASSUME TimeAssumption ==
    /\ Second \in Nat \ {0} /\ Cooldown \in Nat \ {0}
    /\ Never = -1 /\ MaxTime \in Nat
ASSUME BoundsAssumption == MaxRenames \in Nat /\ MaxRestarts \in Nat /\ QueueSize \in Nat

\* The answers: error codes, and a word for each kind of success and for every
\* refusal before the handler's own work.
Codes == {"rejected", "shown", "created", "ok", "stale", "queued", "internal_error",
          "summoner_not_found", "rate_limited", "riot_unauthorized", "riot_timeout",
          "riot_unavailable", "sync_too_soon", "sync_queue_full"}

ASSUME NamesAssumption ==
    /\ None \notin Names \cup Players \cup Requests \cup Codes
    /\ "create" \notin Requests /\ "ticker" \notin Requests

VARIABLES
    clock, bearers,  \* outside: the time, and who has borne each Riot ID of late
    name, mark,      \* table summoners: riot_id (None: no row), last_synced_at
    queue, job,      \* the pool: jobs that wait, and the job of each worker
    stamp,           \* the s.now() a worker has read for MarkSynced
    pc, asked,       \* each request: where it is, the name or puuid it is about
    puuid, seen, at, \* its locals: puuid, last_synced_at it read, now()
    created, cause,  \* its locals: created of Upsert, class of the error
    answer, retry,   \* its answer, and Retry-After in seconds
    renames, restarts,
    unread           \* history: requests whose lookup of a snapshot failed

world == <<clock, bearers, renames>>
table == <<name, mark>>
pool == <<queue, job, stamp, unread>>
request == <<pc, asked, puuid, seen, at, created, cause, answer, retry>>
vars == <<world, table, pool, request, restarts>>

\* A job of the pool: its summoner and who asked for it, a forceSync,
\* "create" or "ticker".
NoJob == [puuid |-> None, by |-> None]
Time == {Never} \cup 0..MaxTime

\* The process starts on the database that earlier ones have left.
Init ==
    /\ clock = 0 /\ renames = 0 /\ restarts = 0
    /\ \E f \in [Names -> Players] : bearers = [n \in Names |-> {f[n]}]
    /\ name \in [Players -> Names \cup {None}]
    /\ mark \in [Players -> {Never, 0}]
    /\ \A p \in Players : name[p] = None => mark[p] = Never
    /\ \A p \in Players : name[p] # None => p \in bearers[name[p]]
    /\ queue = <<>> /\ unread = {}
    /\ job = [w \in Workers |-> NoJob]
    /\ stamp = [w \in Workers |-> Never]
    /\ pc = [r \in Requests |-> "new"]
    /\ asked = [r \in Requests |-> None]
    /\ puuid = [r \in Requests |-> None]
    /\ seen = [r \in Requests |-> Never]
    /\ at = [r \in Requests |-> Never]
    /\ created = [r \in Requests |-> FALSE]
    /\ cause = [r \in Requests |-> None]
    /\ answer = [r \in Requests |-> None]
    /\ retry = [r \in Requests |-> 0]

-----------------------------------------------------------------------------
(* The answer of a request, and the errors that lead to one. *)

\* The locals the handler no longer needs are gone with it.
Respond(r, code) ==
    /\ pc' = [pc EXCEPT ![r] = "answered"]
    /\ answer' = [answer EXCEPT ![r] = code]
    /\ created' = [created EXCEPT ![r] = FALSE]
    /\ cause' = [cause EXCEPT ![r] = None]

\* What SyncProfile can fail with; the region has been validated before.
Causes == {"notFound", "rateLimited", "unauthorized", "timeout", "upstream", "storage"}

\* An expired key is taken for an answer about the summoner.
RiotUnavailableBug(c) == c \notin {"notFound", "rateLimited", "unauthorized"}

\* riotUnavailable: the classes for which the stored snapshot is served.
RiotUnavailable(c) == c \notin {"notFound", "rateLimited"}

\* respondUpstreamError; an error of the database is in its default, too.
UpstreamCode(c) ==
    CASE c = "notFound"     -> "summoner_not_found"
      [] c = "rateLimited"  -> "rate_limited"
      [] c = "unauthorized" -> "riot_unauthorized"
      [] c = "timeout"      -> "riot_timeout"
      [] OTHER              -> "riot_unavailable"

\* APIKeyAuth, a body that does not decode, validateCreateRequest.
Reject(r) ==
    /\ pc[r] = "new"
    /\ Respond(r, "rejected")
    /\ UNCHANGED <<world, table, pool, asked, puuid, seen, at, retry, restarts>>

-----------------------------------------------------------------------------
(* createSummoner and SyncProfile. *)

\* GetAccountByRiotID has resolved the name, to the player who bears it or,
\* from the cache (accountTTL, a day), to one who bore it before him.
Resolve(r, n) ==
    /\ pc[r] = "new"
    /\ pc' = [pc EXCEPT ![r] = "resolved"]
    /\ asked' = [asked EXCEPT ![r] = n]
    /\ \E p \in bearers[n] : puuid' = [puuid EXCEPT ![r] = p]
    /\ UNCHANGED <<world, table, pool, seen, at, created, cause, answer, retry, restarts>>

\* Either call to Riot or Upsert fails (the first of them for a new request).
ProfileFails(r, n, c) ==
    /\ \/ pc[r] = "new" /\ c # "storage"
       \/ pc[r] = "resolved" /\ asked[r] = n
    /\ pc' = [pc EXCEPT ![r] = "failed"]
    /\ asked' = [asked EXCEPT ![r] = n]
    /\ cause' = [cause EXCEPT ![r] = c]
    /\ UNCHANGED <<world, table, pool, puuid, seen, at, created, answer, retry, restarts>>

\* ByPUUID first, then an INSERT ... ON CONFLICT: the row is new if it was
\* missing when the request looked.
UpsertBug(r) ==
    LET p == puuid[r] IN
    \/ /\ pc[r] = "resolved"
       /\ created' = [created EXCEPT ![r] = name[p] = None]
       /\ pc' = [pc EXCEPT ![r] = "looked"]
       /\ UNCHANGED <<world, table, pool, asked, puuid, seen, at, cause, answer, retry, restarts>>
    \/ /\ pc[r] = "looked"
       /\ name' = [name EXCEPT ![p] = asked[r]]
       /\ pc' = [pc EXCEPT ![r] = "saved"]
       /\ UNCHANGED <<world, mark, pool, asked, puuid, seen, at, created, cause, answer, retry, restarts>>

\* GetSummonerByPUUID has answered: Upsert, one statement, which also tells
\* whether it inserted the row.  (syncRanks follows and cannot fail the request.)
Upsert(r) ==
    LET p == puuid[r] IN
    /\ pc[r] = "resolved"
    /\ created' = [created EXCEPT ![r] = name[p] = None]
    /\ name' = [name EXCEPT ![p] = asked[r]]
    /\ pc' = [pc EXCEPT ![r] = "saved"]
    /\ UNCHANGED <<world, mark, pool, asked, puuid, seen, at, cause, answer, retry, restarts>>

\* Runner.Enqueue puts a job into the pool; FALSE when there is no room.
Room == Len(queue) < QueueSize
Enqueue(p, who) == queue' = Append(queue, [puuid |-> p, by |-> who])

\* The matches are queued, or left to the next run of the ticker: 200 or 201.
RespondCreated(r) ==
    /\ pc[r] = "saved"
    /\ IF Room THEN Enqueue(puuid[r], "create") ELSE UNCHANGED queue
    /\ Respond(r, IF created[r] THEN "created" ELSE "ok")
    /\ UNCHANGED <<world, table, job, stamp, unread, asked, puuid, seen, at, retry, restarts>>

\* Summoners.ByRiotID: of several rows the one synchronised last, NULLS LAST.
ByRiotID(n) ==
    LET bearing == {p \in Players : name[p] = n}
    IN  {p \in bearing : \A q \in bearing : mark[q] <= mark[p]}

\* respondStale finds a row and serves it with stale = true.
RespondStale(r) ==
    /\ pc[r] = "failed"
    /\ RiotUnavailable(cause[r])
    /\ \E p \in ByRiotID(asked[r]) : puuid' = [puuid EXCEPT ![r] = p]
    /\ Respond(r, "stale")
    /\ UNCHANGED <<world, table, pool, asked, seen, at, retry, restarts>>

\* An error that a snapshot does not stand in for, or there is no snapshot, or
\* the database fails to say.
RespondUpstreamError(r) ==
    /\ pc[r] = "failed"
    /\ IF RiotUnavailable(cause[r]) /\ ByRiotID(asked[r]) # {}
       THEN unread' = unread \cup {r}
       ELSE UNCHANGED unread
    /\ Respond(r, UpstreamCode(cause[r]))
    /\ UNCHANGED <<world, table, queue, job, stamp, asked, puuid, seen,
                   at, retry, restarts>>

-----------------------------------------------------------------------------
(* getSummoner and forceSync begin with Summoners.ByPUUID. *)

\* getSummoner: the row, or respondStorageError.
GetSummoner(r, p) ==
    /\ pc[r] = "new"
    /\ \/ name[p] = None /\ Respond(r, "summoner_not_found")
       \/ name[p] # None /\ Respond(r, "shown")
       \/ Respond(r, "internal_error")
    /\ UNCHANGED <<world, table, pool, asked, puuid, seen, at, retry, restarts>>

\* forceSync that leaves it to the job to find the row.
ForceSyncBug(r, p) ==
    /\ pc[r] = "new"
    /\ pc' = [pc EXCEPT ![r] = "read"]
    /\ asked' = [asked EXCEPT ![r] = p]
    /\ puuid' = [puuid EXCEPT ![r] = p]
    /\ seen' = [seen EXCEPT ![r] = mark[p]]
    /\ UNCHANGED <<world, table, pool, at, created, cause, answer, retry, restarts>>

\* forceSync has found the row (otherwise it ends as getSummoner does).
ForceSync(r, p) ==
    /\ pc[r] = "new"
    /\ name[p] # None
    /\ pc' = [pc EXCEPT ![r] = "read"]
    /\ asked' = [asked EXCEPT ![r] = p]
    /\ puuid' = [puuid EXCEPT ![r] = p]
    /\ seen' = [seen EXCEPT ![r] = mark[p]]
    /\ UNCHANGED <<world, table, pool, at, created, cause, answer, retry, restarts>>

\* cooldownLeft in ticks: 0 when there is no mark.
Left(r) ==
    IF seen[r] = Never \/ clock - seen[r] >= Cooldown THEN 0
    ELSE Cooldown - (clock - seen[r])

\* Truncated, as an integer division would.
SecondsBug(ticks) == ticks \div Second

\* math.Ceil
Seconds(ticks) == (ticks + Second - 1) \div Second

\* A forceSync that has no cooldown.
CooldownCheckBug(r) ==
    /\ pc[r] = "read"
    /\ at' = [at EXCEPT ![r] = clock]
    /\ pc' = [pc EXCEPT ![r] = "passed"]
    /\ UNCHANGED <<world, table, pool, asked, puuid, seen, created, cause, answer, retry, restarts>>

\* now() against last_synced_at as it was read before.
CooldownCheck(r) ==
    /\ pc[r] = "read"
    /\ at' = [at EXCEPT ![r] = clock]
    /\ IF Left(r) > 0
       THEN /\ retry' = [retry EXCEPT ![r] = Seconds(Left(r))]
            /\ Respond(r, "sync_too_soon")
       ELSE /\ pc' = [pc EXCEPT ![r] = "passed"]
            /\ UNCHANGED <<created, cause, answer, retry>>
    /\ UNCHANGED <<world, table, pool, asked, puuid, seen, restarts>>

\* Enqueue: 202, or 503 when the pool is full.
EnqueueSync(r) ==
    /\ pc[r] = "passed"
    /\ IF Room
       THEN Enqueue(puuid[r], r) /\ Respond(r, "queued")
       ELSE Respond(r, "sync_queue_full") /\ UNCHANGED queue
    /\ UNCHANGED <<world, table, job, stamp, unread, asked, puuid, seen, at, retry, restarts>>

-----------------------------------------------------------------------------
(* The pool and the ticker, as far as last_synced_at is concerned. *)

\* A run of the ticker submits a tracked summoner; its runs do not overlap.
TickerSubmits(p) ==
    /\ name[p] # None /\ Room
    /\ [puuid |-> p, by |-> "ticker"] \notin
          {queue[k] : k \in DOMAIN queue} \cup {job[w] : w \in Workers}
    /\ Enqueue(p, "ticker")
    /\ UNCHANGED <<world, table, job, stamp, unread, request, restarts>>

JobBegins(w) ==
    /\ job[w] = NoJob /\ queue # <<>>
    /\ job' = [job EXCEPT ![w] = Head(queue)]
    /\ queue' = Tail(queue)
    /\ UNCHANGED <<world, table, stamp, unread, request, restarts>>

\* SyncMatches has gone through its list and reads s.now().
JobStamps(w) ==
    /\ job[w] # NoJob /\ stamp[w] = Never
    /\ stamp' = [stamp EXCEPT ![w] = clock]
    /\ UNCHANGED <<world, table, queue, job, unread, request, restarts>>

Leave(w) ==
    /\ job' = [job EXCEPT ![w] = NoJob]
    /\ stamp' = [stamp EXCEPT ![w] = Never]

\* Summoners.MarkSynced
JobMarks(w) ==
    /\ stamp[w] # Never
    /\ mark' = [mark EXCEPT ![job[w].puuid] = stamp[w]]
    /\ Leave(w)
    /\ UNCHANGED <<world, name, queue, unread, request, restarts>>

\* A synchronisation ends with an error and leaves no mark.
JobFails(w) ==
    /\ job[w] # NoJob
    /\ Leave(w)
    /\ UNCHANGED <<world, table, queue, unread, request, restarts>>

\* The process goes down and comes up: requests and jobs are gone, the table stays.
Restart ==
    /\ restarts < MaxRestarts
    /\ restarts' = restarts + 1
    /\ queue' = <<>>
    /\ job' = [w \in Workers |-> NoJob]
    /\ stamp' = [w \in Workers |-> Never]
    /\ pc' = [r \in Requests |-> IF pc[r] = "new" THEN "new" ELSE "answered"]
    /\ created' = [r \in Requests |-> FALSE]
    /\ cause' = [r \in Requests |-> None]
    /\ UNCHANGED <<world, table, unread, asked, puuid, seen, at, answer, retry>>

-----------------------------------------------------------------------------

Tick ==
    /\ clock < MaxTime
    /\ clock' = clock + 1
    /\ UNCHANGED <<bearers, renames, table, pool, request, restarts>>

\* A Riot ID passes to another player.
Rename(n, p) ==
    /\ renames < MaxRenames
    /\ renames' = renames + 1
    /\ bearers' = [bearers EXCEPT ![n] = @ \cup {p}]
    /\ UNCHANGED <<clock, table, pool, request, restarts>>

Handle(r) ==
    \/ Upsert(r) \/ RespondCreated(r) \/ RespondStale(r) \/ RespondUpstreamError(r)
    \/ CooldownCheck(r) \/ EnqueueSync(r)

Arrive(r) ==
    \/ Reject(r)
    \/ \E n \in Names : Resolve(r, n) \/ \E c \in Causes : ProfileFails(r, n, c)
    \/ \E p \in Players : GetSummoner(r, p) \/ ForceSync(r, p)

Work(w) == JobBegins(w) \/ JobStamps(w) \/ JobMarks(w) \/ JobFails(w)

Next ==
    \/ Tick \/ Restart
    \/ \E n \in Names, p \in Players : Rename(n, p)
    \/ \E r \in Requests : Arrive(r) \/ Handle(r)
    \/ \E p \in Players : TickerSubmits(p)
    \/ \E w \in Workers : Work(w)

Spec == Init /\ [][Next]_vars

-----------------------------------------------------------------------------
(* Properties. *)

\* Types; a job is about a tracked summoner.
HttpTypeOK ==
    /\ clock \in 0..MaxTime /\ bearers \in [Names -> SUBSET Players]
    /\ name \in [Players -> Names \cup {None}]
    /\ mark \in [Players -> Time] /\ stamp \in [Workers -> Time]
    /\ \A p \in Players : name[p] = None => mark[p] = Never
    /\ queue \in Seq([puuid : Players, by : Requests \cup {"create", "ticker"}])
    /\ Len(queue) <= QueueSize
    /\ \A k \in DOMAIN queue : name[queue[k].puuid] # None
    /\ \A w \in Workers : job[w] # NoJob => name[job[w].puuid] # None
    /\ \A w \in Workers : stamp[w] # Never => job[w] # NoJob
    /\ pc \in [Requests -> {"new", "resolved", "failed", "saved", "read",
                            "passed", "answered"}]
    /\ seen \in [Requests -> Time] /\ at \in [Requests -> Time]
    /\ created \in [Requests -> BOOLEAN] /\ retry \in [Requests -> Nat]
    /\ answer \in [Requests -> Codes \cup {None}]
    /\ unread \subseteq Requests

\* storage/summoners.go opens no window "for a race between the check and the
\* insertion": of the requests that add one summoner, however they interleave
\* and under whatever Riot ID, one is told 201 and the others 200.
OneCreated ==
    \A r1, r2 \in Requests :
        /\ answer[r1] = "created" /\ answer[r2] = "created"
        /\ puuid[r1] = puuid[r2]
        => r1 = r2

\* Retry-After of sync_too_soon is long enough ("to ask to wait 0 seconds when
\* half a second is left is to lie", sync.go) and no longer: a request that
\* comes after it, with no other synchronisation in between, is not refused
\* again, and a second less would not have been enough.
RetryAfterExact ==
    \A r1, r2 \in Requests :
        /\ answer[r1] = "sync_too_soon"
        /\ pc[r2] = "answered" /\ at[r2] # Never
        /\ puuid[r2] = puuid[r1] /\ seen[r2] = seen[r1]
        => /\ answer[r2] = "sync_too_soon" => at[r2] < at[r1] + retry[r1] * Second
           /\ answer[r2] # "sync_too_soon" => at[r2] > at[r1] + (retry[r1] - 1) * Second

\* A 502 is left "exactly for the case when there is nothing to give"
\* (PROGRESS.md): what was added once is served through every outage of Riot,
\* also one a restart later, unless the row has got another Riot ID or the
\* database does not answer either.
SnapshotServed ==
    [][\A r1, r2 \in Requests :
          /\ answer[r1] \in {"created", "ok"} /\ asked[r1] = asked[r2]
          /\ name[puuid[r1]] = asked[r2]
          /\ answer'[r2] \in {"riot_unauthorized", "riot_timeout", "riot_unavailable"}
          => answer[r2] = answer'[r2] \/ r2 \in unread']_vars

\* A 202 is followed by watching last_synced_at, which it carries as it was
\* (backend/README.md): the mark that the job of an accepted request is about
\* to set is later than the one the request has seen.  It hangs on the
\* cooldown: a job within the same tick could set the same mark once more.
ResultVisible ==
    \A w \in Workers, r \in Requests :
        /\ job[w].by = r /\ answer[r] = "queued" /\ stamp[w] # Never
        => stamp[w] > seen[r]

\* backend/README.md: "not more often than once in 2 minutes for a summoner".
NotMoreOften ==
    \A r1, r2 \in Requests :
        /\ r1 # r2 /\ puuid[r1] = puuid[r2]
        /\ answer[r1] = "queued" /\ answer[r2] = "queued"
        => at[r2] - at[r1] >= Cooldown \/ at[r1] - at[r2] >= Cooldown
==============================================================================
