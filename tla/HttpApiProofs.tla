---------------------------- MODULE HttpApiProofs ----------------------------
(***************************************************************************)
(* Proofs about internal/httpapi for any number of players, Riot IDs,       *)
(* requests, workers and restarts.                                          *)
(***************************************************************************)
EXTENDS HttpApi, TLAPS, SequenceTheorems, WellFoundedInduction

-----------------------------------------------------------------------------
(* Types, in three parts that few actions disturb at a time. *)

Jobs == [puuid : Players, by : Requests \cup {"create", "ticker"}]
Places == {"new", "resolved", "failed", "saved", "read", "passed", "answered"}

TableTyped ==
    /\ clock \in 0..MaxTime /\ bearers \in [Names -> SUBSET Players]
    /\ name \in [Players -> Names \cup {None}]
    /\ mark \in [Players -> Time]
    /\ \A p \in Players : name[p] = None => mark[p] = Never

PoolTyped ==
    /\ queue \in Seq(Jobs) /\ Len(queue) <= QueueSize
    /\ \A k \in DOMAIN queue : name[queue[k].puuid] # None
    /\ job \in [Workers -> Jobs \cup {NoJob}] /\ stamp \in [Workers -> Time]
    /\ \A w \in Workers : job[w] # NoJob => name[job[w].puuid] # None
    /\ \A w \in Workers : stamp[w] # Never => job[w] # NoJob

\* The locals of a handler, and what each place in it stands for.
RequestsTyped ==
    /\ pc \in [Requests -> Places]
    /\ asked \in [Requests -> Names \cup Players \cup {None}]
    /\ puuid \in [Requests -> Players \cup {None}]
    /\ seen \in [Requests -> Time] /\ at \in [Requests -> Time]
    /\ created \in [Requests -> BOOLEAN] /\ retry \in [Requests -> Nat]
    /\ answer \in [Requests -> Codes \cup {None}]
    /\ cause \in [Requests -> Causes \cup {None}]
    /\ unread \subseteq Requests
    /\ \A r \in Requests :
          /\ pc[r] \in {"resolved", "saved"} => asked[r] \in Names /\ puuid[r] \in Players
          /\ pc[r] = "failed" => asked[r] \in Names
          /\ pc[r] \in {"saved", "read", "passed"} =>
                puuid[r] \in Players /\ name[puuid[r]] # None

Typed == TableTyped /\ PoolTyped /\ RequestsTyped

LEMMA TypedImplies == Typed => HttpTypeOK
<1> SUFFICES ASSUME Typed
             PROVE  HttpTypeOK
  OBVIOUS
<1> USE DEF Typed
<1>1. queue \in Seq([puuid : Players, by : Requests \cup {"create", "ticker"}])
  BY DEF PoolTyped, Jobs
<1> QED BY <1>1 DEF HttpTypeOK, TableTyped, PoolTyped, RequestsTyped, Places

LEMMA NoJobIsNone == NoJob \notin Jobs
  BY NamesAssumption DEF NoJob, Jobs

LEMMA InitTyped == Init => Typed
<1> SUFFICES ASSUME Init
             PROVE  Typed
  OBVIOUS
<1> USE TimeAssumption, BoundsAssumption DEF Init
<1>1. TableTyped
  BY DEF TableTyped, Time
<1>2. PoolTyped
  BY DEF PoolTyped, Time
<1>3. RequestsTyped
  BY DEF RequestsTyped, Places, Time
<1> QED BY <1>1, <1>2, <1>3 DEF Typed

\* A row stays, so the pool and the requests may rely on it.
RowsStay == \A p \in Players : name[p] # None => name'[p] # None

LEMMA PoolKept ==
    ASSUME PoolTyped, RowsStay, UNCHANGED <<queue, job, stamp>>
    PROVE  PoolTyped'
<1> USE NoJobIsNone
<1>1. \A k \in DOMAIN queue : queue[k] \in Jobs
  BY LenProperties DEF PoolTyped
<1>2. \A k \in DOMAIN queue : queue[k].puuid \in Players
  BY <1>1 DEF Jobs
<1>3. \A w \in Workers : job[w] # NoJob => job[w].puuid \in Players
  BY DEF PoolTyped, Jobs
<1> QED BY <1>2, <1>3 DEF PoolTyped, RowsStay

LEMMA RequestsKept ==
    ASSUME RequestsTyped, RowsStay, UNCHANGED request, UNCHANGED unread
    PROVE  RequestsTyped'
  BY DEF RequestsTyped, RowsStay, request

\* A handler answers, and may have set the locals that answers depend on.
LEMMA Responded ==
    ASSUME RequestsTyped, RowsStay,
           NEW r \in Requests, NEW code \in Codes, Respond(r, code),
           asked' = asked, puuid' \in [Requests -> Players \cup {None}],
           \A s \in Requests \ {r} : puuid'[s] = puuid[s],
           seen' = seen, at' \in [Requests -> Time], retry' \in [Requests -> Nat],
           unread' \subseteq Requests
    PROVE  RequestsTyped'
<1>1. /\ pc' \in [Requests -> Places]
      /\ created' \in [Requests -> BOOLEAN]
      /\ answer' \in [Requests -> Codes \cup {None}]
      /\ cause' \in [Requests -> Causes \cup {None}]
  BY DEF RequestsTyped, Respond, Places
<1>2. \A s \in Requests : pc'[s] = IF s = r THEN "answered" ELSE pc[s]
  BY DEF RequestsTyped, Respond
<1> QED BY <1>1, <1>2 DEF RequestsTyped, RowsStay

\* A job goes into the pool.
LEMMA Enqueued ==
    ASSUME PoolTyped, NEW p \in Players, name[p] # None, Room,
           NEW who \in Requests \cup {"create", "ticker"}, Enqueue(p, who),
           UNCHANGED <<name, job, stamp>>
    PROVE  PoolTyped'
<1> DEFINE j == [puuid |-> p, by |-> who]
<1>1. queue \in Seq(Jobs) /\ Len(queue) < QueueSize /\ j \in Jobs
  BY DEF PoolTyped, Room, Jobs
<1>2. queue' = Append(queue, j)
  BY DEF Enqueue
<1>3. j.puuid = p
  OBVIOUS
<1> HIDE DEF j
<1>4. /\ queue' \in Seq(Jobs) /\ Len(queue') = Len(queue) + 1
      /\ \A k \in DOMAIN queue' : queue'[k] = IF k = Len(queue) + 1 THEN j ELSE queue[k]
  BY <1>1, <1>2
<1>5. Len(queue) \in Nat /\ DOMAIN queue = 1..Len(queue) /\ DOMAIN queue' = 1..Len(queue')
  BY <1>1, <1>4, LenProperties
<1>6. ASSUME NEW k \in DOMAIN queue'
      PROVE  name[queue'[k].puuid] # None
  BY <1>3, <1>4, <1>5 DEF PoolTyped
<1>7. Len(queue') <= QueueSize
  BY <1>1, <1>4, <1>5, BoundsAssumption
<1> QED BY <1>4, <1>6, <1>7 DEF PoolTyped

LEMMA StepTyped == Typed /\ [Next]_vars => Typed'
<1> SUFFICES ASSUME TableTyped, PoolTyped, RequestsTyped, [Next]_vars
             PROVE  Typed'
  BY DEF Typed
<1> USE DEF Typed, world, table, pool, request
<1>1. CASE Tick
  <2>1. TableTyped' /\ RowsStay
    BY <1>1, TimeAssumption DEF Tick, TableTyped, RowsStay
  <2> QED BY <1>1, <2>1, PoolKept, RequestsKept DEF Tick
<1>2. CASE Restart
  <2>1. TableTyped' /\ name' = name
    BY <1>2 DEF Restart, TableTyped
  <2>2. PoolTyped'
    BY <1>2, TimeAssumption, BoundsAssumption DEF Restart, PoolTyped, Time
  <2>3. RequestsTyped'
    BY <1>2, <2>1 DEF Restart, RequestsTyped, Places
  <2> QED BY <2>1, <2>2, <2>3
<1>3. ASSUME NEW n \in Names, NEW p \in Players, Rename(n, p)
      PROVE  Typed'
  <2>1. TableTyped' /\ RowsStay
    BY <1>3 DEF Rename, TableTyped, RowsStay
  <2> QED BY <1>3, <2>1, PoolKept, RequestsKept DEF Rename
<1>4. ASSUME NEW r \in Requests, Reject(r)
      PROVE  Typed'
  <2>1. TableTyped' /\ RowsStay
    BY <1>4 DEF Reject, TableTyped, RowsStay
  <2>2. RequestsTyped'
    <3>1. Respond(r, "rejected")
      BY <1>4 DEF Reject
    <3>2. UNCHANGED <<asked, puuid, seen, at, retry, unread>>
      BY <1>4 DEF Reject
    <3> QED BY <3>1, <3>2, <2>1, Responded DEF RequestsTyped, Codes
  <2> QED BY <1>4, <2>1, <2>2, PoolKept DEF Reject
<1>5. ASSUME NEW r \in Requests, NEW n \in Names, Resolve(r, n)
      PROVE  Typed'
  <2>1. TableTyped' /\ RowsStay
    BY <1>5 DEF Resolve, TableTyped, RowsStay
  <2>2. RequestsTyped'
    BY <1>5 DEF Resolve, RequestsTyped, TableTyped, Places
  <2> QED BY <1>5, <2>1, <2>2, PoolKept DEF Resolve
<1>6. ASSUME NEW r \in Requests, NEW n \in Names, NEW c \in Causes, ProfileFails(r, n, c)
      PROVE  Typed'
  <2>1. TableTyped' /\ RowsStay
    BY <1>6 DEF ProfileFails, TableTyped, RowsStay
  <2>2. RequestsTyped'
    BY <1>6 DEF ProfileFails, RequestsTyped, Places
  <2> QED BY <1>6, <2>1, <2>2, PoolKept DEF ProfileFails
<1>7. ASSUME NEW r \in Requests, NEW p \in Players, GetSummoner(r, p)
      PROVE  Typed'
  <2>1. TableTyped' /\ RowsStay
    BY <1>7 DEF GetSummoner, TableTyped, RowsStay
  <2>2. RequestsTyped'
    <3>1. PICK code \in Codes : Respond(r, code)
      BY <1>7 DEF GetSummoner, Codes
    <3>2. UNCHANGED <<asked, puuid, seen, at, retry, unread>>
      BY <1>7 DEF GetSummoner
    <3> QED BY <3>1, <3>2, <2>1, Responded DEF RequestsTyped
  <2> QED BY <1>7, <2>1, <2>2, PoolKept DEF GetSummoner
<1>8. ASSUME NEW r \in Requests, NEW p \in Players, ForceSync(r, p)
      PROVE  Typed'
  <2>1. TableTyped' /\ RowsStay
    BY <1>8 DEF ForceSync, TableTyped, RowsStay
  <2>2. RequestsTyped'
    BY <1>8 DEF ForceSync, RequestsTyped, TableTyped, Places
  <2> QED BY <1>8, <2>1, <2>2, PoolKept DEF ForceSync
<1>9. ASSUME NEW r \in Requests, Upsert(r)
      PROVE  Typed'
  <2>1. asked[r] \in Names /\ asked[r] # None /\ puuid[r] \in Players
    BY <1>9, NamesAssumption DEF Upsert, RequestsTyped
  <2>2. TableTyped' /\ RowsStay
    BY <1>9, <2>1 DEF Upsert, TableTyped, RowsStay
  <2>3. RequestsTyped'
    BY <1>9, <2>1, <2>2 DEF Upsert, RequestsTyped, RowsStay, Places, TableTyped
  <2> QED BY <1>9, <2>2, <2>3, PoolKept DEF Upsert
<1>10. ASSUME NEW r \in Requests, RespondCreated(r)
      PROVE  Typed'
  <2>1. TableTyped' /\ RowsStay /\ puuid[r] \in Players /\ name[puuid[r]] # None
    BY <1>10 DEF RespondCreated, TableTyped, RequestsTyped, RowsStay
  <2>2. RequestsTyped'
    <3>1. PICK code \in Codes : Respond(r, code)
      BY <1>10 DEF RespondCreated, Codes
    <3>2. UNCHANGED <<asked, puuid, seen, at, retry, unread>>
      BY <1>10 DEF RespondCreated
    <3> QED BY <3>1, <3>2, <2>1, Responded DEF RequestsTyped
  <2>3. PoolTyped'
    <3>1. CASE Room
      <4>1. Enqueue(puuid[r], "create") /\ UNCHANGED <<name, job, stamp>>
        BY <1>10, <3>1 DEF RespondCreated
      <4> QED BY <3>1, <4>1, <2>1, Enqueued
    <3>2. CASE ~Room
      BY <1>10, <3>2, <2>1, PoolKept DEF RespondCreated
    <3> QED BY <3>1, <3>2
  <2> QED BY <2>1, <2>2, <2>3
<1>11. ASSUME NEW r \in Requests, RespondStale(r)
      PROVE  Typed'
  <2>1. TableTyped' /\ RowsStay
    BY <1>11 DEF RespondStale, TableTyped, RowsStay
  <2>2. RequestsTyped'
    <3>1. Respond(r, "stale")
      BY <1>11 DEF RespondStale
    <3>2. UNCHANGED <<asked, seen, at, retry, unread>>
      BY <1>11 DEF RespondStale
    <3>3. PICK p \in Players : puuid' = [puuid EXCEPT ![r] = p]
      BY <1>11 DEF RespondStale, ByRiotID
    <3> QED BY <3>1, <3>2, <3>3, <2>1, Responded DEF RequestsTyped, Codes
  <2> QED BY <1>11, <2>1, <2>2, PoolKept DEF RespondStale
<1>12. ASSUME NEW r \in Requests, RespondUpstreamError(r)
      PROVE  Typed'
  <2>1. TableTyped' /\ RowsStay
    BY <1>12 DEF RespondUpstreamError, TableTyped, RowsStay
  <2>2. RequestsTyped'
    <3>1. Respond(r, UpstreamCode(cause[r])) /\ UpstreamCode(cause[r]) \in Codes
      BY <1>12 DEF RespondUpstreamError, UpstreamCode, Codes
    <3>2. UNCHANGED <<asked, puuid, seen, at, retry>>
      BY <1>12 DEF RespondUpstreamError
    <3>3. unread' \subseteq Requests
      BY <1>12 DEF RespondUpstreamError, RequestsTyped
    <3> QED BY <3>1, <3>2, <3>3, <2>1, Responded DEF RequestsTyped
  <2> QED BY <1>12, <2>1, <2>2, PoolKept DEF RespondUpstreamError
<1>13. ASSUME NEW r \in Requests, CooldownCheck(r)
      PROVE  Typed'
  <2>1. TableTyped' /\ RowsStay
    BY <1>13 DEF CooldownCheck, TableTyped, RowsStay
  <2>2. UNCHANGED <<asked, puuid, seen, unread>> /\ at' \in [Requests -> Time]
    BY <1>13, TimeAssumption DEF CooldownCheck, RequestsTyped, TableTyped, Time
  <2>3. CASE Left(r) > 0
    <3>1. Respond(r, "sync_too_soon")
      BY <1>13, <2>3 DEF CooldownCheck
    <3>2. Left(r) \in Nat
      BY <2>3, TimeAssumption DEF Left, RequestsTyped, TableTyped, Time
    <3>3. Seconds(Left(r)) \in Nat
      <4> DEFINE l == Left(r)
      <4>1. l \in Nat /\ Second \in Nat \ {0}
        BY <3>2, TimeAssumption
      <4> HIDE DEF l
      <4>2. (l + Second - 1) \div Second \in Nat
        BY <4>1
      <4> QED BY <4>2 DEF Seconds, l
    <3>4. retry' \in [Requests -> Nat]
      BY <1>13, <2>3, <3>3 DEF CooldownCheck, RequestsTyped
    <3>5. RequestsTyped'
      BY <3>1, <3>4, <2>1, <2>2, Responded DEF RequestsTyped, Codes
    <3> QED BY <1>13, <2>1, <3>5, PoolKept DEF CooldownCheck
  <2>4. CASE ~(Left(r) > 0)
    <3>1. RequestsTyped'
      BY <1>13, <2>1, <2>2, <2>4 DEF CooldownCheck, RequestsTyped, RowsStay, Places
    <3> QED BY <1>13, <2>1, <3>1, PoolKept DEF CooldownCheck
  <2> QED BY <2>3, <2>4
<1>14. ASSUME NEW r \in Requests, EnqueueSync(r)
      PROVE  Typed'
  <2>1. TableTyped' /\ RowsStay /\ puuid[r] \in Players /\ name[puuid[r]] # None
    BY <1>14 DEF EnqueueSync, TableTyped, RequestsTyped, RowsStay
  <2>2. RequestsTyped'
    <3>1. PICK code \in Codes : Respond(r, code)
      BY <1>14 DEF EnqueueSync, Codes
    <3>2. UNCHANGED <<asked, puuid, seen, at, retry, unread>>
      BY <1>14 DEF EnqueueSync
    <3> QED BY <3>1, <3>2, <2>1, Responded DEF RequestsTyped
  <2>3. PoolTyped'
    <3>1. CASE Room
      <4>1. Enqueue(puuid[r], r) /\ UNCHANGED <<name, job, stamp>>
        BY <1>14, <3>1 DEF EnqueueSync
      <4> QED BY <3>1, <4>1, <2>1, Enqueued
    <3>2. CASE ~Room
      BY <1>14, <3>2, <2>1, PoolKept DEF EnqueueSync
    <3> QED BY <3>1, <3>2
  <2> QED BY <2>1, <2>2, <2>3
<1>15. ASSUME NEW p \in Players, TickerSubmits(p)
      PROVE  Typed'
  <2>1. TableTyped' /\ RowsStay
    BY <1>15 DEF TickerSubmits, TableTyped, RowsStay
  <2>2. PoolTyped'
    <3>1. Enqueue(p, "ticker") /\ UNCHANGED <<name, job, stamp>> /\ name[p] # None /\ Room
      BY <1>15 DEF TickerSubmits
    <3> QED BY <3>1, Enqueued
  <2> QED BY <1>15, <2>1, <2>2, RequestsKept DEF TickerSubmits
<1>16. ASSUME NEW w \in Workers, JobBegins(w)
      PROVE  Typed'
  <2>1. TableTyped' /\ RowsStay
    BY <1>16 DEF JobBegins, TableTyped, RowsStay
  <2>2. PoolTyped'
    <3>1. queue \in Seq(Jobs) /\ queue # <<>>
      BY <1>16 DEF JobBegins, PoolTyped
    <3>2. /\ Head(queue) \in Jobs /\ Head(queue) = queue[1] /\ 1 \in DOMAIN queue
          /\ Tail(queue) \in Seq(Jobs) /\ Len(Tail(queue)) = Len(queue) - 1
          /\ \A k \in DOMAIN Tail(queue) :
                k + 1 \in DOMAIN queue /\ Tail(queue)[k] = queue[k + 1]
      <4>1. Len(queue) \in Nat /\ Len(queue) >= 1
        BY <3>1, EmptySeq, LenProperties
      <4>2. /\ Tail(queue) \in Seq(Jobs) /\ Len(Tail(queue)) = Len(queue) - 1
            /\ \A k \in 1..Len(Tail(queue)) : Tail(queue)[k] = queue[k + 1]
        BY <3>1, HeadTailProperties
      <4>3. Head(queue) \in Jobs /\ Head(queue) = queue[1]
        BY <3>1, HeadTailProperties
      <4>4. DOMAIN queue = 1..Len(queue) /\ DOMAIN Tail(queue) = 1..Len(Tail(queue))
        BY <3>1, <4>2, LenProperties
      <4> QED BY <4>1, <4>2, <4>3, <4>4
    <3>3. Len(queue) \in Nat /\ QueueSize \in Nat
      BY <3>1, LenProperties, BoundsAssumption
    <3>4. /\ queue' = Tail(queue) /\ job' = [job EXCEPT ![w] = Head(queue)]
          /\ UNCHANGED <<name, stamp>>
      BY <1>16 DEF JobBegins
    <3>5. /\ queue' \in Seq(Jobs) /\ Len(queue') <= QueueSize
          /\ \A k \in DOMAIN queue' : name'[queue'[k].puuid] # None
      BY <3>2, <3>3, <3>4 DEF PoolTyped
    <3>6. /\ job' \in [Workers -> Jobs \cup {NoJob}]
          /\ \A v \in Workers : job'[v] # NoJob => name'[job'[v].puuid] # None
          /\ \A v \in Workers : stamp'[v] # Never => job'[v] # NoJob
      BY <3>2, <3>4, NoJobIsNone DEF PoolTyped
    <3> QED BY <3>4, <3>5, <3>6 DEF PoolTyped
  <2> QED BY <1>16, <2>1, <2>2, RequestsKept DEF JobBegins
<1>17. ASSUME NEW w \in Workers, JobStamps(w)
      PROVE  Typed'
  <2>1. TableTyped' /\ RowsStay
    BY <1>17 DEF JobStamps, TableTyped, RowsStay
  <2>2. PoolTyped'
    BY <1>17, TimeAssumption DEF JobStamps, PoolTyped, TableTyped, Time
  <2> QED BY <1>17, <2>1, <2>2, RequestsKept DEF JobStamps
<1>18. ASSUME NEW w \in Workers, JobMarks(w)
      PROVE  Typed'
  <2>1. job[w] \in Jobs /\ job[w].puuid \in Players /\ stamp[w] \in Time
        /\ name[job[w].puuid] # None
    BY <1>18, NoJobIsNone DEF JobMarks, PoolTyped, Jobs
  <2>2. TableTyped' /\ RowsStay
    BY <1>18, <2>1 DEF JobMarks, TableTyped, RowsStay
  <2>3. PoolTyped'
    BY <1>18, TimeAssumption DEF JobMarks, Leave, PoolTyped, Time
  <2> QED BY <1>18, <2>2, <2>3, RequestsKept DEF JobMarks
<1>19. ASSUME NEW w \in Workers, JobFails(w)
      PROVE  Typed'
  <2>1. TableTyped' /\ RowsStay
    BY <1>19 DEF JobFails, TableTyped, RowsStay
  <2>2. PoolTyped'
    BY <1>19, TimeAssumption DEF JobFails, Leave, PoolTyped, Time
  <2> QED BY <1>19, <2>1, <2>2, RequestsKept DEF JobFails
<1>20. CASE UNCHANGED vars
  <2>1. TableTyped' /\ RowsStay
    BY <1>20 DEF vars, TableTyped, RowsStay
  <2> QED BY <1>20, <2>1, PoolKept, RequestsKept DEF vars
<1> QED
  BY <1>1, <1>2, <1>3, <1>4, <1>5, <1>6, <1>7, <1>8, <1>9, <1>10, <1>11, <1>12,
     <1>13, <1>14, <1>15, <1>16, <1>17, <1>18, <1>19, <1>20
  DEF Next, Arrive, Handle, Work

\* The state of the handlers, the table and the pool keeps its types, and a
\* job, a handler past Upsert and a forceSync are about a summoner that is there.
THEOREM HttpTypeCorrect == Spec => []HttpTypeOK
<1>1. Spec => []Typed
  BY InitTyped, StepTyped, PTL DEF Spec
<1> QED BY <1>1, TypedImplies, PTL

-----------------------------------------------------------------------------
(* One request is told 201.  A request claims the creation of a summoner from *)
(* the Upsert that inserted the row on; nothing but that Upsert can claim it,  *)
(* and it finds no row, while a claimed summoner has one.                      *)

Claims(r) == created[r] \/ answer[r] = "created"

Progress ==
    /\ \A r \in Requests : pc[r] # "answered" => answer[r] = None
    /\ \A r \in Requests : created[r] => pc[r] = "saved"

Claimed ==
    /\ \A r \in Requests : Claims(r) => puuid[r] \in Players /\ name[puuid[r]] # None
    /\ \A r1, r2 \in Requests :
          Claims(r1) /\ Claims(r2) /\ puuid[r1] = puuid[r2] => r1 = r2

LEMMA ClaimedImplies == Claimed => OneCreated
  BY DEF Claimed, Claims, OneCreated

LEMMA InitClaimed == Init => Progress /\ Claimed
  BY NamesAssumption DEF Init, Progress, Claimed, Claims, Codes

LEMMA RespondProgress ==
    ASSUME RequestsTyped, Progress, NEW r \in Requests, NEW code, Respond(r, code)
    PROVE  Progress'
  BY DEF RequestsTyped, Progress, Respond

LEMMA StepProgress == Typed /\ Progress /\ [Next]_vars => Progress'
<1> SUFFICES ASSUME RequestsTyped, Progress, [Next]_vars
             PROVE  Progress'
  BY DEF Typed
<1> USE DEF request
<1>1. CASE Restart
  BY <1>1 DEF Restart, RequestsTyped, Progress
<1>2. ASSUME NEW r \in Requests, Arrive(r)
      PROVE  Progress'
  <2>1. CASE \E code : Respond(r, code)
    BY <2>1, RespondProgress
  <2>2. ASSUME NEW n \in Names, Resolve(r, n)
        PROVE  Progress'
    BY <2>2 DEF Resolve, RequestsTyped, Progress
  <2>3. ASSUME NEW n \in Names, NEW c \in Causes, ProfileFails(r, n, c)
        PROVE  Progress'
    BY <2>3 DEF ProfileFails, RequestsTyped, Progress
  <2>4. ASSUME NEW p \in Players, ForceSync(r, p)
        PROVE  Progress'
    BY <2>4 DEF ForceSync, RequestsTyped, Progress
  <2> QED BY <1>2, <2>1, <2>2, <2>3, <2>4 DEF Arrive, Reject, GetSummoner
<1>3. ASSUME NEW r \in Requests, Handle(r)
      PROVE  Progress'
  <2>1. CASE \E code : Respond(r, code)
    BY <2>1, RespondProgress
  <2>2. CASE Upsert(r)
    BY <2>2 DEF Upsert, RequestsTyped, Progress
  <2>3. CASE CooldownCheck(r) /\ UNCHANGED <<created, answer>>
                              /\ pc' = [pc EXCEPT ![r] = "passed"]
    BY <2>3 DEF CooldownCheck, RequestsTyped, Progress
  <2> QED
    BY <1>3, <2>1, <2>2, <2>3
    DEF Handle, RespondCreated, RespondStale, RespondUpstreamError, CooldownCheck, EnqueueSync
<1>4. CASE UNCHANGED request
  BY <1>4 DEF Progress
<1> QED
  BY <1>1, <1>2, <1>3, <1>4
  DEF Next, vars, Tick, Rename, TickerSubmits, Work, JobBegins, JobStamps, JobMarks, JobFails

\* No row goes: the only action that writes a row's name puts a Riot ID there.
LEMMA NoRowGoes == Typed /\ [Next]_vars => RowsStay
<1> SUFFICES ASSUME TableTyped, RequestsTyped, [Next]_vars
             PROVE  RowsStay
  BY DEF Typed
<1>1. ASSUME NEW r \in Requests, Upsert(r)
      PROVE  RowsStay
  BY <1>1, NamesAssumption DEF Upsert, TableTyped, RequestsTyped, RowsStay
<1>2. CASE UNCHANGED name
  BY <1>2 DEF RowsStay
<1> QED
  BY <1>1, <1>2
  DEF Next, vars, world, table, Tick, Restart, Rename, TickerSubmits, Work, JobBegins,
      JobStamps, JobMarks, JobFails, Arrive, Reject, Resolve, ProfileFails, GetSummoner,
      ForceSync, Handle, RespondCreated, RespondStale, RespondUpstreamError,
      CooldownCheck, EnqueueSync

\* A step after which every claim is one from before it.
LEMMA NothingClaimed ==
    ASSUME Claimed, RowsStay,
           \A s \in Requests : Claims(s)' => Claims(s) /\ puuid'[s] = puuid[s]
    PROVE  Claimed'
  BY DEF Claimed, RowsStay

LEMMA StepClaimed == Typed /\ Progress /\ Claimed /\ [Next]_vars => Claimed'
<1> SUFFICES ASSUME Typed, Progress, Claimed, [Next]_vars
             PROVE  Claimed'
  OBVIOUS
<1> USE DEF request
<1>1. RequestsTyped /\ TableTyped /\ RowsStay
  BY NoRowGoes DEF Typed
<1>2. ASSUME NEW r \in Requests, NEW code, Respond(r, code),
             code = "created" => created[r],
             \/ puuid' = puuid
             \/ code = "stale" /\ \A s \in Requests \ {r} : puuid'[s] = puuid[s]
      PROVE  Claimed'
  <2>1. \A s \in Requests : Claims(s)' => Claims(s) /\ puuid'[s] = puuid[s]
    BY <1>1, <1>2 DEF RequestsTyped, Respond, Claims
  <2> QED BY <1>1, <2>1, NothingClaimed
<1>3. CASE Restart
  <2>1. \A s \in Requests : Claims(s)' => Claims(s) /\ puuid'[s] = puuid[s]
    BY <1>1, <1>3 DEF Restart, RequestsTyped, Claims
  <2> QED BY <1>1, <2>1, NothingClaimed
<1>4. ASSUME NEW r \in Requests, Arrive(r)
      PROVE  Claimed'
  <2>1. ASSUME pc[r] = "new",
               UNCHANGED <<created, answer>>, \A s \in Requests \ {r} : puuid'[s] = puuid[s]
        PROVE  Claimed'
    <3>1. ~Claims(r)
      BY <2>1, <1>1, NamesAssumption DEF Progress, Claims, RequestsTyped, Codes
    <3>2. \A s \in Requests : Claims(s)' => Claims(s) /\ puuid'[s] = puuid[s]
      BY <2>1, <3>1 DEF Claims
    <3> QED BY <1>1, <3>2, NothingClaimed
  <2>2. ASSUME NEW n \in Names, Resolve(r, n)
        PROVE  Claimed'
    BY <1>1, <2>1, <2>2 DEF Resolve, RequestsTyped
  <2>3. ASSUME NEW n \in Names, NEW c \in Causes, ProfileFails(r, n, c)
        PROVE  Claimed'
    <3>1. \A s \in Requests : Claims(s)' => Claims(s) /\ puuid'[s] = puuid[s]
      BY <2>3 DEF ProfileFails, Claims
    <3> QED BY <1>1, <3>1, NothingClaimed
  <2>4. ASSUME NEW p \in Players, ForceSync(r, p)
        PROVE  Claimed'
    BY <1>1, <2>1, <2>4 DEF ForceSync, RequestsTyped
  <2>5. CASE Reject(r)
    BY <1>2, <2>5 DEF Reject
  <2>6. ASSUME NEW p \in Players, GetSummoner(r, p)
        PROVE  Claimed'
    <3>1. puuid' = puuid /\ \/ Respond(r, "summoner_not_found")
                            \/ Respond(r, "shown") \/ Respond(r, "internal_error")
      BY <2>6 DEF GetSummoner
    <3> QED BY <1>2, <3>1
  <2> QED BY <1>4, <2>2, <2>3, <2>4, <2>5, <2>6 DEF Arrive
<1>5. ASSUME NEW r \in Requests, Upsert(r)
      PROVE  Claimed'
  <2>1. puuid[r] \in Players /\ asked[r] \in Names /\ asked[r] # None
    BY <1>1, <1>5, NamesAssumption DEF Upsert, RequestsTyped
  <2>2. ~Claims(r) /\ answer'[r] = None
    BY <1>1, <1>5, NamesAssumption DEF Upsert, Progress, Claims, RequestsTyped, Codes
  <2>3. name'[puuid[r]] # None /\ puuid' = puuid
    BY <1>1, <1>5, <2>1 DEF Upsert, TableTyped
  <2>4. \A s \in Requests \ {r} : Claims(s)' => Claims(s)
    BY <1>1, <1>5 DEF Upsert, Claims, RequestsTyped
  <2>5. Claims(r)' => name[puuid[r]] = None
    BY <1>1, <1>5, <2>2, NamesAssumption DEF Upsert, Claims, RequestsTyped
  <2>6. ASSUME NEW s \in Requests, Claims(s)'
        PROVE  puuid'[s] \in Players /\ name'[puuid'[s]] # None
    BY <1>1, <2>1, <2>3, <2>4, <2>6 DEF Claimed, RowsStay
  <2>7. ASSUME NEW s \in Requests \ {r}, Claims(s)', Claims(r)'
        PROVE  puuid'[s] # puuid'[r]
    BY <2>3, <2>4, <2>5, <2>7 DEF Claimed
  <2>8. ASSUME NEW r1 \in Requests, NEW r2 \in Requests,
               Claims(r1)', Claims(r2)', puuid'[r1] = puuid'[r2]
        PROVE  r1 = r2
    BY <2>3, <2>4, <2>7, <2>8 DEF Claimed
  <2> QED BY <2>6, <2>8 DEF Claimed
<1>6. ASSUME NEW r \in Requests, RespondCreated(r)
      PROVE  Claimed'
  BY <1>2, <1>6 DEF RespondCreated
<1>7. ASSUME NEW r \in Requests, RespondStale(r)
      PROVE  Claimed'
  <2>1. \A s \in Requests \ {r} : puuid'[s] = puuid[s]
    BY <1>1, <1>7 DEF RespondStale, RequestsTyped
  <2> QED BY <1>2, <1>7, <2>1 DEF RespondStale
<1>8. ASSUME NEW r \in Requests, RespondUpstreamError(r)
      PROVE  Claimed'
  <2>1. UpstreamCode(cause[r]) # "created"
    <3>1. UpstreamCode(cause[r]) \in {"summoner_not_found", "rate_limited", "riot_unauthorized",
                                      "riot_timeout", "riot_unavailable"}
      BY Zenon DEF UpstreamCode
    <3> QED BY <3>1
  <2> QED BY <1>2, <1>8, <2>1 DEF RespondUpstreamError
<1>9. ASSUME NEW r \in Requests, CooldownCheck(r)
      PROVE  Claimed'
  <2>1. CASE Respond(r, "sync_too_soon")
    BY <1>2, <1>9, <2>1 DEF CooldownCheck
  <2>2. CASE UNCHANGED <<created, answer, puuid>>
    BY <1>1, <2>2, NothingClaimed DEF Claims
  <2> QED BY <1>9, <2>1, <2>2 DEF CooldownCheck
<1>10. ASSUME NEW r \in Requests, EnqueueSync(r)
       PROVE  Claimed'
  <2>1. puuid' = puuid /\ (Respond(r, "queued") \/ Respond(r, "sync_queue_full"))
    BY <1>10 DEF EnqueueSync
  <2> QED BY <1>2, <2>1
<1>11. CASE UNCHANGED request
  BY <1>1, <1>11, NothingClaimed DEF Claims
<1> QED
  BY <1>3, <1>4, <1>5, <1>6, <1>7, <1>8, <1>9, <1>10, <1>11
  DEF Next, vars, Handle, Tick, Rename, TickerSubmits, Work, JobBegins, JobStamps,
      JobMarks, JobFails

\* Of the requests that add one summoner one is told 201, however many there are.
THEOREM CreatedOnce == Spec => []OneCreated
<1>1. Init => Typed /\ Progress /\ Claimed
  BY InitTyped, InitClaimed
<1>2. Typed /\ Progress /\ Claimed /\ [Next]_vars => (Typed /\ Progress /\ Claimed)'
  BY StepTyped, StepProgress, StepClaimed
<1>3. Spec => [](Typed /\ Progress /\ Claimed)
  BY <1>1, <1>2, PTL DEF Spec
<1> QED BY <1>3, ClaimedImplies, PTL

-----------------------------------------------------------------------------
(* The mark of an accepted request's job is later than the one it has seen.   *)
(* The job reads the clock after the request has, and the request has passed  *)
(* the cooldown only at a time that is later than the mark.                    *)

Passed(r) == pc[r] = "passed" \/ answer[r] = "queued"

OnTime ==
    \A r \in Requests : Passed(r) =>
        at[r] \in 0..clock /\ (seen[r] = Never \/ at[r] - seen[r] >= Cooldown)

\* A job that a request asked for is about an accepted one.
Accepted ==
    /\ \A k \in DOMAIN queue : queue[k].by \in Requests => answer[queue[k].by] = "queued"
    /\ \A w \in Workers : job[w].by \in Requests =>
          /\ answer[job[w].by] = "queued"
          /\ stamp[w] # Never => stamp[w] >= at[job[w].by]

LEMMA AcceptedImplies == Typed /\ OnTime /\ Accepted => ResultVisible
<1> SUFFICES ASSUME Typed, OnTime, Accepted,
                    NEW w \in Workers, NEW r \in Requests,
                    job[w].by = r, answer[r] = "queued", stamp[w] # Never
             PROVE  stamp[w] > seen[r]
  BY DEF ResultVisible
<1>1. /\ clock \in Nat /\ at[r] \in 0..clock /\ stamp[w] >= at[r]
      /\ seen[r] = Never \/ at[r] - seen[r] >= Cooldown
  BY TimeAssumption DEF Typed, TableTyped, OnTime, Passed, Accepted
<1>2. seen[r] \in Int /\ stamp[w] \in Int
  BY TimeAssumption DEF Typed, PoolTyped, RequestsTyped, Time
<1> QED BY <1>1, <1>2, TimeAssumption

LEMMA InitAccepted == Init => OnTime /\ Accepted
<1> SUFFICES ASSUME Init
             PROVE  OnTime /\ Accepted
  OBVIOUS
<1>1. OnTime
  BY NamesAssumption DEF Init, OnTime, Passed, Codes
<1>2. queue = <<>> /\ \A w \in Workers : job[w].by = None
  BY DEF Init, NoJob
<1>3. DOMAIN queue = {}
  BY <1>2
<1> QED BY <1>1, <1>2, <1>3, NamesAssumption DEF Accepted

\* A step in which no request passes, nor what one has passed with changes.
LEMMA StillOnTime ==
    ASSUME OnTime, TableTyped, clock \in Nat, clock' \in Nat, clock' >= clock,
           \A s \in Requests : Passed(s)' => Passed(s) /\ at'[s] = at[s] /\ seen'[s] = seen[s]
    PROVE  OnTime'
  BY DEF OnTime

\* A step that leaves the pool and what is behind its jobs alone.
LEMMA StillAccepted ==
    ASSUME Accepted, UNCHANGED <<queue, job, stamp>>,
           \A s \in Requests : answer[s] = "queued" => answer'[s] = "queued" /\ at'[s] = at[s]
    PROVE  Accepted'
  BY DEF Accepted

LEMMA StepOnTime == Typed /\ Progress /\ OnTime /\ [Next]_vars => OnTime'
<1> SUFFICES ASSUME TableTyped, RequestsTyped, Progress, OnTime, [Next]_vars
             PROVE  OnTime'
  BY DEF Typed
<1> USE DEF request, world
<1>1. clock \in Nat
  BY TimeAssumption DEF TableTyped
<1>2. ASSUME clock' = clock, NEW r \in Requests, NEW code, Respond(r, code), code # "queued",
             \A s \in Requests \ {r} : at'[s] = at[s], seen' = seen
      PROVE  OnTime'
  <2>1. \A s \in Requests : Passed(s)' => Passed(s) /\ at'[s] = at[s] /\ seen'[s] = seen[s]
    BY <1>2 DEF RequestsTyped, Respond, Passed
  <2> QED BY <1>1, <1>2, <2>1, StillOnTime
<1>3. CASE Restart
  <2>1. \A s \in Requests : Passed(s)' => Passed(s) /\ at'[s] = at[s] /\ seen'[s] = seen[s]
    BY <1>3 DEF Restart, RequestsTyped, Passed
  <2> QED BY <1>1, <1>3, <2>1, StillOnTime DEF Restart
<1>4. ASSUME NEW r \in Requests, Arrive(r)
      PROVE  OnTime'
  <2>1. ASSUME clock' = clock, pc[r] = "new", UNCHANGED <<answer, at>>, NEW place,
               place # "passed", pc' = [pc EXCEPT ![r] = place],
               \A s \in Requests \ {r} : seen'[s] = seen[s]
        PROVE  OnTime'
    <3>1. ~Passed(r)
      BY <2>1, NamesAssumption DEF Progress, Passed, RequestsTyped, Codes
    <3>2. \A s \in Requests : Passed(s)' => Passed(s) /\ at'[s] = at[s] /\ seen'[s] = seen[s]
      BY <2>1, <3>1 DEF RequestsTyped, Passed
    <3> QED BY <1>1, <2>1, <3>2, StillOnTime
  <2>2. ASSUME NEW n \in Names, Resolve(r, n)
        PROVE  OnTime'
    BY <2>1, <2>2 DEF Resolve
  <2>3. ASSUME NEW n \in Names, NEW c \in Causes, ProfileFails(r, n, c)
        PROVE  OnTime'
    <3>1. \A s \in Requests : Passed(s)' => Passed(s) /\ at'[s] = at[s] /\ seen'[s] = seen[s]
      BY <2>3 DEF ProfileFails, RequestsTyped, Passed
    <3> QED BY <1>1, <2>3, <3>1, StillOnTime DEF ProfileFails
  <2>4. ASSUME NEW p \in Players, ForceSync(r, p)
        PROVE  OnTime'
    <3>1. \A s \in Requests \ {r} : seen'[s] = seen[s]
      BY <2>4 DEF ForceSync, RequestsTyped
    <3> QED BY <2>1, <2>4, <3>1 DEF ForceSync
  <2>5. CASE Reject(r)
    BY <1>2, <2>5 DEF Reject
  <2>6. ASSUME NEW p \in Players, GetSummoner(r, p)
        PROVE  OnTime'
    <3>1. /\ UNCHANGED <<clock, at, seen>>
          /\ \/ Respond(r, "summoner_not_found")
             \/ Respond(r, "shown") \/ Respond(r, "internal_error")
      BY <2>6 DEF GetSummoner
    <3> QED BY <1>2, <3>1
  <2> QED BY <1>4, <2>2, <2>3, <2>4, <2>5, <2>6 DEF Arrive
<1>5. ASSUME NEW r \in Requests, Upsert(r)
      PROVE  OnTime'
  <2>1. \A s \in Requests : Passed(s)' => Passed(s) /\ at'[s] = at[s] /\ seen'[s] = seen[s]
    BY <1>5 DEF Upsert, RequestsTyped, Passed
  <2> QED BY <1>1, <1>5, <2>1, StillOnTime DEF Upsert
<1>6. ASSUME NEW r \in Requests, RespondCreated(r)
      PROVE  OnTime'
  BY <1>2, <1>6 DEF RespondCreated
<1>7. ASSUME NEW r \in Requests, RespondStale(r)
      PROVE  OnTime'
  BY <1>2, <1>7 DEF RespondStale
<1>8. ASSUME NEW r \in Requests, RespondUpstreamError(r)
      PROVE  OnTime'
  <2>1. UpstreamCode(cause[r]) # "queued"
    BY Zenon DEF UpstreamCode
  <2> QED BY <1>2, <1>8, <2>1 DEF RespondUpstreamError
<1>9. ASSUME NEW r \in Requests, CooldownCheck(r)
      PROVE  OnTime'
  <2>1. /\ clock' = clock /\ seen' = seen /\ at'[r] = clock
        /\ \A s \in Requests \ {r} : at'[s] = at[s]
    BY <1>9 DEF CooldownCheck, RequestsTyped
  <2>2. CASE Left(r) > 0
    BY <1>2, <1>9, <2>1, <2>2 DEF CooldownCheck
  <2>3. CASE ~(Left(r) > 0)
    <3>1. seen[r] = Never \/ clock - seen[r] >= Cooldown
      BY <1>1, <2>3, TimeAssumption DEF Left, RequestsTyped, Time
    <3>2. \A s \in Requests \ {r} : Passed(s)' => Passed(s)
      BY <1>9, <2>3 DEF CooldownCheck, RequestsTyped, Passed
    <3> QED BY <1>1, <2>1, <3>1, <3>2 DEF OnTime
  <2> QED BY <2>2, <2>3
<1>10. ASSUME NEW r \in Requests, EnqueueSync(r)
       PROVE  OnTime'
  <2>1. pc[r] = "passed" /\ UNCHANGED <<clock, at, seen>>
        /\ (Respond(r, "queued") \/ Respond(r, "sync_queue_full"))
    BY <1>10 DEF EnqueueSync
  <2>2. \A s \in Requests : Passed(s)' => Passed(s)
    BY <2>1 DEF Respond, RequestsTyped, Passed
  <2> QED BY <1>1, <2>1, <2>2, StillOnTime
<1>11. CASE Tick
  BY <1>1, <1>11, StillOnTime DEF Tick, Passed
<1>12. CASE UNCHANGED request /\ clock' = clock
  BY <1>1, <1>12, StillOnTime DEF Passed
<1> QED
  BY <1>3, <1>4, <1>5, <1>6, <1>7, <1>8, <1>9, <1>10, <1>11, <1>12
  DEF Next, vars, Handle, Rename, TickerSubmits, Work, JobBegins, JobStamps, JobMarks, JobFails

\* A job goes into the queue, about an accepted request if about any.
LEMMA EnqueuedAccepted ==
    ASSUME PoolTyped, Accepted, NEW p \in Players,
           NEW who \in Requests \cup {"create", "ticker"}, Enqueue(p, who),
           who \in Requests => answer'[who] = "queued", UNCHANGED <<job, stamp>>,
           \A s \in Requests : answer[s] = "queued" => answer'[s] = "queued" /\ at'[s] = at[s]
    PROVE  Accepted'
<1> DEFINE j == [puuid |-> p, by |-> who]
<1>1. queue \in Seq(Jobs) /\ queue' = Append(queue, j)
      /\ j \in Jobs /\ j.by = who
  BY DEF PoolTyped, Enqueue, Jobs
<1> HIDE DEF j
<1>2. \A k \in DOMAIN queue' : queue'[k] = j \/ (k \in DOMAIN queue /\ queue'[k] = queue[k])
  BY <1>1
<1> QED BY <1>1, <1>2 DEF Accepted

LEMMA StepAccepted ==
    Typed /\ Progress /\ OnTime /\ Accepted /\ [Next]_vars => Accepted'
<1> SUFFICES ASSUME TableTyped, PoolTyped, RequestsTyped, Progress, OnTime, Accepted,
                    [Next]_vars
             PROVE  Accepted'
  BY DEF Typed
<1> USE DEF request, pool
<1>1. \A r \in Requests : pc[r] # "answered" => answer[r] # "queued"
  BY NamesAssumption DEF Progress, Codes
<1>2. ASSUME UNCHANGED <<queue, job, stamp>>, NEW r \in Requests, pc[r] # "answered",
             UNCHANGED answer \/ \E code : Respond(r, code),
             \A s \in Requests \ {r} : at'[s] = at[s]
      PROVE  Accepted'
  <2>1. \A s \in Requests : answer[s] = "queued" => answer'[s] = "queued" /\ at'[s] = at[s]
    BY <1>1, <1>2 DEF Respond, RequestsTyped
  <2> QED BY <1>2, <2>1, StillAccepted
<1>3. ASSUME NEW r \in Requests, Arrive(r)
      PROVE  Accepted'
  <2>1. pc[r] # "answered" /\ UNCHANGED <<queue, job, stamp, at>>
        /\ (UNCHANGED answer \/ \E code : Respond(r, code))
    BY <1>3 DEF Arrive, Reject, Resolve, ProfileFails, GetSummoner, ForceSync
  <2> QED BY <1>2, <2>1
<1>4. ASSUME NEW r \in Requests,
             Upsert(r) \/ RespondStale(r) \/ RespondUpstreamError(r) \/ CooldownCheck(r)
      PROVE  Accepted'
  <2>1. pc[r] # "answered" /\ UNCHANGED <<queue, job, stamp>>
        /\ (UNCHANGED answer \/ \E code : Respond(r, code))
    BY <1>4 DEF Upsert, RespondStale, RespondUpstreamError, CooldownCheck
  <2>2. \A s \in Requests \ {r} : at'[s] = at[s]
    BY <1>4 DEF Upsert, RespondStale, RespondUpstreamError, CooldownCheck, RequestsTyped
  <2> QED BY <1>2, <2>1, <2>2
<1>5. ASSUME NEW r \in Requests, RespondCreated(r)
      PROVE  Accepted'
  <2>1. UNCHANGED <<job, stamp, at>> /\ pc[r] = "saved" /\ \E code : Respond(r, code)
    BY <1>5 DEF RespondCreated
  <2>2. CASE Room
    <3>1. Enqueue(puuid[r], "create") /\ puuid[r] \in Players
      BY <1>5, <2>2 DEF RespondCreated, RequestsTyped
    <3>2. \A s \in Requests : answer[s] = "queued" => answer'[s] = "queued" /\ at'[s] = at[s]
      BY <1>1, <2>1 DEF Respond, RequestsTyped
    <3> QED BY <2>1, <3>1, <3>2, EnqueuedAccepted, NamesAssumption
  <2>3. CASE ~Room
    BY <1>2, <1>5, <2>1, <2>3 DEF RespondCreated
  <2> QED BY <2>2, <2>3
<1>6. ASSUME NEW r \in Requests, EnqueueSync(r)
      PROVE  Accepted'
  <2>1. UNCHANGED <<job, stamp, at>> /\ pc[r] = "passed" /\ \E code : Respond(r, code)
    BY <1>6 DEF EnqueueSync
  <2>2. CASE Room
    <3>1. Enqueue(puuid[r], r) /\ puuid[r] \in Players /\ Respond(r, "queued")
      BY <1>6, <2>2 DEF EnqueueSync, RequestsTyped
    <3>2. \A s \in Requests : answer[s] = "queued" => answer'[s] = "queued" /\ at'[s] = at[s]
      BY <1>1, <2>1 DEF Respond, RequestsTyped
    <3>3. answer'[r] = "queued"
      BY <3>1 DEF Respond, RequestsTyped
    <3> QED BY <2>1, <3>1, <3>2, <3>3, EnqueuedAccepted
  <2>3. CASE ~Room
    BY <1>2, <1>6, <2>1, <2>3 DEF EnqueueSync
  <2> QED BY <2>2, <2>3
<1>7. ASSUME NEW p \in Players, TickerSubmits(p)
      PROVE  Accepted'
  <2>1. Enqueue(p, "ticker") /\ UNCHANGED <<job, stamp, at, answer>>
    BY <1>7 DEF TickerSubmits
  <2> QED BY <2>1, EnqueuedAccepted, NamesAssumption
<1>8. ASSUME NEW w \in Workers, JobBegins(w)
      PROVE  Accepted'
  <2>1. /\ queue \in Seq(Jobs) /\ queue # <<>> /\ queue' = Tail(queue)
        /\ job' = [job EXCEPT ![w] = Head(queue)] /\ job[w] = NoJob
        /\ UNCHANGED <<stamp, at, answer>>
    BY <1>8 DEF JobBegins, PoolTyped
  <2>2. Head(queue) = queue[1] /\ 1 \in DOMAIN queue
        /\ \A k \in DOMAIN queue' : k + 1 \in DOMAIN queue /\ queue'[k] = queue[k + 1]
    <3>1. Len(queue) \in Nat /\ Len(queue) >= 1
      BY <2>1, EmptySeq, LenProperties
    <3>2. /\ Tail(queue) \in Seq(Jobs) /\ Len(Tail(queue)) = Len(queue) - 1
          /\ \A k \in 1..Len(Tail(queue)) : Tail(queue)[k] = queue[k + 1]
      BY <2>1, HeadTailProperties
    <3>3. Head(queue) = queue[1]
      BY <2>1, HeadTailProperties
    <3>4. DOMAIN queue = 1..Len(queue) /\ DOMAIN Tail(queue) = 1..Len(Tail(queue))
      BY <2>1, <3>2, LenProperties
    <3> QED BY <2>1, <3>1, <3>2, <3>3, <3>4
  <2>3. stamp[w] = Never
    BY <2>1 DEF PoolTyped
  <2>4. \A k \in DOMAIN queue' : queue'[k].by \in Requests => answer'[queue'[k].by] = "queued"
    BY <2>1, <2>2 DEF Accepted
  <2>5. ASSUME NEW v \in Workers, job'[v].by \in Requests
        PROVE  /\ answer'[job'[v].by] = "queued"
               /\ stamp'[v] # Never => stamp'[v] >= at'[job'[v].by]
    <3>1. job'[v] = IF v = w THEN queue[1] ELSE job[v]
      BY <2>1, <2>2 DEF PoolTyped
    <3> QED BY <2>1, <2>2, <2>3, <2>5, <3>1 DEF Accepted
  <2> QED BY <2>4, <2>5 DEF Accepted
<1>9. ASSUME NEW w \in Workers, JobStamps(w)
      PROVE  Accepted'
  <2>1. \A v \in Workers : stamp'[v] = IF v = w THEN clock ELSE stamp[v]
    BY <1>9 DEF JobStamps, PoolTyped
  <2>2. \A r \in Requests : answer[r] = "queued" => clock >= at[r]
    BY TimeAssumption DEF OnTime, Passed, TableTyped
  <2>3. UNCHANGED <<queue, job, answer, at>>
    BY <1>9 DEF JobStamps
  <2> QED BY <2>1, <2>2, <2>3 DEF Accepted
<1>10. ASSUME NEW w \in Workers, JobMarks(w) \/ JobFails(w)
       PROVE  Accepted'
  <2>1. UNCHANGED <<queue, answer, at>> /\ Leave(w)
    BY <1>10 DEF JobMarks, JobFails
  <2>2. \A v \in Workers : job'[v] = (IF v = w THEN NoJob ELSE job[v])
                        /\ (v # w => stamp'[v] = stamp[v])
    BY <2>1 DEF Leave, PoolTyped
  <2>3. NoJob.by \notin Requests
    BY NamesAssumption DEF NoJob
  <2> QED BY <2>1, <2>2, <2>3 DEF Accepted
<1>11. CASE Restart
  <2>1. queue' = <<>> /\ DOMAIN queue' = {}
        /\ \A v \in Workers : job'[v] = NoJob
    BY <1>11 DEF Restart
  <2>2. NoJob.by \notin Requests
    BY NamesAssumption DEF NoJob
  <2> QED BY <2>1, <2>2 DEF Accepted
<1>12. CASE UNCHANGED <<pool, request>>
  BY <1>12, StillAccepted
<1> QED
  BY <1>3, <1>4, <1>5, <1>6, <1>7, <1>8, <1>9, <1>10, <1>11, <1>12
  DEF Next, vars, Handle, Tick, Rename, Work

\* The mark that the job of an accepted request sets is later than the one the
\* request has seen, whatever other jobs, the ticker and restarts do.
THEOREM ResultSeen == Spec => []ResultVisible
<1> DEFINE Inv == Typed /\ Progress /\ OnTime /\ Accepted
<1>1. Init => Inv
  BY InitTyped, InitClaimed, InitAccepted
<1>2. Inv /\ [Next]_vars => Inv'
  BY StepTyped, StepProgress, StepOnTime, StepAccepted
<1>3. Inv => ResultVisible
  BY AcceptedImplies
<1>4. Spec => []Inv
  BY <1>1, <1>2, PTL DEF Spec
<1> QED BY <1>3, <1>4, PTL

-----------------------------------------------------------------------------
(* Retry-After.  Rounding up gives the least number of whole seconds that     *)
(* covers the rest of the cooldown, and every request that has read the clock *)
(* has been measured against the same end of it.                              *)

LEMMA SecondsExact ==
    ASSUME NEW l \in Nat \ {0}
    PROVE  /\ Seconds(l) \in Nat
           /\ Seconds(l) * Second >= l
           /\ (Seconds(l) - 1) * Second < l
<1> DEFINE n == l + Second - 1
           q == n \div Second
<1>1. Second \in Nat \ {0} /\ n \in Nat
  BY TimeAssumption
<1>2. q \in Nat /\ n = q * Second + (n % Second) /\ n % Second \in 0..(Second - 1)
  <2> HIDE DEF n
  <2> QED BY <1>1
<1>3. q * Second \in Int /\ (q - 1) * Second = q * Second - Second
  <2> HIDE DEF q
  <2> QED BY <1>1, <1>2
<1>4. q * Second >= l /\ q * Second - Second < l
  <2>1. n = l + Second - 1
    OBVIOUS
  <2> HIDE DEF n, q
  <2> QED BY <1>1, <1>2, <1>3, <2>1
<1> QED BY <1>2, <1>3, <1>4 DEF Seconds

Refused(r) ==
    /\ seen[r] # Never /\ at[r] - seen[r] < Cooldown
    /\ retry[r] = Seconds(Cooldown - (at[r] - seen[r]))

Measured ==
    \A r \in Requests :
        /\ pc[r] \notin {"passed", "answered"} => at[r] = Never
        /\ answer[r] = "sync_too_soon" => at[r] # Never /\ Refused(r)
        /\ at[r] # Never /\ answer[r] # "sync_too_soon" =>
              seen[r] = Never \/ at[r] - seen[r] >= Cooldown

LEMMA MeasuredImplies == Typed /\ Measured => RetryAfterExact
<1> SUFFICES ASSUME RequestsTyped, Measured,
                    NEW r1 \in Requests, NEW r2 \in Requests,
                    answer[r1] = "sync_too_soon", at[r2] # Never, seen[r2] = seen[r1]
             PROVE  /\ answer[r2] = "sync_too_soon" => at[r2] < at[r1] + retry[r1] * Second
                    /\ answer[r2] # "sync_too_soon" =>
                          at[r2] > at[r1] + (retry[r1] - 1) * Second
  BY DEF RetryAfterExact, Typed
<1> DEFINE left == Cooldown - (at[r1] - seen[r1])
<1>1. /\ at[r1] \in Int /\ at[r2] \in Int /\ seen[r1] \in Int /\ Cooldown \in Nat
      /\ Second \in Nat /\ seen[r2] = seen[r1]
  BY TimeAssumption DEF RequestsTyped, Time
<1>2. seen[r1] # Never /\ left \in Nat \ {0} /\ retry[r1] = Seconds(left)
  BY <1>1 DEF Measured, Refused
<1>3. /\ retry[r1] \in Nat /\ retry[r1] * Second >= left /\ (retry[r1] - 1) * Second < left
      /\ retry[r1] * Second \in Int /\ (retry[r1] - 1) * Second \in Int
  <2> HIDE DEF left
  <2> QED BY <1>1, <1>2, SecondsExact
<1>4. CASE answer[r2] = "sync_too_soon"
  <2>1. at[r2] - seen[r1] < Cooldown
    BY <1>1, <1>4 DEF Measured, Refused
  <2> QED BY <1>1, <1>3, <1>4, <2>1
<1>5. CASE answer[r2] # "sync_too_soon"
  <2>1. at[r2] - seen[r1] >= Cooldown
    BY <1>1, <1>2, <1>5 DEF Measured
  <2> QED BY <1>1, <1>3, <1>5, <2>1
<1> QED BY <1>4, <1>5

LEMMA InitMeasured == Init => Measured
  BY NamesAssumption DEF Init, Measured, Codes

LEMMA StepMeasured == Typed /\ Progress /\ Measured /\ [Next]_vars => Measured'
<1> SUFFICES ASSUME TableTyped, RequestsTyped, Progress, Measured, [Next]_vars
             PROVE  Measured'
  BY DEF Typed
<1> USE DEF request
<1>1. \A s \in Requests : pc[s] # "answered" => answer[s] # "sync_too_soon"
  BY NamesAssumption DEF Progress, Codes
<1>2. ASSUME NEW r \in Requests, NEW code, pc[r] # "answered", Respond(r, code),
             code # "sync_too_soon", UNCHANGED <<at, seen, retry>>
      PROVE  Measured'
  <2>1. \A s \in Requests \ {r} : pc'[s] = pc[s] /\ answer'[s] = answer[s]
    BY <1>2 DEF Respond, RequestsTyped
  <2>2. pc'[r] = "answered" /\ answer'[r] # "sync_too_soon"
    BY <1>2 DEF Respond, RequestsTyped
  <2> QED BY <1>1, <1>2, <2>1, <2>2 DEF Measured, Refused
<1>3. CASE Restart
  BY <1>3 DEF Restart, RequestsTyped, Measured, Refused
<1>4. ASSUME NEW r \in Requests, Arrive(r)
      PROVE  Measured'
  <2>1. ASSUME pc[r] = "new", UNCHANGED <<answer, at, retry>>, NEW place,
               place \notin {"passed", "answered"}, pc' = [pc EXCEPT ![r] = place],
               \A s \in Requests \ {r} : seen'[s] = seen[s]
        PROVE  Measured'
    <3>1. at[r] = Never /\ answer[r] # "sync_too_soon"
      BY <1>1, <2>1 DEF Measured
    <3> QED BY <2>1, <3>1 DEF Measured, Refused, RequestsTyped
  <2>2. ASSUME NEW n \in Names, Resolve(r, n)
        PROVE  Measured'
    BY <2>1, <2>2 DEF Resolve
  <2>3. ASSUME NEW n \in Names, NEW c \in Causes, ProfileFails(r, n, c)
        PROVE  Measured'
    <3>1. pc[r] \in {"new", "resolved"} /\ pc' = [pc EXCEPT ![r] = "failed"]
          /\ UNCHANGED <<answer, at, retry, seen>>
      BY <2>3 DEF ProfileFails
    <3> QED BY <3>1 DEF Measured, Refused, RequestsTyped
  <2>4. ASSUME NEW p \in Players, ForceSync(r, p)
        PROVE  Measured'
    <3>1. \A s \in Requests \ {r} : seen'[s] = seen[s]
      BY <2>4 DEF ForceSync, RequestsTyped
    <3> QED BY <2>1, <2>4, <3>1 DEF ForceSync
  <2>5. CASE Reject(r)
    BY <1>2, <2>5 DEF Reject
  <2>6. ASSUME NEW p \in Players, GetSummoner(r, p)
        PROVE  Measured'
    <3>1. /\ pc[r] = "new" /\ UNCHANGED <<at, seen, retry>>
          /\ \/ Respond(r, "summoner_not_found")
             \/ Respond(r, "shown") \/ Respond(r, "internal_error")
      BY <2>6 DEF GetSummoner
    <3> QED BY <1>2, <3>1
  <2> QED BY <1>4, <2>2, <2>3, <2>4, <2>5, <2>6 DEF Arrive
<1>5. ASSUME NEW r \in Requests, Upsert(r)
      PROVE  Measured'
  BY <1>5 DEF Upsert, RequestsTyped, Measured, Refused
<1>6. ASSUME NEW r \in Requests, RespondCreated(r)
      PROVE  Measured'
  BY <1>2, <1>6 DEF RespondCreated
<1>7. ASSUME NEW r \in Requests, RespondStale(r)
      PROVE  Measured'
  BY <1>2, <1>7 DEF RespondStale
<1>8. ASSUME NEW r \in Requests, RespondUpstreamError(r)
      PROVE  Measured'
  <2>1. UpstreamCode(cause[r]) # "sync_too_soon"
    BY Zenon DEF UpstreamCode
  <2> QED BY <1>2, <1>8, <2>1 DEF RespondUpstreamError
<1>9. ASSUME NEW r \in Requests, CooldownCheck(r)
      PROVE  Measured'
  <2>1. /\ pc[r] = "read" /\ seen' = seen /\ at'[r] = clock /\ clock \in Nat
        /\ \A s \in Requests \ {r} : at'[s] = at[s]
    BY <1>9, TimeAssumption DEF CooldownCheck, RequestsTyped, TableTyped
  <2>2. seen[r] \in Int /\ Cooldown \in Nat /\ Never = -1
    BY TimeAssumption DEF RequestsTyped, Time
  <2>3. CASE Left(r) > 0
    <3>1. /\ Respond(r, "sync_too_soon")
          /\ retry' = [retry EXCEPT ![r] = Seconds(Left(r))]
      BY <1>9, <2>3 DEF CooldownCheck
    <3>2. /\ seen[r] # Never /\ clock - seen[r] < Cooldown
          /\ Left(r) = Cooldown - (clock - seen[r])
      BY <2>1, <2>2, <2>3 DEF Left
    <3>3. retry'[r] = Seconds(Cooldown - (clock - seen[r]))
      BY <3>1, <3>2 DEF RequestsTyped
    <3>4. \A s \in Requests \ {r} :
             pc'[s] = pc[s] /\ answer'[s] = answer[s] /\ retry'[s] = retry[s]
      BY <3>1 DEF Respond, RequestsTyped
    <3>5. pc'[r] = "answered" /\ answer'[r] = "sync_too_soon" /\ at'[r] # Never
      BY <2>1, <2>2, <3>1 DEF Respond, RequestsTyped
    <3> QED BY <2>1, <3>2, <3>3, <3>4, <3>5 DEF Measured, Refused
  <2>4. CASE ~(Left(r) > 0)
    <3>1. seen[r] = Never \/ clock - seen[r] >= Cooldown
      BY <2>1, <2>2, <2>4 DEF Left
    <3>2. /\ pc' = [pc EXCEPT ![r] = "passed"] /\ UNCHANGED <<answer, retry>>
          /\ answer[r] # "sync_too_soon"
      BY <1>1, <1>9, <2>1, <2>4 DEF CooldownCheck
    <3> QED BY <2>1, <3>1, <3>2 DEF Measured, Refused, RequestsTyped
  <2> QED BY <2>3, <2>4
<1>10. ASSUME NEW r \in Requests, EnqueueSync(r)
       PROVE  Measured'
  <2>1. pc[r] = "passed" /\ UNCHANGED <<at, seen, retry>>
        /\ (Respond(r, "queued") \/ Respond(r, "sync_queue_full"))
    BY <1>10 DEF EnqueueSync
  <2> QED BY <1>2, <2>1
<1>11. CASE UNCHANGED request
  BY <1>11 DEF Measured, Refused
<1> QED
  BY <1>3, <1>4, <1>5, <1>6, <1>7, <1>8, <1>9, <1>10, <1>11
  DEF Next, vars, Handle, Tick, Rename, TickerSubmits, Work, JobBegins, JobStamps,
      JobMarks, JobFails

\* Retry-After is long enough and no longer, for every cooldown and every
\* resolution of the clock.
THEOREM RetryAfterCorrect == Spec => []RetryAfterExact
<1> DEFINE Inv == Typed /\ Progress /\ Measured
<1>1. Init => Inv
  BY InitTyped, InitClaimed, InitMeasured
<1>2. Inv /\ [Next]_vars => Inv'
  BY StepTyped, StepProgress, StepMeasured
<1>3. Inv => RetryAfterExact
  BY MeasuredImplies
<1>4. Spec => []Inv
  BY <1>1, <1>2, PTL DEF Spec
<1> QED BY <1>3, <1>4, PTL

-----------------------------------------------------------------------------
(* A snapshot is served.  Of the rows that bear a Riot ID one has the latest    *)
(* mark, so ByRiotID finds a row as soon as there is one.                       *)

LEMMA LeastExists ==
    ASSUME NEW S \in SUBSET Nat, S # {}
    PROVE  \E x \in S : \A y \in S : x <= y
<1> DEFINE R == OpToRel(<, Nat)
<1>1. IsWellFoundedOn(R, Nat)
  BY NatLessThanWellFounded
<1>2. \A x, y \in Nat : <<y, x>> \in R <=> y < x
  BY DEF OpToRel
<1> HIDE DEF R
<1>3. PICK x \in S : \A y \in S : ~(<<y, x>> \in R)
  BY <1>1, WFMin
<1>4. ASSUME NEW y \in S
      PROVE  x <= y
  <2>1. x \in Nat /\ y \in Nat /\ ~(<<y, x>> \in R)
    BY <1>3
  <2>2. ~(y < x)
    BY ZenonT(20), <2>1, <1>2
  <2> QED BY <2>1, <2>2
<1> QED BY <1>4

LEMMA SnapshotFound ==
    ASSUME TableTyped, NEW n, NEW p \in Players, name[p] = n
    PROVE  ByRiotID(n) # {}
<1> DEFINE bearing == {q \in Players : name[q] = n}
           Ages == {MaxTime - mark[q] : q \in bearing}
<1>1. \A q \in Players : mark[q] \in Int /\ mark[q] <= MaxTime
  BY TimeAssumption DEF TableTyped, Time
<1>2. MaxTime \in Nat
  BY TimeAssumption
<1>3. Ages \in SUBSET Nat /\ Ages # {}
  BY <1>1, <1>2
<1>4. PICK q \in bearing : \A s \in bearing : MaxTime - mark[q] <= MaxTime - mark[s]
  <2>1. PICK a \in Ages : \A b \in Ages : a <= b
    <3> HIDE DEF Ages
    <3> QED BY <1>3, LeastExists
  <2> QED BY <2>1
<1>5. \A s \in bearing : mark[s] <= mark[q]
  BY <1>1, <1>2, <1>4
<1> QED BY <1>4, <1>5 DEF ByRiotID

\* Whoever was told that a summoner is stored has named one.
Told(r) == answer[r] \in {"created", "ok"}
ToldOf == \A r \in Requests : Told(r) => puuid[r] \in Players

LEMMA InitTold == Init => ToldOf
  BY NamesAssumption DEF Init, ToldOf, Told, Codes

\* Other answers name nobody, and leave the ones given as they are.
LEMMA ToldOther ==
    ASSUME ToldOf, RequestsTyped, NEW r \in Requests,
           NEW code, code \notin {"created", "ok"}, Respond(r, code),
           \A s \in Requests \ {r} : puuid'[s] = puuid[s]
    PROVE  ToldOf'
  BY DEF ToldOf, Told, RequestsTyped, Respond

\* What respondUpstreamError answers is no success, and one of the three codes
\* of an outage only for the errors a snapshot stands in for.
LEMMA OutageCodes ==
    ASSUME NEW c
    PROVE  /\ UpstreamCode(c) \notin {"created", "ok"}
           /\ UpstreamCode(c) \in {"riot_unauthorized", "riot_timeout", "riot_unavailable"}
                 => RiotUnavailable(c)
<1>1. UpstreamCode(c) =
        IF c = "notFound" THEN "summoner_not_found"
        ELSE IF c = "rateLimited" THEN "rate_limited"
        ELSE IF c = "unauthorized" THEN "riot_unauthorized"
        ELSE IF c = "timeout" THEN "riot_timeout" ELSE "riot_unavailable"
  BY DEF UpstreamCode
<1> QED BY <1>1 DEF RiotUnavailable

LEMMA StepTold == Typed /\ Progress /\ ToldOf /\ [Next]_vars => ToldOf'
<1> SUFFICES ASSUME RequestsTyped, Progress, ToldOf, [Next]_vars
             PROVE  ToldOf'
  BY DEF Typed
<1> USE DEF request
<1>1. CASE UNCHANGED <<puuid, answer>>
  BY <1>1 DEF ToldOf, Told
<1>2. ASSUME NEW r \in Requests, Reject(r)
      PROVE  ToldOf'
  BY <1>2, ToldOther DEF Reject
<1>3. ASSUME NEW r \in Requests, NEW n \in Names, Resolve(r, n)
      PROVE  ToldOf'
  BY <1>3, NamesAssumption DEF Resolve, Progress, ToldOf, Told, RequestsTyped, Codes
<1>4. ASSUME NEW r \in Requests, NEW p \in Players, GetSummoner(r, p)
      PROVE  ToldOf'
  BY <1>4, ToldOther DEF GetSummoner
<1>5. ASSUME NEW r \in Requests, NEW p \in Players, ForceSync(r, p)
      PROVE  ToldOf'
  BY <1>5 DEF ForceSync, ToldOf, Told, RequestsTyped
<1>6. ASSUME NEW r \in Requests, RespondCreated(r)
      PROVE  ToldOf'
  <2>1. puuid[r] \in Players /\ puuid' = puuid
    BY <1>6 DEF RespondCreated, RequestsTyped
  <2>2. \A s \in Requests \ {r} : answer'[s] = answer[s]
    BY <1>6 DEF RespondCreated, Respond, RequestsTyped
  <2> QED BY <2>1, <2>2 DEF ToldOf, Told
<1>7. ASSUME NEW r \in Requests, RespondStale(r)
      PROVE  ToldOf'
  <2>1. Respond(r, "stale") /\ \A s \in Requests \ {r} : puuid'[s] = puuid[s]
    BY <1>7 DEF RespondStale, RequestsTyped
  <2> QED BY <2>1, ToldOther
<1>8. ASSUME NEW r \in Requests, RespondUpstreamError(r)
      PROVE  ToldOf'
  <2>1. Respond(r, UpstreamCode(cause[r])) /\ puuid' = puuid
    BY <1>8 DEF RespondUpstreamError
  <2> QED BY <2>1, OutageCodes, ToldOther
<1>9. ASSUME NEW r \in Requests, CooldownCheck(r)
      PROVE  ToldOf'
  <2>1. puuid' = puuid /\ (Respond(r, "sync_too_soon") \/ answer' = answer)
    BY <1>9 DEF CooldownCheck
  <2> QED BY <1>1, <2>1, ToldOther
<1>10. ASSUME NEW r \in Requests, EnqueueSync(r)
       PROVE  ToldOf'
  <2>1. puuid' = puuid /\ (Respond(r, "queued") \/ Respond(r, "sync_queue_full"))
    BY <1>10 DEF EnqueueSync
  <2> QED BY <2>1, ToldOther
<1> QED
  BY <1>1, <1>2, <1>3, <1>4, <1>5, <1>6, <1>7, <1>8, <1>9, <1>10
  DEF Next, vars, Arrive, Handle, Restart, ProfileFails, Upsert, Tick, Rename,
      TickerSubmits, Work, JobBegins, JobStamps, JobMarks, JobFails

\* The answers of an outage are given by RespondUpstreamError alone.
LEMMA OutageStep ==
    ASSUME RequestsTyped, [Next]_vars, NEW r \in Requests, answer'[r] # answer[r],
           answer'[r] \in {"riot_unauthorized", "riot_timeout", "riot_unavailable"}
    PROVE  RespondUpstreamError(r)
<1> USE DEF request
<1>1. answer' # answer
  OBVIOUS
<1>2. ASSUME NEW s \in Requests, NEW code, Respond(s, code)
      PROVE  s = r /\ answer'[r] = code
  BY <1>2 DEF Respond, RequestsTyped
<1>3. PICK s \in Requests : Arrive(s) \/ Handle(s)
  BY <1>1 DEF Next, vars, Restart, Tick, Rename, TickerSubmits, Work, JobBegins,
              JobStamps, JobMarks, JobFails
<1>4. ~Arrive(s)
  BY <1>1, <1>2 DEF Arrive, Reject, Resolve, ProfileFails, GetSummoner, ForceSync
<1>5. ~RespondCreated(s)
  <2> SUFFICES ASSUME RespondCreated(s)
               PROVE  FALSE
    OBVIOUS
  <2>1. Respond(s, "created") \/ Respond(s, "ok")
    BY DEF RespondCreated
  <2> QED BY <2>1, <1>2
<1>6. ~Upsert(s) /\ ~RespondStale(s) /\ ~CooldownCheck(s) /\ ~EnqueueSync(s)
  BY <1>1, <1>2 DEF Upsert, RespondStale, CooldownCheck, EnqueueSync
<1>7. RespondUpstreamError(s)
  BY <1>3, <1>4, <1>5, <1>6 DEF Handle
<1>8. s = r
  BY <1>2, <1>7 DEF RespondUpstreamError
<1> QED BY <1>7, <1>8

\* What was added once is served through an outage as long as its row keeps
\* the Riot ID and the database answers, for any number of requests, renames
\* and restarts.
THEOREM SnapshotsServed == Spec => SnapshotServed
<1> DEFINE Inv == Typed /\ Progress /\ ToldOf
           Outage(r) == answer'[r] \in {"riot_unauthorized", "riot_timeout", "riot_unavailable"}
           Served == \A r1, r2 \in Requests :
                        /\ answer[r1] \in {"created", "ok"} /\ asked[r1] = asked[r2]
                        /\ name[puuid[r1]] = asked[r2]
                        /\ Outage(r2)
                        => answer[r2] = answer'[r2] \/ r2 \in unread'
<1>1. Init => Inv
  BY InitTyped, InitClaimed, InitTold
<1>2. Inv /\ [Next]_vars => Inv'
  BY StepTyped, StepProgress, StepTold
<1>3. ASSUME Inv, [Next]_vars
      PROVE  Served
  <2> SUFFICES ASSUME NEW r1 \in Requests, NEW r2 \in Requests,
                      answer[r1] \in {"created", "ok"},
                      name[puuid[r1]] = asked[r2],
                      Outage(r2), answer[r2] # answer'[r2]
               PROVE  r2 \in unread'
    OBVIOUS
  <2>1. TableTyped /\ RequestsTyped /\ puuid[r1] \in Players
    BY <1>3 DEF Typed, ToldOf, Told
  <2>2. RespondUpstreamError(r2)
    BY <1>3, <2>1, OutageStep
  <2>3. answer'[r2] = UpstreamCode(cause[r2])
    BY <2>1, <2>2 DEF RespondUpstreamError, Respond, RequestsTyped
  <2>4. RiotUnavailable(cause[r2])
    BY <2>3, OutageCodes
  <2>5. ByRiotID(asked[r2]) # {}
    BY <2>1, SnapshotFound
  <2> QED BY <2>2, <2>4, <2>5 DEF RespondUpstreamError
<1>4. Inv /\ [Next]_vars => [Served]_vars
  BY <1>3
<1>5. Spec => []Inv
  BY <1>1, <1>2, PTL DEF Spec
<1> QED BY <1>4, <1>5, PTL DEF Spec, SnapshotServed
=============================================================================
