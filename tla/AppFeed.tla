------------------------------- MODULE AppFeed -------------------------------
(***************************************************************************)
(* The feed of matches in the Android application: SummonerViewModel over   *)
(* MatchRepository and MatchDao, paged from the handler listMatches of the  *)
(* backend.  A coroutine of the view model suspends at every call, and up   *)
(* to |Calls| of them overlap: the buttons are drawn from a state that lags *)
(* behind the flag `refreshing'.  A match is its place in the order of      *)
(* game_creation: the greater, the newer.                                   *)
(***************************************************************************)
EXTENDS Integers, FiniteSets, FiniteSetsExt

CONSTANTS
    Calls,       \* coroutines of the view model, refresh or loadMore
    N,           \* bound: matches 1..N are played
    PageSize,    \* DEFAULT_PAGE_SIZE
    None,        \* total == null, no call
    MaxRestarts  \* bound: view models the screen creates anew

ASSUME AppAssumption == N \in Nat /\ PageSize \in Nat \ {0} /\ MaxRestarts \in Nat
ASSUME CallsAssumption == Calls # {} /\ None \notin {"refresh", "more"}

VARIABLES
    stored,                           \* backend: match_participants of the player
    cached,                           \* Room: the same table, which outlives the app
    total, visible, refreshing,       \* SummonerViewModel
    shown,                            \* the last state drawn: is a tap possible?
    kind, pc, offset, items, count,   \* each coroutine and its request
    restarts,
    jumped                            \* history: the backend left a gap by itself

vm == <<total, visible, refreshing>>
calls == <<kind, pc, offset, items, count>>
vars == <<stored, cached, vm, shown, calls, restarts, jumped>>

Matches == 1..N
SizeOf(S) == Cardinality(S)

\* A view model at its birth: init calls refresh().
First == CHOOSE c \in Calls : TRUE
Idle(x) == [c \in Calls |-> x]

Init ==
    /\ stored \in SUBSET Matches /\ cached = {}
    /\ total = None /\ visible = PageSize /\ refreshing = TRUE
    /\ shown = [idle |-> FALSE, more |-> FALSE]
    /\ kind = [Idle(None) EXCEPT ![First] = "refresh"]
    /\ pc = [Idle("idle") EXCEPT ![First] = "list"]
    /\ offset = Idle(0) /\ items = Idle({}) /\ count = Idle(None)
    /\ restarts = 0 /\ jumped = FALSE

-----------------------------------------------------------------------------
(* The backend. *)

\* SELECT ... ORDER BY game_creation DESC LIMIT PageSize OFFSET from
Page(from) ==
    {m \in stored : SizeOf({n \in stored : n > m}) \in from..(from + PageSize - 1)}

\* What the application has, and what is on its way to it.
Known == cached \cup UNION {items[c] : c \in Calls}

\* The newest of S is more than a page behind the backend.
Behind(S) == S # {} /\ SizeOf({n \in stored' : n > Max(S)}) > PageSize

\* A synchronisation stores a match, in any order: the ones that failed are
\* asked for again the next time.
StoreMatch(m) ==
    /\ m \notin stored
    /\ stored' = stored \cup {m}
    /\ jumped' = \/ jumped
                 \/ \E a, b \in Known : a < m /\ m < b
                 \/ Behind(cached)
                 \/ \E c \in Calls : offset[c] = 0 /\ Behind(items[c])
    /\ UNCHANGED <<cached, vm, shown, calls, restarts>>

\* listMatches reads the page...
ListByPUUID(c) ==
    /\ pc[c] = "list"
    /\ items' = [items EXCEPT ![c] = Page(offset[c])]
    /\ pc' = [pc EXCEPT ![c] = "count"]
    /\ UNCHANGED <<stored, cached, vm, shown, kind, offset, count, restarts, jumped>>

\* ...and then, in a query of its own, counts the rows.
CountByPUUID(c) ==
    /\ pc[c] = "count"
    /\ count' = [count EXCEPT ![c] = SizeOf(stored)]
    /\ pc' = [pc EXCEPT ![c] = "page"]
    /\ UNCHANGED <<stored, cached, vm, shown, kind, offset, items, restarts, jumped>>

-----------------------------------------------------------------------------
(* The application. *)

\* progress.total?.let { feed.size < it }: the feed is cut at `visible'.
CanLoadMore ==
    total # None /\ Min({visible, SizeOf(cached)}) < total

\* stateIn collects the flows and Compose draws the screen.
Render ==
    /\ shown' = [idle |-> ~refreshing, more |-> CanLoadMore]
    /\ shown' # shown
    /\ UNCHANGED <<stored, cached, vm, calls, restarts, jumped>>

\* A new coroutine; they differ in nothing, so it takes the first free name.
Launch(k, first) ==
    LET free == {c \in Calls : pc[c] = "idle"} IN
    /\ free # {}
    /\ kind' = [kind EXCEPT ![CHOOSE c \in free : TRUE] = k]
    /\ pc' = [pc EXCEPT ![CHOOSE c \in free : TRUE] = first]
    /\ refreshing' = TRUE
    /\ UNCHANGED <<stored, cached, total, visible, shown, offset, items, count, restarts, jumped>>

\* refresh() asks for the first page while the profile is under way.  (The retry of
\* ErrorState is not disabled while one is running; `shown' may lag, so two
\* refreshes at once are among the behaviours without it.)
Refresh == shown.idle /\ Launch("refresh", "list")

LoadMore == shown.idle /\ shown.more /\ Launch("more", "cached")

\* Mutant: the next page starts where the window ends.
CachedCountWindow(c) ==
    /\ pc[c] = "cached"
    /\ offset' = [offset EXCEPT ![c] = Min({N, visible})]
    /\ visible' = Min({N + PageSize, Max({visible, SizeOf(cached)}) + PageSize})
    /\ pc' = [pc EXCEPT ![c] = "list"]
    /\ UNCHANGED <<stored, cached, total, refreshing, shown, kind, items, count, restarts, jumped>>

\* Mutant: the window stays as it is.
CachedCountStuck(c) ==
    /\ pc[c] = "cached"
    /\ offset' = [offset EXCEPT ![c] = SizeOf(cached)]
    /\ pc' = [pc EXCEPT ![c] = "list"]
    /\ UNCHANGED <<stored, cached, vm, shown, kind, items, count, restarts, jumped>>

\* cachedCount gives the offset of the next page, and the window grows right after
\* it: nobody but the drawing of the screen reads the window in between.
CachedCount(c) ==
    /\ pc[c] = "cached"
    /\ offset' = [offset EXCEPT ![c] = SizeOf(cached)]
    /\ visible' = Min({N + PageSize, Max({visible, SizeOf(cached)}) + PageSize})
    /\ pc' = [pc EXCEPT ![c] = "list"]
    /\ UNCHANGED <<stored, cached, total, refreshing, shown, kind, items, count, restarts, jumped>>

\* The answer arrives: one transaction of Room stores the page.
UpsertPage(c) ==
    /\ pc[c] = "page"
    /\ cached' = cached \cup items[c]
    /\ items' = [items EXCEPT ![c] = {}]
    /\ pc' = [pc EXCEPT ![c] = "result"]
    /\ UNCHANGED <<stored, vm, shown, kind, offset, count, restarts, jumped>>

\* runCatchingApi: no network, a timeout or an error of the backend.
Fail(c) ==
    /\ pc[c] \in {"list", "count", "page"}
    /\ items' = [items EXCEPT ![c] = {}]
    /\ count' = [count EXCEPT ![c] = None]
    /\ pc' = [pc EXCEPT ![c] = "result"]
    /\ UNCHANGED <<stored, cached, vm, shown, kind, offset, restarts, jumped>>

\* Mutant: a coroutine that has failed leaves the spinner on.
ReturnBusy(c) ==
    /\ refreshing' = (count[c] = None /\ refreshing)
    /\ kind' = [kind EXCEPT ![c] = None]
    /\ pc' = [pc EXCEPT ![c] = "idle"]

\* The flag goes out whoever else is still under way.
Return(c) ==
    /\ refreshing' = FALSE
    /\ kind' = [kind EXCEPT ![c] = None]
    /\ pc' = [pc EXCEPT ![c] = "idle"]

\* The coroutine resumes with the page; refresh() goes on to await the profile.
Resume(c) ==
    /\ pc[c] = "result"
    /\ total' = IF count[c] = None THEN total ELSE count[c]
    /\ count' = [count EXCEPT ![c] = None]
    /\ offset' = [offset EXCEPT ![c] = 0]
    /\ IF kind[c] = "more" THEN Return(c)
       ELSE pc' = [pc EXCEPT ![c] = "profile"] /\ UNCHANGED <<refreshing, kind>>
    /\ UNCHANGED <<stored, cached, visible, shown, items, restarts, jumped>>

\* summoners.refresh has succeeded or failed.
AwaitProfile(c) ==
    /\ pc[c] = "profile"
    /\ Return(c)
    /\ UNCHANGED <<stored, cached, total, visible, shown, offset, items, count, restarts, jumped>>

\* The screen is left, or the process killed, and opened again: the
\* coroutines are cancelled, Room keeps the pages.
Reopen ==
    /\ restarts < MaxRestarts
    /\ restarts' = restarts + 1
    /\ total' = None /\ visible' = PageSize /\ refreshing' = TRUE
    /\ shown' = [idle |-> FALSE, more |-> FALSE]
    /\ kind' = [Idle(None) EXCEPT ![First] = "refresh"]
    /\ pc' = [Idle("idle") EXCEPT ![First] = "list"]
    /\ offset' = Idle(0) /\ items' = Idle({}) /\ count' = Idle(None)
    /\ UNCHANGED <<stored, cached, jumped>>

\* Mutant: the rows are counted before the page is read.
AnswerCountFirst(c) ==
    \/ /\ pc[c] = "list"
       /\ count' = [count EXCEPT ![c] = SizeOf(stored)]
       /\ pc' = [pc EXCEPT ![c] = "count"]
       /\ UNCHANGED <<stored, cached, vm, shown, kind, offset, items, restarts, jumped>>
    \/ /\ pc[c] = "count"
       /\ items' = [items EXCEPT ![c] = Page(offset[c])]
       /\ pc' = [pc EXCEPT ![c] = "page"]
       /\ UNCHANGED <<stored, cached, vm, shown, kind, offset, count, restarts, jumped>>
    \/ UpsertPage(c)

Answer(c) == ListByPUUID(c) \/ CountByPUUID(c) \/ UpsertPage(c)

Coroutine(c) == CachedCount(c) \/ Resume(c) \/ AwaitProfile(c)

Next ==
    \/ \E m \in Matches : StoreMatch(m)
    \/ Render
    \/ Refresh \/ LoadMore
    \/ \E c \in Calls : Answer(c) \/ Fail(c) \/ Coroutine(c)
    \/ Reopen

\* Compose draws a state that has changed.  What the user and the network are
\* assumed to do is said in FeedCompletes.
Spec == Init /\ [][Next]_vars /\ WF_vars(Render)

-----------------------------------------------------------------------------
(* Properties. *)

\* Types of the view model; a spinner belongs to some coroutine.
AppTypeOK ==
    /\ stored \subseteq Matches /\ cached \subseteq stored
    /\ total \in {None} \cup 0..N /\ visible \in PageSize..(N + PageSize)
    /\ refreshing \in BOOLEAN /\ shown \in [idle : BOOLEAN, more : BOOLEAN]
    /\ kind \in [Calls -> {None, "refresh", "more"}]
    /\ \A c \in Calls : pc[c] = "idle" <=> kind[c] = None
    /\ offset \in [Calls -> 0..N] /\ count \in [Calls -> {None} \cup 0..N]
    /\ \A c \in Calls : items[c] \subseteq stored /\ SizeOf(items[c]) <= PageSize
    /\ refreshing => \E c \in Calls : pc[c] # "idle"

\* The total of a page that is not empty never falls short of the page's own
\* end, although the two queries of listMatches are no transaction and
\* synchronisations store matches in between: a client that pages until it
\* has `total' rows stops at no row it was shown.
PageTotals ==
    \A c \in Calls :
        pc[c] = "page" /\ items[c] # {} => offset[c] + SizeOf(items[c]) <= count[c]

\* Whatever overlaps, fails or arrives late, the application caches an
\* unbroken run of the feed: offsets counted from the cache never skip a match
\* the backend has, unless the backend itself stored a match in the middle
\* or got more than a page ahead.
FeedGapless ==
    ~jumped => \A a, b \in cached, m \in stored : a < m /\ m < b => m \in cached

\* A user who goes on pulling, and on pressing the button while it is there,
\* and whose requests of either kind do not fail for ever, ends with the whole
\* feed and no button.
Succeeds(k) == []<><<\E c \in Calls : kind[c] = k /\ UpsertPage(c)>>_vars
Patient == Succeeds("refresh") /\ ([]<>shown.more => Succeeds("more"))
FeedCompletes ==
    Patient /\ []~jumped => <>[](cached = stored /\ ~CanLoadMore)
=============================================================================
