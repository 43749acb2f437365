---------------------------- MODULE AppFeedProofs ----------------------------
(***************************************************************************)
(* Proofs about the paging of listMatches, for any number of matches, page  *)
(* size, coroutines and restarts.                                           *)
(***************************************************************************)
EXTENDS AppFeed, TLAPS, FiniteSetTheorems, WellFoundedInduction

-----------------------------------------------------------------------------
(* The page reaches no further than the rows it is cut from. *)

LEMMA NewestExists ==
    ASSUME NEW S, S \subseteq Matches, S # {}
    PROVE  \E x \in S : \A y \in S : y <= x
<1> DEFINE R == OpToRel(<, Nat)
           T == {k \in Nat : N - k \in S}
<1>1. N \in Nat
  BY AppAssumption
<1>2. T # {} /\ T \subseteq Nat
  <2>1. PICK m \in S : TRUE
    OBVIOUS
  <2>2. m \in Int /\ 1 <= m /\ m <= N
    BY <1>1, <2>1 DEF Matches
  <2>3. N - m \in Nat /\ N - (N - m) = m
    BY <1>1, <2>2
  <2> QED BY <2>1, <2>3
<1>3. PICK k \in T : \A j \in T : <<j, k>> \notin R
  <2> HIDE DEF T, R
  <2>1. IsWellFoundedOn(R, Nat)
    BY NatLessThanWellFounded DEF R
  <2> QED BY <1>2, <2>1, WFMin
<1>4. \A j \in T : ~(j < k)
  BY <1>3 DEF OpToRel
<1>5. ASSUME NEW y \in S
      PROVE  y <= N - k
  <2>1. y \in Int /\ 1 <= y /\ y <= N
    BY <1>1, <1>5 DEF Matches
  <2>2. N - y \in Nat /\ N - (N - y) = y
    BY <1>1, <2>1
  <2>3. N - y \in T
    BY <1>5, <2>2
  <2>4. ~(N - y < k) /\ k \in Nat
    BY <1>3, <1>4, <2>3
  <2> QED BY <1>1, <2>1, <2>2, <2>4
<1> QED BY <1>3, <1>5

LEMMA PageEnds ==
    ASSUME stored \subseteq Matches, NEW from \in Nat, Page(from) # {}
    PROVE  from + SizeOf(Page(from)) <= SizeOf(stored)
<1> DEFINE P == Page(from)
<1>1. IsFiniteSet(stored)
  <2>1. IsFiniteSet(Matches)
    BY AppAssumption, FS_Interval DEF Matches
  <2> QED BY <2>1, FS_Subset
<1>2. P \subseteq stored /\ \A m \in P : from <= SizeOf({n \in stored : n > m})
  BY AppAssumption, <1>1, FS_Subset, FS_CardinalityType DEF Page
<1>3. PICK x \in P : \A y \in P : y <= x
  BY <1>2, NewestExists
<1> DEFINE Newer == {n \in stored : n > x}
<1>4. Newer \subseteq stored /\ Newer \cap P = {} /\ Newer \cup P \subseteq stored
  <2>1. x \in Int /\ P \subseteq Int
    <3>1. Matches \subseteq Int
      BY DEF Matches
    <3>2. P \subseteq Matches
      BY <1>2
    <3> HIDE DEF P
    <3> QED BY <1>3, <3>1, <3>2
  <2>2. \A y \in P : ~(y > x)
    BY <1>3, <2>1
  <2> HIDE DEF P
  <2> QED BY <1>2, <2>2
<1>5. IsFiniteSet(Newer) /\ IsFiniteSet(P)
  BY <1>1, <1>2, <1>4, FS_Subset
<1>6. from <= Cardinality(Newer)
  BY <1>2, <1>3 DEF SizeOf
<1> HIDE DEF P, Newer
<1>7. Cardinality(Newer \cup P) = Cardinality(Newer) + Cardinality(P) - Cardinality({})
  BY <1>4, <1>5, FS_Union
<1>8. Cardinality({}) = 0 /\ Cardinality(Newer) \in Nat /\ Cardinality(P) \in Nat
  BY <1>5, FS_EmptySet, FS_CardinalityType
<1>9. Cardinality(Newer \cup P) <= Cardinality(stored) /\ Cardinality(stored) \in Nat
  BY <1>1, <1>4, FS_Subset, FS_CardinalityType
<1>10. from + Cardinality(P) <= Cardinality(stored)
  BY <1>6, <1>7, <1>8, <1>9
<1> QED BY <1>10 DEF P, SizeOf

-----------------------------------------------------------------------------
(* Rows are stored and never deleted: a page that was within the rows when it *)
(* was read still is when they are counted, and the count is kept with it.    *)

Places == {"idle", "cached", "list", "count", "page", "result", "profile"}

PageTyped ==
    /\ stored \subseteq Matches /\ cached \subseteq stored
    /\ pc \in [Calls -> Places] /\ offset \in [Calls -> Nat]
    /\ items \in [Calls -> SUBSET stored] /\ count \in [Calls -> Nat \cup {None}]

PageWithin ==
    \A c \in Calls : pc[c] = "count" /\ items[c] # {} =>
        offset[c] + SizeOf(items[c]) <= SizeOf(stored)

PageInv == PageTyped /\ PageWithin /\ PageTotals

LEMMA RowsFinite ==
    ASSUME NEW S, S \subseteq Matches
    PROVE  IsFiniteSet(S) /\ SizeOf(S) \in Nat
<1>1. IsFiniteSet(Matches)
  BY AppAssumption, FS_Interval DEF Matches
<1> QED BY <1>1, FS_Subset, FS_CardinalityType DEF SizeOf

LEMMA PageInit == Init => PageInv
<1> SUFFICES ASSUME Init
             PROVE  PageInv
  OBVIOUS
<1>1. PageTyped
  BY DEF Init, Idle, PageTyped, Places
<1>2. \A c \in Calls : pc[c] \in {"idle", "list"}
  BY DEF Init, Idle
<1> QED BY <1>1, <1>2 DEF PageInv, PageWithin, PageTotals

\* A step of one coroutine to a place where it has no page to answer for.
LEMMA PageLeft ==
    ASSUME PageInv, NEW c \in Calls, NEW place \in Places \ {"count", "page"},
           pc' = [pc EXCEPT ![c] = place], UNCHANGED stored,
           \A d \in Calls \ {c} : UNCHANGED <<offset[d], items[d], count[d]>>
    PROVE  PageWithin' /\ PageTotals'
  BY DEF PageInv, PageTyped, PageWithin, PageTotals

LEMMA PageStep == PageInv /\ [Next]_vars => PageInv'
<1> SUFFICES ASSUME PageInv, [Next]_vars
             PROVE  PageInv'
  OBVIOUS
<1> USE DEF vm, calls
<1>1. PageTyped /\ PageWithin /\ PageTotals
  BY DEF PageInv
<1>2. ASSUME NEW m \in Matches, StoreMatch(m)
      PROVE  PageInv'
  <2>1. PageTyped'
    BY <1>1, <1>2 DEF StoreMatch, PageTyped
  <2>2. SizeOf(stored) <= SizeOf(stored') /\ SizeOf(stored) \in Nat /\ SizeOf(stored') \in Nat
    <3>1. stored \subseteq stored' /\ IsFiniteSet(stored')
      BY <1>2, <2>1, RowsFinite DEF StoreMatch, PageTyped
    <3> QED BY <1>1, <2>1, <3>1, RowsFinite, FS_Subset DEF SizeOf, PageTyped
  <2>3. PageWithin'
    <3>1. ASSUME NEW c \in Calls, pc'[c] = "count", items'[c] # {}
          PROVE  offset'[c] + SizeOf(items'[c]) <= SizeOf(stored')
      <4>1. offset[c] + SizeOf(items[c]) <= SizeOf(stored)
            /\ UNCHANGED <<offset, items>>
        BY <1>1, <1>2, <3>1 DEF StoreMatch, PageWithin
      <4>2. offset[c] \in Nat /\ SizeOf(items[c]) \in Nat
        BY <1>1, RowsFinite DEF PageTyped
      <4> QED BY <2>2, <4>1, <4>2
    <3> QED BY <3>1 DEF PageWithin
  <2>4. PageTotals'
    BY <1>1, <1>2 DEF StoreMatch, PageTotals
  <2> QED BY <2>1, <2>3, <2>4 DEF PageInv
<1>3. ASSUME NEW c \in Calls, ListByPUUID(c)
      PROVE  PageInv'
  <2>1. items' = [items EXCEPT ![c] = Page(offset[c])] /\ Page(offset[c]) \subseteq stored
        /\ pc' = [pc EXCEPT ![c] = "count"] /\ UNCHANGED <<stored, cached, offset, count>>
    BY <1>3 DEF ListByPUUID, Page
  <2>2. PageTyped'
    BY <1>1, <2>1 DEF PageTyped, Places
  <2>3. offset[c] \in Nat /\ stored \subseteq Matches
    BY <1>1 DEF PageTyped
  <2>4. Page(offset[c]) # {} =>
           offset[c] + SizeOf(Page(offset[c])) <= SizeOf(stored)
    BY <2>3, PageEnds
  <2>5. PageWithin'
    BY <1>1, <2>1, <2>4 DEF PageWithin, PageTyped
  <2>6. PageTotals'
    BY <1>1, <2>1 DEF PageTotals, PageTyped
  <2> QED BY <2>2, <2>5, <2>6 DEF PageInv
<1>4. ASSUME NEW c \in Calls, CountByPUUID(c)
      PROVE  PageInv'
  <2>1. count' = [count EXCEPT ![c] = SizeOf(stored)] /\ pc[c] = "count"
        /\ pc' = [pc EXCEPT ![c] = "page"] /\ UNCHANGED <<stored, cached, offset, items>>
    BY <1>4 DEF CountByPUUID
  <2>2. PageTyped'
    BY <1>1, <2>1, RowsFinite DEF PageTyped, Places
  <2>3. PageWithin'
    BY <1>1, <2>1 DEF PageWithin, PageTyped
  <2>4. PageTotals'
    BY <1>1, <2>1 DEF PageTotals, PageWithin, PageTyped
  <2> QED BY <2>2, <2>3, <2>4 DEF PageInv
<1>5. ASSUME NEW c \in Calls, CachedCount(c)
      PROVE  PageInv'
  <2>1. PageTyped'
    BY <1>1, <1>5, RowsFinite DEF CachedCount, PageTyped, Places
  <2>2. PageWithin' /\ PageTotals'
    <3>1. \A d \in Calls \ {c} : UNCHANGED <<offset[d], items[d], count[d]>>
      BY <1>1, <1>5 DEF CachedCount, PageTyped
    <3>2. pc' = [pc EXCEPT ![c] = "list"] /\ UNCHANGED stored
      BY <1>5 DEF CachedCount
    <3> QED BY <3>1, <3>2, PageLeft DEF Places
  <2> QED BY <2>1, <2>2 DEF PageInv
<1>6. ASSUME NEW c \in Calls, UpsertPage(c) \/ Fail(c) \/ Resume(c) \/ AwaitProfile(c)
      PROVE  PageInv'
  <2>1. PICK place \in Places \ {"count", "page"} : pc' = [pc EXCEPT ![c] = place]
    BY <1>6 DEF UpsertPage, Fail, Resume, AwaitProfile, Return, Places
  <2>2. PageTyped'
    <3>1. pc' \in [Calls -> Places]
      BY <1>1, <2>1 DEF PageTyped
    <3>2. cached' \subseteq stored /\ stored' = stored
      BY <1>1, <1>6 DEF UpsertPage, Fail, Resume, AwaitProfile, PageTyped
    <3>3. /\ offset' \in [Calls -> Nat] /\ items' \in [Calls -> SUBSET stored]
          /\ count' \in [Calls -> Nat \cup {None}]
      BY <1>1, <1>6 DEF UpsertPage, Fail, Resume, AwaitProfile, PageTyped
    <3> QED BY <1>1, <3>1, <3>2, <3>3 DEF PageTyped
  <2>3. \A d \in Calls \ {c} : UNCHANGED <<offset[d], items[d], count[d]>>
    BY <1>1, <1>6 DEF UpsertPage, Fail, Resume, AwaitProfile, PageTyped
  <2>4. UNCHANGED stored
    BY <1>6 DEF UpsertPage, Fail, Resume, AwaitProfile
  <2> QED BY <2>1, <2>2, <2>3, <2>4, PageLeft DEF PageInv
<1>7. CASE Refresh \/ LoadMore
  <2>1. PICK c : /\ c \in Calls
                 /\ pc' = [pc EXCEPT ![c] = "list"] \/ pc' = [pc EXCEPT ![c] = "cached"]
    <3> DEFINE free == {c \in Calls : pc[c] = "idle"}
    <3>1. free # {} /\ (CHOOSE c \in free : TRUE) \in free
      BY <1>7 DEF Refresh, LoadMore, Launch
    <3> QED BY <1>7, <3>1 DEF Refresh, LoadMore, Launch
  <2>2. UNCHANGED <<stored, cached, offset, items, count>>
    BY <1>7 DEF Refresh, LoadMore, Launch
  <2>3. PageTyped'
    BY <1>1, <2>1, <2>2 DEF PageTyped, Places
  <2>4. PageWithin' /\ PageTotals'
    BY <1>1, <2>1, <2>2 DEF PageTyped, PageWithin, PageTotals
  <2> QED BY <2>3, <2>4 DEF PageInv
<1>8. CASE Reopen
  <2>1. PageTyped'
    BY <1>1, <1>8 DEF Reopen, Idle, PageTyped, Places
  <2>2. \A c \in Calls : pc'[c] \in {"idle", "list"}
    BY <1>8 DEF Reopen, Idle
  <2> QED BY <2>1, <2>2 DEF PageInv, PageWithin, PageTotals
<1>9. CASE UNCHANGED <<stored, cached, calls>>
  BY <1>1, <1>9 DEF PageInv, PageTyped, PageWithin, PageTotals
<1> QED
  BY <1>2, <1>3, <1>4, <1>5, <1>6, <1>7, <1>8, <1>9
  DEF Next, Answer, Coroutine, Render, vars

\* The total that listMatches answers with covers the page it comes with, for
\* any number of matches stored between its two queries.
THEOREM TotalsCover == Spec => []PageTotals
<1>1. PageInv => PageTotals
  BY DEF PageInv
<1> QED BY <1>1, PageInit, PageStep, PTL DEF Spec

-----------------------------------------------------------------------------
(* The cache is an unbroken run of the feed.  A page begins no further down   *)
(* than the cache is long, and the cache is no more than a page behind: so    *)
(* the page touches the cache, above it, below it or within it.               *)

Gapless(S) == \A a, b \in S, m \in stored : a < m /\ m < b => m \in S
Newer(x) == {n \in stored : n > x}
Near(S) == S # {} => SizeOf(Newer(Max(S))) <= PageSize

Offsets ==
    \A c \in Calls :
        /\ offset[c] <= SizeOf(cached)
        /\ items[c] # {} => pc[c] \in {"count", "page"}

\* Every page on its way touches the cache; while that is empty, they are all
\* first pages and touch each other.
Touching ==
    /\ Gapless(cached) /\ Near(cached)
    /\ \A c \in Calls :
          Gapless(cached \cup items[c]) /\ (offset[c] = 0 => Near(items[c]))
    /\ cached = {} => \A c, d \in Calls : Gapless(items[c] \cup items[d])

FeedInv == PageInv /\ Offsets /\ (~jumped => Touching)

LEMMA MaxFacts ==
    ASSUME NEW S, S \subseteq Matches, S # {}
    PROVE  Max(S) \in S /\ \A y \in S : y <= Max(S)
<1>1. S \subseteq Int
  BY DEF Matches
<1>2. \E x \in S : \A y \in S : x >= y
  BY <1>1, NewestExists
<1>3. Max(S) \in S /\ \A y \in S : Max(S) >= y
  BY <1>2 DEF Max
<1> QED BY <1>1, <1>3

LEMMA NewerFinite ==
    ASSUME stored \subseteq Matches, NEW x
    PROVE  Newer(x) \subseteq Matches /\ IsFiniteSet(Newer(x)) /\ SizeOf(Newer(x)) \in Nat
<1>1. Newer(x) \subseteq Matches
  BY DEF Newer
<1> QED BY <1>1, RowsFinite

\* The newer a match, the fewer are newer still.
LEMMA NewerShrinks ==
    ASSUME stored \subseteq Matches, NEW x \in Matches, NEW y \in Matches
    PROVE  /\ x <= y => Newer(y) \subseteq Newer(x)
           /\ x < y /\ y \in stored => Newer(y) \cup {y} \subseteq Newer(x)
           /\ y \notin Newer(y)
<1>1. x \in Int /\ y \in Int
  BY DEF Matches
<1>2. ASSUME NEW n \in Newer(y)
      PROVE  n \in stored /\ n \in Int /\ y < n
  BY DEF Newer, Matches
<1>3. y \notin Newer(y)
  <2> SUFFICES ASSUME y \in Newer(y)
               PROVE  FALSE
    OBVIOUS
  <2>1. y < y
    BY <1>2
  <2> QED BY <1>1, <2>1
<1>4. ASSUME x <= y, NEW n \in Newer(y)
      PROVE  n \in Newer(x)
  <2>1. x < n
    BY <1>1, <1>2, <1>4
  <2> QED BY <1>2, <2>1 DEF Newer
<1>5. ASSUME x < y, y \in stored
      PROVE  y \in Newer(x)
  BY <1>1, <1>5 DEF Newer
<1>6. x < y => x <= y
  BY <1>1
<1> QED BY <1>3, <1>4, <1>5, <1>6

LEMMA NearGrows ==
    ASSUME stored \subseteq Matches, NEW S, NEW T,
           S # {}, S \subseteq T, T \subseteq Matches, Near(S)
    PROVE  Near(T)
<1>1. Max(S) \in T /\ Max(T) \in T /\ Max(S) <= Max(T)
  BY MaxFacts
<1>2. Newer(Max(T)) \subseteq Newer(Max(S))
  BY <1>1, NewerShrinks
<1>3. SizeOf(Newer(Max(T))) <= SizeOf(Newer(Max(S)))
  BY <1>2, NewerFinite, FS_Subset DEF SizeOf
<1>4. SizeOf(Newer(Max(S))) <= PageSize
  BY DEF Near
<1>5. SizeOf(Newer(Max(T))) <= PageSize
  BY <1>3, <1>4, NewerFinite, AppAssumption
<1> QED BY <1>5 DEF Near

\* Two runs that touch a third are one run with it.
LEMMA Joined ==
    ASSUME stored \subseteq Matches, NEW S \in SUBSET Matches, S # {},
           NEW A \in SUBSET Matches, NEW B \in SUBSET Matches,
           Gapless(S \cup A), Gapless(S \cup B)
    PROVE  Gapless(S \cup A \cup B)
<1> SUFFICES ASSUME NEW a \in S \cup A \cup B, NEW b \in S \cup A \cup B,
                    NEW m \in stored, a < m, m < b, m \notin S \cup A \cup B
             PROVE  FALSE
  BY DEF Gapless
<1>1. PICK s \in S : TRUE
  OBVIOUS
<1>2. a \in Int /\ b \in Int /\ m \in Int /\ s \in Int
  BY <1>1 DEF Matches
<1>3. s < m \/ m < s
  BY <1>1, <1>2
<1> QED BY <1>1, <1>3 DEF Gapless

\* A page from `from' touches a run of that length or more that is near.
LEMMA PageTouches ==
    ASSUME stored \subseteq Matches, NEW S \in SUBSET stored, NEW from \in Nat,
           Gapless(S), Near(S), from <= SizeOf(S)
    PROVE  Gapless(S \cup Page(from))
<1> SUFFICES ASSUME NEW a \in S \cup Page(from), NEW b \in S \cup Page(from),
                    NEW m \in stored, a < m, m < b, m \notin S \cup Page(from)
             PROVE  FALSE
  BY DEF Gapless
<1> DEFINE rank(x) == SizeOf(Newer(x))
<1>1. PageSize \in Nat
  BY AppAssumption
<1>2. Page(from) \subseteq stored
      /\ \A x \in stored : x \in Page(from) <=> rank(x) \in from..(from + PageSize - 1)
  BY DEF Page, Newer
<1>3. stored \subseteq Int /\ S \subseteq Int /\ a \in Int /\ b \in Int /\ m \in Int
  BY <1>2 DEF Matches
<1>4. \A x \in stored : rank(x) \in Nat
  BY NewerFinite
<1>5. rank(m) < from \/ from + PageSize <= rank(m)
  <2> HIDE DEF rank
  <2> QED BY <1>1, <1>2, <1>4
\* The older of two matches has the greater rank.
<1>6. ASSUME NEW x \in stored, NEW y \in stored, x < y
      PROVE  rank(y) < rank(x)
  <2>1. Newer(y) \cup {y} \subseteq Newer(x) /\ y \notin Newer(y)
    BY <1>6, NewerShrinks
  <2>2. Cardinality(Newer(y) \cup {y}) = Cardinality(Newer(y)) + 1
    BY <2>1, NewerFinite, FS_AddElement
  <2>3. Cardinality(Newer(y) \cup {y}) <= Cardinality(Newer(x))
    BY <2>1, NewerFinite, FS_Subset
  <2>4. Cardinality(Newer(x)) \in Nat /\ Cardinality(Newer(y)) \in Nat
    BY NewerFinite DEF SizeOf
  <2>5. Cardinality(Newer(y)) < Cardinality(Newer(x))
    BY <2>2, <2>3, <2>4
  <2> QED BY <2>5 DEF SizeOf
<1>7. CASE rank(m) < from
  <2>1. b \in S
    <3> SUFFICES ASSUME b \in Page(from)
                 PROVE  FALSE
      OBVIOUS
    <3>1. rank(b) < rank(m) /\ from <= rank(b) /\ rank(b) \in Nat /\ rank(m) \in Nat
      BY <1>2, <1>4, <1>6
    <3> HIDE DEF rank
    <3> QED BY <1>7, <3>1
  <2>2. \A x \in S : m < x
    <3> SUFFICES ASSUME NEW x \in S, ~(m < x)
                 PROVE  FALSE
      OBVIOUS
    <3>1. x < m
      BY <1>3
    <3> QED BY <2>1, <3>1 DEF Gapless
  <2>3. S \subseteq Newer(m)
    BY <1>3, <2>2 DEF Newer
  <2>4. SizeOf(S) <= SizeOf(Newer(m))
    BY <2>3, NewerFinite, FS_Subset DEF SizeOf
  <2>5. SizeOf(S) \in Nat /\ SizeOf(Newer(m)) \in Nat
    BY RowsFinite, NewerFinite
  <2> QED BY <1>7, <2>4, <2>5
<1>8. CASE from + PageSize <= rank(m)
  <2>1. a \in S
    <3> SUFFICES ASSUME a \in Page(from)
                 PROVE  FALSE
      OBVIOUS
    <3>1. /\ rank(m) < rank(a) /\ rank(a) <= from + PageSize - 1
          /\ rank(a) \in Nat /\ rank(m) \in Nat
      BY <1>1, <1>2, <1>4, <1>6
    <3> HIDE DEF rank
    <3> QED BY <1>1, <1>8, <3>1
  <2>2. \A x \in S : x < m
    <3> SUFFICES ASSUME NEW x \in S, ~(x < m)
                 PROVE  FALSE
      OBVIOUS
    <3>1. m < x
      BY <1>3
    <3> QED BY <2>1, <3>1 DEF Gapless
  <2>3. Newer(m) \cup {m} \subseteq Newer(Max(S)) /\ m \notin Newer(m)
    <3>1. Max(S) \in S /\ Max(S) < m
      BY <2>1, <2>2, MaxFacts
    <3> QED BY <3>1, NewerShrinks
  <2>4. SizeOf(Newer(m)) + 1 <= SizeOf(Newer(Max(S)))
    <3>1. Cardinality(Newer(m) \cup {m}) = Cardinality(Newer(m)) + 1
      BY <2>3, NewerFinite, FS_AddElement
    <3>2. Cardinality(Newer(m) \cup {m}) <= Cardinality(Newer(Max(S)))
      BY <2>3, NewerFinite, FS_Subset
    <3> QED BY <3>1, <3>2 DEF SizeOf
  <2>5. SizeOf(Newer(Max(S))) <= PageSize
    BY <2>1 DEF Near
  <2>6. SizeOf(Newer(m)) \in Nat /\ SizeOf(Newer(Max(S))) \in Nat
    BY NewerFinite
  <2> QED BY <1>1, <1>8, <2>4, <2>5, <2>6
<1> QED BY <1>5, <1>7, <1>8

\* The first page is near: nothing but itself is newer than its newest match.
LEMMA FirstPageNear ==
    ASSUME stored \subseteq Matches
    PROVE  Near(Page(0))
<1> SUFFICES ASSUME Page(0) # {}
             PROVE  SizeOf(Newer(Max(Page(0)))) <= PageSize
  BY DEF Near
<1>1. Page(0) \subseteq Matches
  BY DEF Page
<1>2. Max(Page(0)) \in Page(0)
  BY <1>1, MaxFacts
<1>3. SizeOf(Newer(Max(Page(0)))) \in 0..(0 + PageSize - 1)
  BY <1>2 DEF Page, Newer
<1> QED BY <1>3, AppAssumption

LEMMA EmptySize == SizeOf({}) = 0
  BY FS_EmptySet DEF SizeOf

LEMMA FeedInit == Init => FeedInv
<1> SUFFICES ASSUME Init
             PROVE  FeedInv
  OBVIOUS
<1>1. PageInv
  BY PageInit
<1>2. cached = {} /\ \A c \in Calls : items[c] = {} /\ offset[c] = 0
  BY DEF Init, Idle
<1>3. Offsets
  BY <1>2, EmptySize DEF Offsets
<1>4. Touching
  BY <1>2 DEF Touching, Gapless, Near
<1> QED BY <1>1, <1>3, <1>4 DEF FeedInv

\* A step that stores nothing, in which pages are dropped at most.
LEMMA PagesDropped ==
    ASSUME Touching, UNCHANGED <<stored, cached>>,
           \A c \in Calls : \/ items'[c] = {}
                            \/ items'[c] = items[c] /\ offset'[c] = offset[c]
    PROVE  Touching'
<1>1. Gapless(cached)' /\ Near(cached)'
  BY DEF Touching, Gapless, Near, Newer
<1>2. ASSUME NEW c \in Calls
      PROVE  Gapless(cached \cup items[c])' /\ (offset'[c] = 0 => Near(items[c])')
  <2>1. CASE items'[c] = {}
    BY <1>1, <2>1 DEF Gapless, Near
  <2>2. CASE items'[c] = items[c] /\ offset'[c] = offset[c]
    BY <2>2 DEF Touching, Gapless, Near, Newer
  <2> QED BY <2>1, <2>2
<1>3. ASSUME cached = {}, NEW c \in Calls, NEW d \in Calls
      PROVE  Gapless(items[c] \cup items[d])'
  <2>1. Gapless(items[c] \cup items[d]) /\ Gapless(items[c]) /\ Gapless(items[d])
    BY <1>3 DEF Touching, Gapless
  <2> QED BY <2>1 DEF Gapless
<1> QED BY <1>1, <1>2, <1>3 DEF Touching

\* What of the state of a coroutine the offsets hang on.
LEMMA OffsetsKept ==
    ASSUME PageTyped, Offsets, cached \subseteq cached', cached' \subseteq Matches,
           \A c \in Calls :
              /\ offset'[c] \in {offset[c], 0, SizeOf(cached)}
              /\ items'[c] # {} => pc'[c] \in {"count", "page"}
    PROVE  Offsets'
<1>1. SizeOf(cached) <= SizeOf(cached') /\ SizeOf(cached) \in Nat /\ SizeOf(cached') \in Nat
  <2>1. IsFiniteSet(cached') /\ cached \subseteq Matches
    BY RowsFinite DEF PageTyped
  <2> QED BY <2>1, RowsFinite, FS_Subset DEF SizeOf
<1>2. ASSUME NEW c \in Calls
      PROVE  offset'[c] <= SizeOf(cached')
  <2>1. offset[c] \in Nat /\ offset[c] <= SizeOf(cached)
    BY DEF PageTyped, Offsets
  <2> QED BY <1>1, <2>1
<1> QED BY <1>2 DEF Offsets

\* A match is stored: not between two that the application knows, and not so
\* far ahead that the cache or a first page is left behind.
LEMMA TouchingStored ==
    ASSUME PageTyped, NEW m \in Matches, StoreMatch(m), ~jumped', ~jumped => Touching
    PROVE  Touching'
<1> USE DEF calls
<1>1. Touching /\ UNCHANGED <<cached, items, offset>> /\ stored' = stored \cup {m}
  BY DEF StoreMatch
<1>2. /\ \A a, b \in Known : ~(a < m /\ m < b)
      /\ ~Behind(cached)
      /\ \A c \in Calls : offset[c] = 0 => ~Behind(items[c])
  BY DEF StoreMatch
<1>3. stored' \subseteq Matches
  BY <1>1 DEF PageTyped
<1>4. ASSUME NEW S, S \subseteq Known, Gapless(S)
      PROVE  \A a, b \in S, n \in stored' : a < n /\ n < b => n \in S
  BY <1>1, <1>2, <1>4 DEF Gapless
<1>5. ASSUME NEW S, S # {} => SizeOf({n \in stored' : n > Max(S)}) \in Nat, ~Behind(S)
      PROVE  S # {} => SizeOf({n \in stored' : n > Max(S)}) <= PageSize
  BY <1>5, AppAssumption DEF Behind
<1>6. \A x : SizeOf({n \in stored' : n > x}) \in Nat
  <2> SUFFICES ASSUME NEW x
               PROVE  SizeOf({n \in stored' : n > x}) \in Nat
    OBVIOUS
  <2>1. {n \in stored' : n > x} \subseteq Matches
    BY <1>3
  <2> QED BY <2>1, RowsFinite
<1>7. cached \subseteq Known /\ \A c \in Calls : items[c] \subseteq Known
  BY DEF Known
<1>8. Gapless(cached)' /\ Near(cached)'
  <2>1. \A a, b \in cached, n \in stored' : a < n /\ n < b => n \in cached
    BY <1>1, <1>4, <1>7 DEF Touching
  <2>2. cached # {} => SizeOf({n \in stored' : n > Max(cached)}) <= PageSize
    BY <1>2, <1>5, <1>6
  <2> QED BY <1>1, <2>1, <2>2 DEF Gapless, Near, Newer
<1>9. ASSUME NEW c \in Calls
      PROVE  Gapless(cached \cup items[c])' /\ (offset'[c] = 0 => Near(items[c])')
  <2>1. \A a, b \in cached \cup items[c], n \in stored' :
           a < n /\ n < b => n \in cached \cup items[c]
    BY <1>1, <1>4, <1>7 DEF Touching
  <2>2. offset[c] = 0 /\ items[c] # {} =>
           SizeOf({n \in stored' : n > Max(items[c])}) <= PageSize
    BY <1>2, <1>5, <1>6
  <2> QED BY <1>1, <2>1, <2>2 DEF Gapless, Near, Newer
<1>10. ASSUME cached = {}, NEW c \in Calls, NEW d \in Calls
       PROVE  Gapless(items[c] \cup items[d])'
  <2>1. \A a, b \in items[c] \cup items[d], n \in stored' :
           a < n /\ n < b => n \in items[c] \cup items[d]
    BY <1>1, <1>4, <1>7, <1>10 DEF Touching
  <2> QED BY <1>1, <2>1 DEF Gapless
<1> QED BY <1>1, <1>8, <1>9, <1>10 DEF Touching

\* A page is read: it touches the cache, or the other first pages.
LEMMA TouchingListed ==
    ASSUME PageTyped, Offsets, Touching, NEW c \in Calls, ListByPUUID(c)
    PROVE  Touching'
<1> USE DEF calls
<1> DEFINE P == Page(offset[c])
<1>1. /\ items' = [items EXCEPT ![c] = P]
      /\ UNCHANGED <<stored, cached, offset>>
  BY DEF ListByPUUID
<1>2. /\ stored \subseteq Matches /\ cached \subseteq stored
      /\ \A d \in Calls : /\ items[d] \subseteq stored /\ offset[d] \in Nat
                          /\ offset[d] <= SizeOf(cached)
      /\ items'[c] = P /\ \A d \in Calls \ {c} : items'[d] = items[d]
  BY <1>1 DEF PageTyped, Offsets
<1>3. Gapless(cached \cup P)
  BY <1>2, PageTouches DEF Touching
<1>4. offset[c] = 0 => Near(P)
  BY <1>2, FirstPageNear
<1>5. ASSUME cached = {}, NEW d \in Calls \ {c}
      PROVE  Gapless(items[d] \cup P)
  <2>1. offset[c] = 0 /\ offset[d] = 0
    BY <1>2, <1>5, EmptySize
  <2>2. Near(items[d]) /\ Gapless(items[d])
    BY <1>5, <2>1 DEF Touching, Gapless
  <2>3. offset[c] <= SizeOf(items[d])
    BY <1>2, <2>1, RowsFinite
  <2> QED BY <1>2, <2>2, <2>3, PageTouches
<1> HIDE DEF P
<1>6. Gapless(cached)' /\ Near(cached)'
  BY <1>1 DEF Touching, Gapless, Near, Newer
<1>7. ASSUME NEW d \in Calls
      PROVE  Gapless(cached \cup items[d])' /\ (offset'[d] = 0 => Near(items[d])')
  <2>1. CASE d = c
    BY <1>1, <1>2, <1>3, <1>4, <2>1 DEF Gapless, Near, Newer
  <2>2. CASE d # c
    BY <1>1, <1>2, <2>2 DEF Touching, Gapless, Near, Newer
  <2> QED BY <2>1, <2>2
<1>8. ASSUME cached = {}, NEW d \in Calls, NEW e \in Calls
      PROVE  Gapless(items[d] \cup items[e])'
  <2>1. CASE d = c /\ e = c
    BY <1>1, <1>2, <1>3, <1>8, <2>1 DEF Gapless
  <2>2. CASE d = c /\ e # c
    BY <1>1, <1>2, <1>5, <1>8, <2>2 DEF Gapless
  <2>3. CASE d # c /\ e = c
    BY <1>1, <1>2, <1>5, <1>8, <2>3 DEF Gapless
  <2>4. CASE d # c /\ e # c
    BY <1>1, <1>2, <1>8, <2>4 DEF Touching, Gapless
  <2> QED BY <2>1, <2>2, <2>3, <2>4
<1> QED BY <1>1, <1>6, <1>7, <1>8 DEF Touching

\* A page is cached: the pages that touched the cache, or the page, touch both.
LEMMA TouchingCached ==
    ASSUME PageTyped, Offsets, Touching, NEW c \in Calls, UpsertPage(c)
    PROVE  Touching'
<1> USE DEF calls
<1> DEFINE P == items[c]
<1>1. /\ items' = [items EXCEPT ![c] = {}] /\ cached' = cached \cup P
      /\ UNCHANGED <<stored, offset>>
  BY DEF UpsertPage
<1>2. /\ stored \subseteq Matches /\ cached \subseteq Matches
      /\ \A d \in Calls : /\ items[d] \subseteq Matches /\ offset[d] \in Nat
                          /\ offset[d] <= SizeOf(cached)
      /\ items'[c] = {} /\ \A d \in Calls \ {c} : items'[d] = items[d]
  BY <1>1 DEF PageTyped, Offsets
<1>3. CASE P = {}
  BY <1>1, <1>2, <1>3, PagesDropped
<1>4. CASE P # {}
  <2>1. Gapless(cached \cup P)
    BY DEF Touching
  <2>2. Near(cached \cup P)
    <3>1. CASE cached = {}
      <4>1. offset[c] = 0
        BY <1>2, <3>1, EmptySize
      <4>2. Near(P) /\ cached \cup P = P
        BY <3>1, <4>1 DEF Touching
      <4> QED BY <4>2
    <3>2. CASE cached # {}
      BY <1>2, <3>2, NearGrows DEF Touching
    <3> QED BY <3>1, <3>2
  <2>3. ASSUME NEW d \in Calls \ {c}
        PROVE  Gapless(cached \cup P \cup items[d])
    <3>1. CASE cached = {}
      <4>1. Gapless(P \cup items[d]) /\ cached \cup P \cup items[d] = P \cup items[d]
        BY <3>1 DEF Touching
      <4> QED BY <4>1
    <3>2. CASE cached # {}
      BY <1>2, <3>2, Joined DEF Touching
    <3> QED BY <3>1, <3>2
  <2> HIDE DEF P
  <2>4. Gapless(cached)' /\ Near(cached)'
    BY <1>1, <2>1, <2>2 DEF Gapless, Near, Newer
  <2>5. ASSUME NEW d \in Calls
        PROVE  Gapless(cached \cup items[d])' /\ (offset'[d] = 0 => Near(items[d])')
    <3>1. CASE d = c
      BY <1>1, <1>2, <2>1, <3>1 DEF Gapless, Near
    <3>2. CASE d # c
      <4>1. offset[d] = 0 => Near(items[d])
        BY DEF Touching
      <4> QED BY <1>1, <1>2, <2>3, <3>2, <4>1 DEF Gapless, Near, Newer
    <3> QED BY <3>1, <3>2
  <2>6. cached' # {}
    BY <1>1, <1>4
  <2> QED BY <2>4, <2>5, <2>6 DEF Touching
<1> QED BY <1>3, <1>4

LEMMA FeedStep == FeedInv /\ [Next]_vars => FeedInv'
<1> SUFFICES ASSUME FeedInv, [Next]_vars
             PROVE  FeedInv'
  OBVIOUS
<1> USE DEF vm, calls
<1>1. PageInv /\ PageTyped /\ Offsets /\ (~jumped => Touching)
  BY DEF FeedInv, PageInv
<1>2. PageInv' /\ PageTyped' /\ cached' \subseteq Matches
  <2>1. PageInv'
    BY <1>1, PageStep
  <2> QED BY <2>1 DEF PageInv, PageTyped
<1>3. ASSUME UNCHANGED <<stored, cached, jumped>>,
             \A c \in Calls :
                /\ \/ items'[c] = {}
                   \/ items'[c] = items[c] /\ offset'[c] = offset[c]
                /\ offset'[c] \in {offset[c], 0, SizeOf(cached)}
                /\ items'[c] # {} => pc'[c] \in {"count", "page"}
      PROVE  FeedInv'
  <2>1. ~jumped' => Touching'
    BY <1>1, <1>3, PagesDropped
  <2>2. Offsets'
    BY <1>1, <1>2, <1>3, OffsetsKept
  <2> QED BY <1>2, <2>1, <2>2 DEF FeedInv
<1>4. ASSUME NEW m \in Matches, StoreMatch(m)
      PROVE  FeedInv'
  <2>1. UNCHANGED <<cached, offset, items, pc>> /\ (~jumped' => ~jumped)
    BY <1>4 DEF StoreMatch
  <2>2. Offsets'
    BY <1>1, <2>1 DEF Offsets
  <2>3. ~jumped' => Touching'
    BY <1>1, <1>4, <2>1, TouchingStored
  <2> QED BY <1>2, <2>2, <2>3 DEF FeedInv
<1>5. ASSUME NEW c \in Calls, ListByPUUID(c)
      PROVE  FeedInv'
  <2>1. /\ UNCHANGED <<cached, offset, jumped>>
        /\ \A d \in Calls : items'[d] # {} => pc'[d] \in {"count", "page"}
    BY <1>1, <1>5 DEF ListByPUUID, Offsets, PageTyped
  <2>2. Offsets'
    BY <1>1, <2>1 DEF Offsets
  <2>3. ~jumped' => Touching'
    BY <1>1, <1>5, <2>1, TouchingListed
  <2> QED BY <1>2, <2>2, <2>3 DEF FeedInv
<1>6. ASSUME NEW c \in Calls, UpsertPage(c)
      PROVE  FeedInv'
  <2>1. /\ cached \subseteq cached' /\ UNCHANGED <<offset, jumped>>
        /\ \A d \in Calls : items'[d] # {} => pc'[d] \in {"count", "page"}
    BY <1>1, <1>6 DEF UpsertPage, Offsets, PageTyped
  <2>2. Offsets'
    BY <1>1, <1>2, <2>1, OffsetsKept
  <2>3. ~jumped' => Touching'
    BY <1>1, <1>6, <2>1, TouchingCached
  <2> QED BY <1>2, <2>2, <2>3 DEF FeedInv
<1>7. ASSUME NEW c \in Calls, CountByPUUID(c) \/ Fail(c)
      PROVE  FeedInv'
  <2>1. UNCHANGED <<stored, cached, jumped, offset>>
    BY <1>7 DEF CountByPUUID, Fail
  <2>2. \A d \in Calls : /\ items'[d] \in {items[d], {}}
                         /\ items'[d] # {} => pc'[d] \in {"count", "page"}
    BY <1>1, <1>7 DEF CountByPUUID, Fail, Offsets, PageTyped
  <2> QED BY <1>3, <2>1, <2>2
<1>8. ASSUME NEW c \in Calls, CachedCount(c) \/ Resume(c) \/ AwaitProfile(c)
      PROVE  FeedInv'
  <2>1. UNCHANGED <<stored, cached, jumped, items>> /\ pc[c] \notin {"count", "page"}
    BY <1>8 DEF CachedCount, Resume, AwaitProfile
  <2>2. items[c] = {}
    BY <1>1, <2>1 DEF Offsets
  <2>3. /\ offset'[c] \in {offset[c], 0, SizeOf(cached)}
        /\ \A d \in Calls \ {c} : offset'[d] = offset[d] /\ pc'[d] = pc[d]
    BY <1>1, <1>8 DEF CachedCount, Resume, AwaitProfile, Return, PageTyped
  <2>4. \A d \in Calls : items'[d] # {} => pc'[d] \in {"count", "page"}
    BY <1>1, <2>1, <2>2, <2>3 DEF Offsets
  <2> QED BY <1>3, <2>1, <2>2, <2>3, <2>4
<1>9. CASE Refresh \/ LoadMore
  <2>1. PICK c : /\ c \in Calls /\ pc[c] = "idle"
                 /\ pc' = [pc EXCEPT ![c] = "list"] \/ pc' = [pc EXCEPT ![c] = "cached"]
    <3> DEFINE free == {c \in Calls : pc[c] = "idle"}
    <3>1. free # {} /\ (CHOOSE c \in free : TRUE) \in free
      BY <1>9 DEF Refresh, LoadMore, Launch
    <3> QED BY <1>9, <3>1 DEF Refresh, LoadMore, Launch
  <2>2. UNCHANGED <<stored, cached, offset, items, jumped>>
    BY <1>9 DEF Refresh, LoadMore, Launch
  <2>3. \A d \in Calls : items'[d] # {} => pc'[d] \in {"count", "page"}
    BY <1>1, <2>1, <2>2 DEF Offsets, PageTyped
  <2> QED BY <1>3, <2>2, <2>3
<1>10. CASE Reopen
  <2>1. /\ UNCHANGED <<stored, cached, jumped>>
        /\ \A d \in Calls : items'[d] = {} /\ offset'[d] = 0
    BY <1>10 DEF Reopen, Idle
  <2> QED BY <1>3, <2>1
<1>11. CASE UNCHANGED <<stored, cached, calls, jumped>>
  <2>1. \A d \in Calls : items[d] # {} => pc[d] \in {"count", "page"}
    BY <1>1 DEF Offsets
  <2> QED BY <1>3, <1>11, <2>1
<1> QED
  BY <1>4, <1>5, <1>6, <1>7, <1>8, <1>9, <1>10, <1>11
  DEF Next, Answer, Coroutine, Render, vars

\* The cache never skips a match the backend has, for any number of matches,
\* any page size, and coroutines that overlap, fail and are cancelled at will.
THEOREM FeedUnbroken == Spec => []FeedGapless
<1>1. FeedInv => FeedGapless
  BY DEF FeedInv, Touching, Gapless, FeedGapless
<1> QED BY <1>1, FeedInit, FeedStep, PTL DEF Spec

-----------------------------------------------------------------------------
(* Types.  The counters are sizes of sets of matches, and a page is no longer *)
(* than PageSize, since no two matches have as many newer ones.               *)

LEMMA SizeBound ==
    ASSUME NEW S, S \subseteq Matches
    PROVE  SizeOf(S) \in 0..N
<1>1. IsFiniteSet(Matches) /\ Cardinality(Matches) <= N
  <2>1. N \in Nat /\ N \in Int /\ 1 \in Int
    BY AppAssumption
  <2>2. IsFiniteSet(1..N) /\ Cardinality(1..N) = IF 1 > N THEN 0 ELSE N - 1 + 1
    BY <2>1, FS_Interval
  <2> DEFINE n == Cardinality(Matches)
  <2>3. IsFiniteSet(Matches) /\ n = IF 1 > N THEN 0 ELSE N - 1 + 1
    BY <2>2 DEF Matches
  <2> HIDE DEF n
  <2>4. n <= N
    BY <2>1, <2>3
  <2> QED BY <2>3, <2>4 DEF n
<1>2. Cardinality(S) <= Cardinality(Matches)
  BY <1>1, FS_Subset
<1>3. Cardinality(S) \in Nat /\ Cardinality(Matches) \in Nat
  BY <1>1, RowsFinite, FS_CardinalityType DEF SizeOf
<1>4. Cardinality(S) \in 0..N
  BY <1>1, <1>2, <1>3, AppAssumption
<1> QED BY <1>4 DEF SizeOf

LEMMA PageBound ==
    ASSUME stored \subseteq Matches, NEW from \in Nat
    PROVE  SizeOf(Page(from)) <= PageSize
<1> DEFINE P == Page(from)
           I == from..(from + PageSize - 1)
           f == [x \in P |-> SizeOf(Newer(x))]
<1>1. P \subseteq Matches /\ \A x \in P : f[x] \in I
  BY DEF Page, Newer
<1>2. ASSUME NEW x \in P, NEW y \in P, x < y
      PROVE  f[x] # f[y]
  <2>1. Newer(y) \cup {y} \subseteq Newer(x) /\ y \notin Newer(y)
    BY <1>1, <1>2, NewerShrinks DEF Page
  <2>2. Cardinality(Newer(y) \cup {y}) = Cardinality(Newer(y)) + 1
    BY <2>1, NewerFinite, FS_AddElement
  <2>3. Cardinality(Newer(y) \cup {y}) <= Cardinality(Newer(x))
    BY <2>1, NewerFinite, FS_Subset
  <2>4. Cardinality(Newer(x)) \in Nat /\ Cardinality(Newer(y)) \in Nat
    BY NewerFinite DEF SizeOf
  <2>5. Cardinality(Newer(x)) # Cardinality(Newer(y))
    BY <2>2, <2>3, <2>4
  <2> QED BY <2>5 DEF SizeOf
<1>3. f \in Injection(P, I)
  <2>1. ASSUME NEW x \in P, NEW y \in P, f[x] = f[y]
        PROVE  x = y
    <3>1. x \in Int /\ y \in Int
      BY <1>1 DEF Matches
    <3>2. ~(x < y) /\ ~(y < x)
      BY <1>2, <2>1
    <3> QED BY <3>1, <3>2
  <2>2. f \in [P -> I]
    BY <1>1
  <2> QED BY <2>1, <2>2 DEF Injection, IsInjective
<1>4. IsFiniteSet(I) /\ Cardinality(I) = PageSize
  <2>1. /\ from \in Int /\ from + PageSize - 1 \in Int
        /\ PageSize \in Nat \ {0} /\ ~(from > from + PageSize - 1)
    BY AppAssumption
  <2> DEFINE to == from + PageSize - 1
  <2>2. IsFiniteSet(from..to) /\ Cardinality(from..to) = IF from > to THEN 0 ELSE to - from + 1
    <3> HIDE DEF to
    <3>1. to \in Int
      BY <2>1 DEF to
    <3> QED BY <2>1, <3>1, FS_Interval
  <2>3. to - from + 1 = PageSize
    BY <2>1
  <2> QED BY <2>1, <2>2, <2>3
<1> HIDE DEF P, I, f
<1>5. Cardinality(P) <= PageSize
  BY <1>3, <1>4, FS_Injection
<1> QED BY <1>5 DEF P, SizeOf

LEMMA MinOfTwo ==
    ASSUME NEW a \in Int, NEW b \in Int
    PROVE  Min({a, b}) \in {a, b} /\ Min({a, b}) <= a /\ Min({a, b}) <= b
<1>1. \E x \in {a, b} : \A y \in {a, b} : x <= y
  OBVIOUS
<1> QED BY <1>1 DEF Min

LEMMA MaxOfTwo ==
    ASSUME NEW a \in Int, NEW b \in Int
    PROVE  Max({a, b}) \in {a, b} /\ a <= Max({a, b}) /\ b <= Max({a, b})
<1>1. \E x \in {a, b} : \A y \in {a, b} : x >= y
  OBVIOUS
<1>2. Max({a, b}) \in {a, b} /\ Max({a, b}) >= a /\ Max({a, b}) >= b
  BY <1>1 DEF Max
<1> QED BY <1>2

\* The window of a view model is a page at least, whatever is cached.
LEMMA WindowBound ==
    ASSUME visible \in PageSize..(N + PageSize), cached \subseteq Matches
    PROVE  Min({N + PageSize, Max({visible, SizeOf(cached)}) + PageSize})
              \in PageSize..(N + PageSize)
<1>1. /\ PageSize \in Nat /\ N \in Nat /\ SizeOf(cached) \in Nat
      /\ visible \in Nat /\ PageSize <= visible
  BY AppAssumption, SizeBound
<1> DEFINE x == Max({visible, SizeOf(cached)})
<1>2. x \in {visible, SizeOf(cached)} /\ visible <= x
  BY <1>1, MaxOfTwo
<1>3. x \in Nat /\ PageSize <= x
  BY <1>1, <1>2
<1> HIDE DEF x
<1> DEFINE y == Min({N + PageSize, x + PageSize})
<1>4. y \in {N + PageSize, x + PageSize} /\ y <= N + PageSize
  <2>1. N + PageSize \in Int /\ x + PageSize \in Int
    BY <1>1, <1>3
  <2> HIDE DEF y
  <2>2. y = Min({N + PageSize, x + PageSize})
    BY DEF y
  <2> QED BY <2>1, <2>2, MinOfTwo
<1> HIDE DEF y
<1>5. y \in PageSize..(N + PageSize)
  BY <1>1, <1>3, <1>4
<1> QED BY <1>5 DEF x, y

AppInv == PageInv /\ AppTypeOK

\* What the steps of one coroutine leave to be shown.
Kinds ==
    /\ kind \in [Calls -> {None, "refresh", "more"}]
    /\ \A c \in Calls : pc[c] = "idle" <=> kind[c] = None
    /\ refreshing \in BOOLEAN
    /\ refreshing => \E c \in Calls : pc[c] # "idle"

Amounts ==
    /\ total \in {None} \cup 0..N /\ visible \in PageSize..(N + PageSize)
    /\ shown \in [idle : BOOLEAN, more : BOOLEAN]
    /\ offset \in [Calls -> 0..N] /\ count \in [Calls -> {None} \cup 0..N]
    /\ \A c \in Calls : SizeOf(items[c]) <= PageSize

LEMMA AppSplit == PageTyped => (AppTypeOK <=> Kinds /\ Amounts)
  BY DEF PageTyped, AppTypeOK, Kinds, Amounts

LEMMA FirstCall == First \in Calls
  BY CallsAssumption DEF First

LEMMA AppInit == Init => AppInv
<1> SUFFICES ASSUME Init
             PROVE  AppInv
  OBVIOUS
<1>1. PageInv /\ PageTyped
  BY PageInit DEF PageInv
<1>2. Kinds
  BY FirstCall, CallsAssumption DEF Init, Idle, Kinds
<1>3. Amounts
  <2>1. PageSize \in PageSize..(N + PageSize) /\ 0 \in 0..N /\ 0 <= PageSize
    BY AppAssumption
  <2> QED BY <2>1, EmptySize DEF Init, Idle, Amounts
<1> QED BY <1>1, <1>2, <1>3, AppSplit DEF AppInv

LEMMA KindsStep == PageTyped /\ Kinds /\ [Next]_vars => Kinds'
<1> SUFFICES ASSUME PageTyped, Kinds, [Next]_vars
             PROVE  Kinds'
  OBVIOUS
<1> USE DEF vm, calls
<1>1. CASE UNCHANGED <<kind, pc, refreshing>>
  BY <1>1 DEF Kinds
\* A coroutine under way goes on to another place.
<1>2. ASSUME NEW c \in Calls, NEW place, place # "idle", pc[c] # "idle",
             pc' = [pc EXCEPT ![c] = place], UNCHANGED <<kind, refreshing>>
      PROVE  Kinds'
  BY <1>2 DEF PageTyped, Kinds
<1>3. ASSUME NEW c \in Calls, Return(c)
      PROVE  Kinds'
  BY <1>3 DEF Return, PageTyped, Kinds
<1>4. ASSUME NEW c \in Calls, Answer(c) \/ Fail(c) \/ Coroutine(c)
      PROVE  Kinds'
  <2>1. CASE ListByPUUID(c)
    BY <1>2, <2>1 DEF ListByPUUID
  <2>2. CASE CountByPUUID(c)
    BY <1>2, <2>2 DEF CountByPUUID
  <2>3. CASE UpsertPage(c)
    BY <1>2, <2>3 DEF UpsertPage
  <2>4. CASE Fail(c)
    BY <1>2, <2>4 DEF Fail
  <2>5. CASE CachedCount(c)
    BY <1>2, <2>5 DEF CachedCount
  <2>6. CASE Resume(c)
    BY <1>2, <1>3, <2>6 DEF Resume
  <2>7. CASE AwaitProfile(c)
    BY <1>3, <2>7 DEF AwaitProfile
  <2> QED BY <1>4, <2>1, <2>2, <2>3, <2>4, <2>5, <2>6, <2>7 DEF Answer, Coroutine
<1>5. ASSUME NEW k \in {"refresh", "more"}, NEW place, place # "idle", Launch(k, place)
      PROVE  Kinds'
  <2>1. PICK c \in Calls : kind' = [kind EXCEPT ![c] = k] /\ pc' = [pc EXCEPT ![c] = place]
    <3> DEFINE free == {c \in Calls : pc[c] = "idle"}
    <3>1. free # {} /\ (CHOOSE c \in free : TRUE) \in free
      BY <1>5 DEF Launch
    <3> QED BY <1>5, <3>1 DEF Launch
  <2>2. refreshing' = TRUE
    BY <1>5 DEF Launch
  <2> QED BY <1>5, <2>1, <2>2, CallsAssumption DEF PageTyped, Kinds
<1>6. CASE Reopen
  BY <1>6, FirstCall, CallsAssumption DEF Reopen, Idle, Kinds
<1> QED
  BY <1>1, <1>4, <1>5, <1>6 DEF Next, StoreMatch, Render, Refresh, LoadMore, vars

LEMMA AmountsStep == PageTyped /\ Kinds /\ Amounts /\ [Next]_vars => Amounts'
<1> SUFFICES ASSUME PageTyped, Kinds, Amounts, [Next]_vars
             PROVE  Amounts'
  OBVIOUS
<1> USE DEF vm, calls
<1>1. /\ stored \subseteq Matches /\ cached \subseteq Matches
      /\ 0 \in 0..N /\ SizeOf({}) <= PageSize /\ PageSize \in PageSize..(N + PageSize)
  BY AppAssumption, EmptySize DEF PageTyped
<1>2. ASSUME NEW m \in Matches, StoreMatch(m)
      PROVE  Amounts'
  BY <1>2 DEF StoreMatch, Amounts
<1>3. ASSUME NEW c \in Calls, ListByPUUID(c)
      PROVE  Amounts'
  <2>1. SizeOf(Page(offset[c])) <= PageSize
    BY <1>1, PageBound DEF PageTyped
  <2>2. /\ items' = [items EXCEPT ![c] = Page(offset[c])]
        /\ UNCHANGED <<total, visible, shown, offset, count>>
    BY <1>3 DEF ListByPUUID
  <2> QED BY <2>1, <2>2 DEF Amounts, PageTyped
<1>4. ASSUME NEW c \in Calls, CountByPUUID(c)
      PROVE  Amounts'
  <2>1. SizeOf(stored) \in 0..N
    BY <1>1, SizeBound
  <2> QED BY <1>4, <2>1 DEF CountByPUUID, Amounts
<1>5. ASSUME NEW c \in Calls, UpsertPage(c)
      PROVE  Amounts'
  BY <1>1, <1>5 DEF UpsertPage, Amounts, PageTyped
<1>6. ASSUME NEW c \in Calls, Fail(c)
      PROVE  Amounts'
  BY <1>1, <1>6 DEF Fail, Amounts, PageTyped
<1>7. ASSUME NEW c \in Calls, CachedCount(c)
      PROVE  Amounts'
  <2>1. SizeOf(cached) \in 0..N
    BY <1>1, SizeBound
  <2>2. visible' \in PageSize..(N + PageSize)
    BY <1>1, <1>7, WindowBound DEF CachedCount, Amounts
  <2>3. UNCHANGED <<total, shown, items, count>> /\ offset' = [offset EXCEPT ![c] = SizeOf(cached)]
    BY <1>7 DEF CachedCount
  <2> QED BY <2>1, <2>2, <2>3 DEF Amounts
<1>8. ASSUME NEW c \in Calls, Resume(c)
      PROVE  Amounts'
  BY <1>1, <1>8 DEF Resume, Amounts
<1>9. ASSUME NEW c \in Calls, AwaitProfile(c)
      PROVE  Amounts'
  BY <1>9 DEF AwaitProfile, Amounts
<1>10. CASE Render
  <2>1. (~refreshing) \in BOOLEAN /\ CanLoadMore \in BOOLEAN
    BY DEF Kinds, CanLoadMore
  <2>2. shown' \in [idle : BOOLEAN, more : BOOLEAN]
    BY <1>10, <2>1 DEF Render
  <2> QED BY <1>10, <2>2 DEF Render, Amounts
<1>11. CASE Refresh \/ LoadMore
  BY <1>11 DEF Refresh, LoadMore, Launch, Amounts
<1>12. CASE Reopen
  BY <1>1, <1>12 DEF Reopen, Idle, Amounts
<1>13. CASE UNCHANGED vars
  BY <1>13 DEF vars, Amounts
<1> QED
  BY <1>2, <1>3, <1>4, <1>5, <1>6, <1>7, <1>8, <1>9, <1>10, <1>11, <1>12, <1>13
  DEF Next, Answer, Coroutine

\* The view model, the cache and the requests keep their types, and a spinner
\* belongs to some coroutine.
THEOREM AppTypeCorrect == Spec => []AppTypeOK
<1>1. AppInv /\ [Next]_vars => AppInv'
  <2> SUFFICES ASSUME AppInv, [Next]_vars
               PROVE  AppInv'
    OBVIOUS
  <2>1. PageTyped /\ Kinds /\ Amounts /\ PageInv
    BY AppSplit DEF AppInv, PageInv
  <2>2. PageInv' /\ Kinds' /\ Amounts'
    BY <2>1, PageStep, KindsStep, AmountsStep
  <2>3. PageTyped'
    BY <2>2 DEF PageInv
  <2>4. AppTypeOK'
    BY <2>2, <2>3 DEF PageTyped, AppTypeOK, Kinds, Amounts
  <2> QED BY <2>2, <2>4 DEF AppInv
<1>2. AppInv => AppTypeOK
  BY DEF AppInv
<1> QED BY <1>1, <1>2, AppInit, PTL DEF Spec

=============================================================================
