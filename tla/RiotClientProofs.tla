-------------------------- MODULE RiotClientProofs ---------------------------
(***************************************************************************)
(* Proofs about riot.Client over the cache in memory, for any number of     *)
(* calls and keys, any times to live, number of attempts and pauses.        *)
(***************************************************************************)
EXTENDS RiotClient, TLAPS, FiniteSetTheorems

-----------------------------------------------------------------------------
(* The inductive invariant. *)

\* The cache: an entry expires at most one time to live and one request after
\* the moment Riot gave the answer.
CacheSound ==
    /\ clock \in Nat /\ nextSweep \in Nat /\ nextSweep >= MinSweepSize
    /\ DOMAIN items \subseteq Keys
    /\ \A k \in DOMAIN items :
          items[k] \in Item /\ items[k].expires <= items[k].asOf + Ttl[k] + Timeout

Typed ==
    /\ pc \in [Callers -> {"idle", "limiter", "request", "store", "backoff"}]
    /\ key \in [Callers -> Keys \cup {NoKey}]
    /\ attempt \in [Callers -> 0..Attempts]
    /\ deadline \in [Callers -> Nat \cup {NoDeadline}]
    /\ began \in [Callers -> Nat] /\ due \in [Callers -> Nat]
    /\ answer \in [Callers -> Nat]
    /\ paid \in [Callers -> Nat] /\ notBefore \in [Callers -> Nat]

\* Where one call is, and what it may count on there.
Sound(c) ==
    /\ pc[c] # "idle" => key[c] \in Keys
    /\ attempt[c] <= paid[c]
    /\ pc[c] \in {"limiter", "backoff"} => attempt[c] < Attempts
    /\ pc[c] = "idle" => attempt[c] = 0 /\ notBefore[c] = 0
    /\ pc[c] = "request" => attempt[c] >= 1
    /\ pc[c] = "limiter" => notBefore[c] <= clock
    /\ pc[c] = "backoff" => notBefore[c] <= due[c]
    /\ pc[c] = "request" =>
          notBefore[c] <= began[c] /\ began[c] <= clock /\ clock <= began[c] + Timeout
    /\ pc[c] = "store" => clock <= answer[c] + Timeout

CallsSound == \A c \in Callers : Sound(c)

Inv == CacheSound /\ Typed /\ CallsSound /\ SizeBounded

LEMMA InitInv == Init => Inv
<1> SUFFICES ASSUME Init
             PROVE  Inv
  OBVIOUS
<1> USE MinSweepSizeAssumption, AttemptsAssumption
<1>1. DOMAIN items = {}
  BY DEF Init, CacheInit
<1>2. CacheSound
  BY <1>1 DEF Init, CacheInit, CacheSound
<1>3. Typed /\ CallsSound
  BY DEF Init, Typed, CallsSound, Sound
<1>4. SizeBounded
  BY <1>1, FS_EmptySet DEF Init, CacheInit, SizeBounded, Size
<1> QED BY <1>2, <1>3, <1>4 DEF Inv

-----------------------------------------------------------------------------
(* Steps of one call leave the others alone.                                  *)

LEMMA OneCall ==
    ASSUME Inv, Typed', CacheSound', SizeBounded', clock' = clock, NEW c \in Callers, Sound(c)',
           \A d \in Callers : d # c =>
              /\ pc'[d] = pc[d] /\ key'[d] = key[d] /\ attempt'[d] = attempt[d]
              /\ began'[d] = began[d] /\ due'[d] = due[d] /\ answer'[d] = answer[d]
              /\ paid'[d] = paid[d] /\ notBefore'[d] = notBefore[d]
    PROVE  Inv'
  BY DEF Inv, CallsSound, Sound

LEMMA ReturnSound ==
    ASSUME Inv, NEW c \in Callers, Return(c), CacheSound', SizeBounded', clock' = clock
    PROVE  Inv'
<1>1. Typed' /\ Sound(c)'
  BY AttemptsAssumption DEF Inv, Typed, Return, Sound
<1> QED BY <1>1, OneCall DEF Return, Inv, Typed

LEMMA CacheKept ==
    ASSUME Inv, UNCHANGED <<clock, cacheVars>>
    PROVE  CacheSound' /\ SizeBounded'
  BY DEF Inv, CacheSound, SizeBounded, Size, cacheVars

LEMMA PauseSound ==
    ASSUME Inv, NEW c \in Callers, pc[c] = "request", NEW delay \in Nat, Pause(c, delay),
           UNCHANGED <<clock, cacheVars>>,
           \/ notBefore' = notBefore
           \/ notBefore' = [notBefore EXCEPT ![c] = clock + delay]
    PROVE  Inv'
<1>1. CacheSound' /\ SizeBounded' /\ clock \in Nat /\ clock + delay \in Nat
  BY CacheKept DEF Inv, CacheSound
<1>2. Typed'
  BY <1>1 DEF Inv, Typed, Pause
<1>3. Sound(c)'
  <2>1. /\ pc'[c] = "backoff" /\ due'[c] = clock + delay /\ attempt'[c] = attempt[c]
        /\ paid'[c] = paid[c] /\ key'[c] = key[c] /\ attempt[c] < Attempts
    BY DEF Inv, Typed, Pause
  <2>2. notBefore'[c] <= clock + delay
    BY <1>1 DEF Inv, Typed, CallsSound, Sound
  <2> QED BY <2>1, <2>2 DEF Inv, CallsSound, Sound
<1> QED BY <1>1, <1>2, <1>3, OneCall DEF Pause, Inv, Typed

LEMMA BackoffsPositive == \A n \in Nat \ {0} : Backoffs(n) \subseteq Nat
<1> SUFFICES ASSUME NEW n \in Nat \ {0}
             PROVE  Backoffs(n) \subseteq Nat
  OBVIOUS
<1> DEFINE full == RetryBase * 2 ^ (n - 1)
           delay == IF full > MaxRetryDelay \/ full <= 0 THEN MaxRetryDelay ELSE full
<1>1. n - 1 \in Nat
  OBVIOUS
<1>2. 2 ^ (n - 1) \in Int
  BY <1>1
<1>3. full \in Int
  BY <1>2, DelayAssumption
<1> HIDE DEF full
<1>4. delay \in Nat
  BY <1>3, DelayAssumption
<1>5. Backoffs(n) = {delay \div 2 + r : r \in 0..(delay \div 2)}
  BY DEF Backoffs, full
<1> HIDE DEF delay
<1> QED BY <1>4, <1>5

-----------------------------------------------------------------------------
(* Set keeps the size of the map within the threshold it sweeps at.           *)

LEMMA SetSound ==
    ASSUME Inv, NEW k \in Keys, NEW asOf \in Nat, Set(k, asOf, Ttl[k]), clock' = clock,
           clock <= asOf + Timeout
    PROVE  CacheSound' /\ SizeBounded'
<1> USE MinSweepSizeAssumption, KeysAssumption, TtlAssumption
<1> DEFINE item == [asOf |-> asOf, expires |-> clock + Ttl[k]]
<1>1. item \in Item /\ item.expires <= item.asOf + Ttl[k] + Timeout
  BY DelayAssumption DEF Inv, CacheSound, Item
<1>2. IsFiniteSet(DOMAIN items)
  BY FS_Subset DEF Inv, CacheSound
<1>3. /\ DOMAIN Swept \subseteq DOMAIN items
      /\ \A l \in DOMAIN Swept : Swept[l] = items[l]
  BY DEF Swept
<1>4. IsFiniteSet(DOMAIN Swept)
  BY <1>2, <1>3, FS_Subset
<1>5. ASSUME NEW f, items' = With(f, k, item), DOMAIN f \subseteq DOMAIN items,
             \A l \in DOMAIN f : f[l] = items[l]
      PROVE  /\ DOMAIN items' = DOMAIN f \cup {k}
             /\ DOMAIN items' \subseteq Keys
             /\ \A l \in DOMAIN items' :
                   items'[l] \in Item /\ items'[l].expires <= items'[l].asOf + Ttl[l] + Timeout
  <2>1. DOMAIN items' = DOMAIN f \cup {k}
    BY <1>5 DEF With
  <2>2. \A l \in DOMAIN items' : items'[l] = IF l = k THEN item ELSE items[l]
    BY <1>5 DEF With
  <2> HIDE DEF item
  <2> QED BY <1>1, <1>5, <2>1, <2>2 DEF Inv, CacheSound
<1>6. ASSUME NEW S, IsFiniteSet(S)
      PROVE  Cardinality(S \cup {k}) <= Cardinality(S) + 1 /\ Cardinality(S) \in Nat
  <2>1. Cardinality(S) \in Nat
    BY <1>6, FS_CardinalityType
  <2>2. Cardinality(S \cup {k}) = IF k \in S THEN Cardinality(S) ELSE Cardinality(S) + 1
    BY <1>6, FS_AddElement
  <2> QED BY <2>1, <2>2
<1>7. nextSweep \in Nat /\ nextSweep >= MinSweepSize /\ clock \in Nat
  BY DEF Inv, CacheSound
<1>8. CASE Size >= nextSweep
  <2>1. items' = With(Swept, k, item) /\ nextSweep' = NextSweep
    BY <1>8 DEF Set
  <2> DEFINE n == Cardinality(DOMAIN Swept)
  <2>2. nextSweep' = IF 2 * n > MinSweepSize THEN 2 * n ELSE MinSweepSize
    BY <2>1 DEF NextSweep
  <2>3. /\ DOMAIN items' = DOMAIN Swept \cup {k}
        /\ DOMAIN items' \subseteq Keys
        /\ \A l \in DOMAIN items' :
              items'[l] \in Item /\ items'[l].expires <= items'[l].asOf + Ttl[l] + Timeout
    <3> HIDE DEF item
    <3> QED BY <1>3, <1>5, <2>1
  <2>4. Cardinality(DOMAIN items') <= n + 1 /\ n \in Nat
    BY <1>4, <1>6, <2>3
  <2>5. IsFiniteSet(DOMAIN items')
    BY <2>3, FS_Subset
  <2>6. Cardinality(DOMAIN items') \in Nat
    BY <2>5, FS_CardinalityType
  <2> HIDE DEF n
  <2>7. nextSweep' \in Nat /\ nextSweep' >= MinSweepSize /\ Cardinality(DOMAIN items') <= nextSweep'
    BY <2>2, <2>4, <2>6
  <2> QED BY <1>7, <2>3, <2>7 DEF CacheSound, SizeBounded, Size
<1>9. CASE ~(Size >= nextSweep)
  <2>1. items' = With(items, k, item) /\ nextSweep' = nextSweep
    BY <1>9 DEF Set
  <2>2. /\ DOMAIN items' = DOMAIN items \cup {k}
        /\ DOMAIN items' \subseteq Keys
        /\ \A l \in DOMAIN items' :
              items'[l] \in Item /\ items'[l].expires <= items'[l].asOf + Ttl[l] + Timeout
    <3> HIDE DEF item
    <3> QED BY <1>5, <2>1
  <2>3. Cardinality(DOMAIN items') <= Size + 1 /\ Size \in Nat
    BY <1>2, <1>6, <2>2 DEF Size
  <2>4. IsFiniteSet(DOMAIN items')
    BY <2>2, FS_Subset
  <2>5. Cardinality(DOMAIN items') \in Nat
    BY <2>4, FS_CardinalityType
  <2>6. Cardinality(DOMAIN items') <= nextSweep'
    BY <1>7, <1>9, <2>1, <2>3, <2>5
  <2> QED BY <1>7, <2>1, <2>2, <2>6 DEF CacheSound, SizeBounded, Size
<1> QED BY <1>8, <1>9

-----------------------------------------------------------------------------
(* Every step.                                                                *)

LEMMA InvStep == Inv /\ [Next]_vars => Inv'
<1> SUFFICES ASSUME Inv, [Next]_vars
             PROVE  Inv'
  OBVIOUS
<1>1. CASE Tick
  <2>1. /\ clock' = clock + 1 /\ UNCHANGED <<cacheVars, callVars, calls>>
        /\ \A c \in Callers : pc[c] # "store" /\ ~Expired(c)
    BY <1>1 DEF Tick
  <2>2. CacheSound' /\ SizeBounded'
    BY <2>1 DEF Inv, CacheSound, SizeBounded, Size, cacheVars
  <2>3. Typed'
    BY <2>1 DEF Inv, Typed, callVars
  <2>4. ASSUME NEW c \in Callers
        PROVE  Sound(c)'
    <3>1. clock \in Nat /\ began[c] \in Nat /\ notBefore[c] \in Nat /\ Timeout \in Nat
      BY DelayAssumption DEF Inv, CacheSound, Typed
    <3>2. pc[c] = "request" => clock # began[c] + Timeout
      BY <2>1 DEF Expired
    <3> QED BY <2>1, <3>1, <3>2 DEF Inv, CallsSound, Sound, callVars
  <2> QED BY <2>2, <2>3, <2>4 DEF Inv, CallsSound
<1>2. ASSUME NEW c \in Callers, NEW k \in Keys, Miss(c, k)
      PROVE  Inv'
  <2>1. PICK d \in {clock + b : b \in Budgets} \cup {NoDeadline} :
           deadline' = [deadline EXCEPT ![c] = d]
    BY <1>2 DEF Miss
  <2>2. d \in Nat \cup {NoDeadline}
    BY DeadlineAssumption DEF Inv, CacheSound
  <2>3. Typed' /\ CacheSound' /\ SizeBounded'
    BY <1>2, <2>1, <2>2, CacheKept DEF Miss, Inv, Typed
  <2>4. Sound(c)'
    BY <1>2, AttemptsAssumption DEF Miss, Inv, Typed, CallsSound, Sound, CacheSound
  <2> QED BY <1>2, <2>3, <2>4, OneCall DEF Miss, Inv, Typed
<1>3. ASSUME NEW c \in Callers, Send(c)
      PROVE  Inv'
  <2>1. Sound(c) /\ clock \in Nat /\ Timeout \in Nat
    BY DelayAssumption DEF Inv, CallsSound, CacheSound
  <2>2. CacheSound' /\ SizeBounded'
    BY <1>3, CacheKept DEF Send
  <2>3. Typed'
    BY <1>3, <2>1, AttemptsAssumption DEF Send, Inv, Typed, Sound
  <2>4. Sound(c)'
    BY <1>3, <2>1, AttemptsAssumption DEF Send, Inv, Typed, Sound
  <2> QED BY <1>3, <2>2, <2>3, <2>4, OneCall DEF Send, Inv, Typed
<1>4. ASSUME NEW c \in Callers, LimiterRefuses(c) \/ Rejected(c) \/ Cancel(c)
      PROVE  Inv'
  BY <1>4, CacheKept, ReturnSound DEF LimiterRefuses, Rejected, Cancel
<1>5. ASSUME NEW c \in Callers, Answered(c)
      PROVE  Inv'
  <2>1. Sound(c) /\ clock \in Nat /\ began[c] \in Nat
    BY DEF Inv, CallsSound, CacheSound, Typed
  <2>2. PICK t \in began[c]..clock : answer' = [answer EXCEPT ![c] = t]
    BY <1>5 DEF Answered
  <2>3. t \in Nat /\ clock <= t + Timeout
    BY <1>5, <2>1, <2>2, DelayAssumption DEF Answered, Sound
  <2>4. CacheSound' /\ SizeBounded' /\ Typed'
    BY <1>5, <2>2, <2>3, CacheKept DEF Answered, Inv, Typed
  <2>5. Sound(c)'
    BY <1>5, <2>1, <2>2, <2>3 DEF Answered, Inv, Typed, Sound
  <2> QED BY <1>5, <2>2, <2>4, <2>5, OneCall DEF Answered, Inv, Typed
<1>6. ASSUME NEW c \in Callers, UpstreamError(c)
      PROVE  Inv'
  <2>1. attempt[c] \in Nat \ {0}
    BY <1>6 DEF UpstreamError, Inv, CallsSound, Sound, Typed
  <2>2. PICK delay \in Backoffs(attempt[c]) :
           GiveUp(c, delay) \/ (Pause(c, delay) /\ UNCHANGED notBefore)
    BY <1>6 DEF UpstreamError
  <2>3. delay \in Nat
    BY <2>1, BackoffsPositive
  <2>4. CASE GiveUp(c, delay)
    BY <1>6, <2>4, CacheKept, ReturnSound DEF UpstreamError, GiveUp
  <2>5. CASE Pause(c, delay) /\ UNCHANGED notBefore
    BY <1>6, <2>3, <2>5, PauseSound DEF UpstreamError
  <2> QED BY <2>2, <2>4, <2>5
<1>7. ASSUME NEW c \in Callers, RateLimited(c)
      PROVE  Inv'
  <2>1. PICK after \in RetryAfters :
           \/ GiveUp(c, after)
           \/ Pause(c, after) /\ notBefore' = [notBefore EXCEPT ![c] = clock + after]
    BY <1>7 DEF RateLimited
  <2>2. after \in Nat
    BY DelayAssumption
  <2>3. CASE GiveUp(c, after)
    BY <1>7, <2>3, CacheKept, ReturnSound DEF RateLimited, GiveUp
  <2>4. CASE Pause(c, after) /\ notBefore' = [notBefore EXCEPT ![c] = clock + after]
    BY <1>7, <2>2, <2>4, PauseSound DEF RateLimited
  <2> QED BY <2>1, <2>3, <2>4
<1>8. ASSUME NEW c \in Callers, Resume(c)
      PROVE  Inv'
  <2>1. Sound(c) /\ clock \in Nat /\ due[c] \in Nat /\ notBefore[c] \in Nat /\ due[c] <= clock
    BY <1>8 DEF Resume, Inv, CallsSound, CacheSound, Typed
  <2>2. CacheSound' /\ SizeBounded' /\ Typed'
    BY <1>8, CacheKept DEF Resume, Inv, Typed
  <2>3. Sound(c)'
    BY <1>8, <2>1 DEF Resume, Inv, Typed, Sound
  <2> QED BY <1>8, <2>2, <2>3, OneCall DEF Resume, Inv, Typed
<1>9. ASSUME NEW c \in Callers, Store(c)
      PROVE  Inv'
  <2>1. /\ pc[c] = "store" /\ Return(c) /\ clock' = clock
        /\ Set(key[c], answer[c], Ttl[key[c]]) \/ UNCHANGED cacheVars
    BY <1>9 DEF Store
  <2>2. key[c] \in Keys /\ answer[c] \in Nat /\ clock <= answer[c] + Timeout
    BY <2>1 DEF Inv, Typed, CallsSound, Sound
  <2>3. CacheSound' /\ SizeBounded'
    BY <2>1, <2>2, SetSound, CacheKept
  <2> QED BY <2>1, <2>3, ReturnSound
<1>10. CASE UNCHANGED vars
  <2>1. CacheSound' /\ SizeBounded'
    BY <1>10, CacheKept DEF vars
  <2>2. Typed' /\ CallsSound'
    BY <1>10 DEF vars, callVars, Inv, Typed, CallsSound, Sound
  <2> QED BY <2>1, <2>2 DEF Inv
<1> QED
  BY <1>1, <1>2, <1>3, <1>4, <1>5, <1>6, <1>7, <1>8, <1>9, <1>10 DEF Next

LEMMA Invariance == Spec => []Inv
  BY InitInv, InvStep, PTL DEF Spec

-----------------------------------------------------------------------------

\* Types of the calls and of the cache; no call sends more than Attempts.
THEOREM TypesKept == Spec => []TypeOK
<1>1. Inv => TypeOK
  BY DEF Inv, CacheSound, Typed, TypeOK
<1> QED BY <1>1, Invariance, PTL

\* No request, first or repeated, goes out that the limiter has not let pass.
THEOREM AttemptsPaid == Spec => []EveryAttemptPaid
<1>1. Inv => EveryAttemptPaid
  BY DEF Inv, CallsSound, Sound, EveryAttemptPaid
<1> QED BY <1>1, Invariance, PTL

\* No request goes out before the Retry-After of the call's last 429 is over.
THEOREM RetryAfterRespected == Spec => []RetryAfterKept
<1>1. Inv => RetryAfterKept
  BY DEF Inv, CallsSound, Sound, RetryAfterKept, Typed
<1> QED BY <1>1, Invariance, PTL

\* An answer served from the cache is younger than its time to live and one
\* request, in whatever order the calls for one key wrote theirs.
THEOREM CachedAnswersRecent == Spec => []AnswersRecent
<1>1. Inv => AnswersRecent
  <2> SUFFICES ASSUME Inv, NEW k \in Keys, Live(k)
               PROVE  clock - items[k].asOf < Ttl[k] + Timeout
    BY DEF AnswersRecent
  <2>1. /\ items[k] \in Item /\ items[k].expires <= items[k].asOf + Ttl[k] + Timeout
        /\ items[k].expires > clock /\ clock \in Nat
    BY DEF Live, Inv, CacheSound
  <2>2. items[k].expires \in Nat /\ items[k].asOf \in Nat /\ Ttl[k] \in Nat /\ Timeout \in Nat
    BY <2>1, TtlAssumption, DelayAssumption DEF Item
  <2> QED BY <2>1, <2>2
<1> QED BY <1>1, Invariance, PTL

\* The map of the cache stays within the size at which Set sweeps it.
THEOREM CacheBounded == Spec => []SizeBounded
<1>1. Inv => SizeBounded
  BY DEF Inv
<1> QED BY <1>1, Invariance, PTL

=============================================================================
