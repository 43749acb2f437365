----------------------------- MODULE RiotClient ------------------------------
(***************************************************************************)
(* internal/riot/client.go: what a call of do goes through - response cache, *)
(* limiter, up to Attempts requests with a pause between them, cache again - *)
(* for several calls at once, with deadlines, cancelled contexts and a cache *)
(* that may fail.  The limiter is taken by its promise: Wait returns nil at   *)
(* some moment, or an error once the context cannot be kept.                 *)
(*                                                                           *)
(* Time does not pass between an answer and the write to the cache, where    *)
(* the code waits for nothing, nor beyond the timeout of the HTTP client.    *)
(***************************************************************************)
EXTENDS MemoryCache

CONSTANTS
    Callers,       \* goroutines that call the client
    Ttl,           \* the time to live of each key; 0: not cached
    Attempts,      \* retryAttempts
    RetryBase,     \* retryBase
    MaxRetryDelay, \* maxRetryDelay
    RetryAfters,   \* what a 429 can ask for
    Timeout,       \* of the HTTP client
    Budgets,       \* how far ahead of the call a deadline can lie
    NoDeadline,    \* a context without a deadline
    NoKey,         \* no call under way
    CacheMayFail,  \* the cache is Redis, whose calls can fail
    MaxClock,      \* bound: no call begins later
    MaxCalls       \* bound: calls that reach for the limiter

ASSUME TtlAssumption == Ttl \in [Keys -> Nat]
ASSUME AttemptsAssumption == Attempts \in Nat \ {0}
ASSUME DelayAssumption ==
    /\ RetryBase \in Nat \ {0} /\ MaxRetryDelay \in Nat \ {0}
    /\ RetryAfters \subseteq Nat \ {0}
    /\ Timeout \in Nat \ {0}
ASSUME DeadlineAssumption == Budgets \subseteq Nat /\ NoDeadline \notin Nat

VARIABLES
    pc,        \* where each call is: "idle", "limiter", "request", "store", "backoff"
    key,       \* what it asks for
    attempt,   \* requests it has sent
    deadline,  \* of its context
    began,     \* when its request was sent, while it is out
    due,       \* when its pause ends
    answer,    \* when Riot gave the answer it is about to cache
    calls,     \* for MaxCalls
    (* History. *)
    paid,      \* times the limiter has let it pass
    notBefore  \* when the last Retry-After it was given is over

callVars == <<pc, key, attempt, deadline, began, due, answer, paid, notBefore>>
vars == <<clock, cacheVars, callVars, calls>>

Init ==
    /\ CacheInit
    /\ pc = [c \in Callers |-> "idle"]
    /\ key = [c \in Callers |-> NoKey]
    /\ attempt = [c \in Callers |-> 0]
    /\ deadline = [c \in Callers |-> NoDeadline]
    /\ began = [c \in Callers |-> 0]
    /\ due = [c \in Callers |-> 0]
    /\ answer = [c \in Callers |-> 0]
    /\ paid = [c \in Callers |-> 0]
    /\ notBefore = [c \in Callers |-> 0]
    /\ calls = 0

Past(c, t) == deadline[c] # NoDeadline /\ t > deadline[c]

\* The call returns, with an answer or an error.
Return(c) ==
    /\ pc' = [pc EXCEPT ![c] = "idle"]
    /\ key' = [key EXCEPT ![c] = NoKey]
    /\ attempt' = [attempt EXCEPT ![c] = 0]
    /\ deadline' = [deadline EXCEPT ![c] = NoDeadline]
    /\ began' = [began EXCEPT ![c] = 0]
    /\ due' = [due EXCEPT ![c] = 0]
    /\ answer' = [answer EXCEPT ![c] = 0]
    /\ paid' = [paid EXCEPT ![c] = 0]
    /\ notBefore' = [notBefore EXCEPT ![c] = 0]

-----------------------------------------------------------------------------
(* do and fromCache.  A hit returns at once and leaves no trace, so that only *)
(* the calls that go on to Riot are steps.                                    *)

\* No entry, an expired one, one the cache cannot read, or a key without ttl.
Miss(c, k) ==
    /\ pc[c] = "idle"
    /\ clock < MaxClock /\ calls < MaxCalls
    /\ Ttl[k] = 0 \/ ~Live(k) \/ CacheMayFail
    /\ calls' = calls + 1
    /\ \E d \in {clock + b : b \in Budgets} \cup {NoDeadline} :
          deadline' = [deadline EXCEPT ![c] = d]
    /\ key' = [key EXCEPT ![c] = k]
    /\ pc' = [pc EXCEPT ![c] = "limiter"]
    /\ UNCHANGED <<clock, cacheVars, attempt, began, due, answer, paid, notBefore>>

-----------------------------------------------------------------------------
(* fetch *)

\* limiter.Wait returns nil and the request goes out; with a context that has
\* ended by then, net/http would not send it (Cancel).
Send(c) ==
    /\ pc[c] = "limiter"
    /\ ~Past(c, clock)
    /\ attempt' = [attempt EXCEPT ![c] = @ + 1]
    /\ began' = [began EXCEPT ![c] = clock]
    /\ paid' = [paid EXCEPT ![c] = @ + 1]
    /\ pc' = [pc EXCEPT ![c] = "request"]
    /\ UNCHANGED <<clock, cacheVars, key, deadline, due, answer, calls, notBefore>>

\* limiter.Wait returns an error: it would have to outlast the deadline.
LimiterRefuses(c) ==
    /\ pc[c] = "limiter"
    /\ deadline[c] # NoDeadline
    /\ Return(c)
    /\ UNCHANGED <<clock, cacheVars, calls>>

\* get: 200, given by Riot at some moment since the request was sent.
Answered(c) ==
    /\ pc[c] = "request"
    /\ \E t \in began[c]..clock : answer' = [answer EXCEPT ![c] = t]
    /\ pc' = [pc EXCEPT ![c] = "store"]
    /\ began' = [began EXCEPT ![c] = 0]
    /\ UNCHANGED <<clock, cacheVars, key, attempt, deadline, due, calls, paid, notBefore>>

\* get: 404, a rejected key, another 4xx, a body that cannot be read, a
\* connection that breaks, or the timeout.  None of them is retried.
Rejected(c) ==
    /\ pc[c] = "request"
    /\ Return(c)
    /\ UNCHANGED <<clock, cacheVars, calls>>

\* backoff: what is left of the context is shorter than the pause, or there
\* was the last attempt: fetch returns the last error.
GiveUp(c, delay) ==
    /\ attempt[c] = Attempts \/ Past(c, clock + delay)
    /\ Return(c)

\* One attempt too many.
PauseBug(c, delay) ==
    /\ attempt[c] <= Attempts
    /\ ~Past(c, clock + delay)
    /\ due' = [due EXCEPT ![c] = clock + delay]
    /\ pc' = [pc EXCEPT ![c] = "backoff"]
    /\ began' = [began EXCEPT ![c] = 0]
    /\ UNCHANGED <<key, attempt, deadline, answer, paid>>

Pause(c, delay) ==
    /\ attempt[c] < Attempts
    /\ ~Past(c, clock + delay)
    /\ due' = [due EXCEPT ![c] = clock + delay]
    /\ pc' = [pc EXCEPT ![c] = "backoff"]
    /\ began' = [began EXCEPT ![c] = 0]
    /\ UNCHANGED <<key, attempt, deadline, answer, paid>>

\* retryDelay without a Retry-After: exponential up to the ceiling, which also
\* takes the place of a shift that has overflowed; the upper half is drawn at
\* random.
Backoffs(n) ==
    LET full == RetryBase * 2 ^ (n - 1)
        delay == IF full > MaxRetryDelay \/ full <= 0 THEN MaxRetryDelay ELSE full
    IN  {delay \div 2 + r : r \in 0..(delay \div 2)}

\* get: 5xx
UpstreamError(c) ==
    /\ pc[c] = "request"
    /\ \E delay \in Backoffs(attempt[c]) :
          \/ GiveUp(c, delay)
          \/ Pause(c, delay) /\ UNCHANGED notBefore
    /\ UNCHANGED <<clock, cacheVars, calls>>

\* The ceiling of the pauses applied to Retry-After as well.
RateLimitedBug(c) ==
    /\ pc[c] = "request"
    /\ \E after \in RetryAfters :
          LET delay == IF after > MaxRetryDelay THEN MaxRetryDelay ELSE after
          IN  \/ GiveUp(c, delay)
              \/ /\ Pause(c, delay)
                 /\ notBefore' = [notBefore EXCEPT ![c] = clock + after]
    /\ UNCHANGED <<clock, cacheVars, calls>>

\* get: 429.  The pause is what Riot asks for, however long.
RateLimited(c) ==
    /\ pc[c] = "request"
    /\ \E after \in RetryAfters :
          \/ GiveUp(c, after)
          \/ /\ Pause(c, after)
             /\ notBefore' = [notBefore EXCEPT ![c] = clock + after]
    /\ UNCHANGED <<clock, cacheVars, calls>>

\* A retry that does not queue at the limiter again.
ResumeBug(c) ==
    /\ pc[c] = "backoff"
    /\ due[c] <= clock
    /\ attempt' = [attempt EXCEPT ![c] = @ + 1]
    /\ began' = [began EXCEPT ![c] = clock]
    /\ due' = [due EXCEPT ![c] = 0]
    /\ pc' = [pc EXCEPT ![c] = "request"]
    /\ UNCHANGED <<clock, cacheVars, key, deadline, answer, calls, paid, notBefore>>

\* The pause is over: to the limiter again.
Resume(c) ==
    /\ pc[c] = "backoff"
    /\ due[c] <= clock
    /\ due' = [due EXCEPT ![c] = 0]
    /\ pc' = [pc EXCEPT ![c] = "limiter"]
    /\ UNCHANGED <<clock, cacheVars, key, attempt, deadline, began, answer,
                   calls, paid, notBefore>>

\* The context ends, in the limiter, in a request or in a pause.
Cancel(c) ==
    /\ pc[c] \in {"limiter", "request", "backoff"}
    /\ Return(c)
    /\ UNCHANGED <<clock, cacheVars, calls>>

\* toCache, and do returns the body.
Store(c) ==
    /\ pc[c] = "store"
    /\ \/ Ttl[key[c]] > 0 /\ Set(key[c], answer[c], Ttl[key[c]])
       \/ (Ttl[key[c]] = 0 \/ CacheMayFail) /\ UNCHANGED cacheVars
    /\ Return(c)
    /\ UNCHANGED <<clock, calls>>

-----------------------------------------------------------------------------

Expired(c) == pc[c] = "request" /\ clock = began[c] + Timeout

Tick ==
    /\ clock < MaxClock \/ \E c \in Callers : pc[c] # "idle"
    /\ \A c \in Callers : pc[c] # "store" /\ ~Expired(c)
    /\ \A c \in Callers :
          (pc[c] = "limiter" \/ (pc[c] = "backoff" /\ due[c] <= clock))
             => clock < MaxClock
    /\ clock' = clock + 1
    /\ UNCHANGED <<cacheVars, callVars, calls>>

Next ==
    \/ Tick
    \/ \E c \in Callers :
          \/ \E k \in Keys : Miss(c, k)
          \/ Send(c) \/ LimiterRefuses(c)
          \/ Answered(c) \/ Rejected(c) \/ UpstreamError(c) \/ RateLimited(c)
          \/ Resume(c) \/ Cancel(c) \/ Store(c)

Spec == Init /\ [][Next]_vars

-----------------------------------------------------------------------------
(* Properties. *)

\* Types of the calls and of the cache; no call sends more than Attempts.
TypeOK ==
    /\ clock \in Nat
    /\ DOMAIN items \subseteq Keys
    /\ \A k \in DOMAIN items : items[k] \in Item
    /\ nextSweep \in Nat
    /\ pc \in [Callers -> {"idle", "limiter", "request", "store", "backoff"}]
    /\ key \in [Callers -> Keys \cup {NoKey}]
    /\ attempt \in [Callers -> 0..Attempts]
    /\ deadline \in [Callers -> Nat \cup {NoDeadline}]
    /\ began \in [Callers -> Nat] /\ due \in [Callers -> Nat]
    /\ answer \in [Callers -> Nat]
    /\ paid \in [Callers -> Nat] /\ notBefore \in [Callers -> Nat]

\* Every request, a repeated one too, has passed the limiter by itself: the key
\* is never charged for a request the limiter does not know of.
EveryAttemptPaid == \A c \in Callers : attempt[c] <= paid[c]

\* After a 429 a call does not send again before the Retry-After Riot named is
\* over, whatever the limiter and the ceiling of the other pauses say.
RetryAfterKept ==
    \A c \in Callers : pc[c] = "request" => began[c] >= notBefore[c]

\* Whoever is served from the cache gets an answer that Riot gave less than
\* the time to live and the time of one request ago, also when several calls
\* for one key were under way and the answers were written in another order
\* than they were given.
AnswersRecent ==
    \A k \in Keys : Live(k) => clock - items[k].asOf < Ttl[k] + Timeout
==============================================================================
