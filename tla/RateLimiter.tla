----------------------------- MODULE RateLimiter -----------------------------
(***************************************************************************)
(* internal/ratelimit/ratelimit.go: the sliding-window limiter in front of *)
(* the Riot API.  A call of Wait reads the clock, reserves a moment under   *)
(* the mutex and sleeps until it.  Everything between l.mu.Lock and         *)
(* l.mu.Unlock is one step here; everything outside the mutex (the check of *)
(* the context, the read of the clock, the sleep) is a step of its own, so  *)
(* a call may reserve with a reading of the clock that is already old.      *)
(***************************************************************************)
EXTENDS Integers, Sequences, FiniteSets

CONSTANTS
    Callers,      \* goroutines that call Wait; one call each at a time
    Windows,      \* the windows of the limiter, e.g. one second and two minutes
    Limit,        \* requests a window allows ...
    Per,          \* ... in an interval of this length
    Budgets,      \* how far in the future a caller's context deadline may lie
    NoDeadline,   \* the deadline of a context that has none
    MaxClock,     \* bound: no new call is made after this moment
    MaxCalls      \* bound: calls made in a behaviour

\* New panics on a limit below 1 or an interval that is not positive.
ASSUME LimitAssumption == Limit \in [Windows -> Nat \ {0}]
ASSUME PerAssumption == Per \in [Windows -> Nat \ {0}]
ASSUME DeadlineAssumption == Budgets \subseteq Nat /\ NoDeadline \notin Nat
ASSUME BoundAssumption == MaxClock \in Nat /\ MaxCalls \in Nat

VARIABLES
    clock,      \* real time
    times,      \* window.times: reserved moments each window remembers
    last,       \* Limiter.last: the latest moment ever reserved
    pc,         \* where each caller is in Wait
    now,        \* the local variable now of each call
    deadline,   \* ctx.Deadline of each call
    at,         \* the moment each sleeping call has reserved
    due,        \* when the timer of each sleeping call fires
    calls,      \* calls made so far, for MaxCalls
    (* History, read only by the properties. *)
    log,        \* reserved moments, minus those handed back, oldest first
    prunedTo,   \* the latest clock reading any prune has used
    lapsed      \* a context ended in one of the two moments named at Lapse

limiterVars == <<times, last>>
callVars == <<pc, now, deadline, at, due>>
history == <<log, prunedTo, lapsed>>
vars == <<clock, calls, limiterVars, callVars, history>>

-----------------------------------------------------------------------------
(* One window.  A definition whose name ends in Bug is a mistake a change of  *)
(* the code could make; no specification uses it.  The properties are shown   *)
(* to notice it.                                                              *)

\* How many of the oldest entries of s are not after cutoff: the loop of prune
\* stops at the first entry that is.
Expired(s, cutoff) ==
    Cardinality({i \in DOMAIN s : \A j \in 1..i : s[j] <= cutoff})

\* window.prune
Prune(w, n) ==
    SubSeq(times[w], Expired(times[w], n - Per[w]) + 1, Len(times[w]))

\* The second entry from the wrong end.
EarliestBug(w, s, n) ==
    IF Len(s) < Limit[w] THEN n
    ELSE LET slot == s[Len(s)] + Per[w] IN IF slot < n THEN n ELSE slot

\* window.earliest, on the entries s that prune has left
Earliest(w, s, n) ==
    IF Len(s) < Limit[w] THEN n
    ELSE LET slot == s[Len(s) - Limit[w] + 1] + Per[w]
         IN  IF slot < n THEN n ELSE slot

\* Equal() forgotten: the newest entry goes, whoever reserved it.
TakeBackBug(s, m) == SubSeq(s, 1, Len(s) - 1)

\* window.rollback: only the newest entry can be taken back.
TakeBack(s, m) ==
    IF Len(s) > 0 /\ s[Len(s)] = m THEN SubSeq(s, 1, Len(s) - 1) ELSE s

-----------------------------------------------------------------------------
(* Limiter.reserve: the moments that bound the reservation from below. *)
Bounds(n) == {n, last} \cup {Earliest(w, Prune(w, n), n) : w \in Windows}

\* m is the latest of them.
Moment(m, n) == m \in Bounds(n) /\ \A b \in Bounds(n) : b <= m

TooLate(c, m) == deadline[c] # NoDeadline /\ deadline[c] < m

Init ==
    /\ clock = 0
    /\ times = [w \in Windows |-> <<>>]
    /\ last = 0
    /\ pc = [c \in Callers |-> "idle"]
    /\ now = [c \in Callers |-> 0]
    /\ deadline = [c \in Callers |-> NoDeadline]
    /\ at = [c \in Callers |-> 0]
    /\ due = [c \in Callers |-> 0]
    /\ calls = 0
    /\ log = <<>>
    /\ prunedTo = 0
    /\ lapsed = FALSE

\* Wait begins with a context that has not ended (a call whose ctx.Err() is
\* already set returns at once and changes nothing).
Enter(c) ==
    /\ pc[c] = "idle"
    /\ clock < MaxClock
    /\ calls < MaxCalls
    /\ calls' = calls + 1
    /\ \E d \in {clock + b : b \in Budgets} \cup {NoDeadline} :
          deadline' = [deadline EXCEPT ![c] = d]
    /\ pc' = [pc EXCEPT ![c] = "entered"]
    /\ UNCHANGED <<clock, limiterVars, now, at, due, history>>

\* A clock that lags behind the one the reservations are made on.
ReadClockBug(c) ==
    /\ pc[c] = "entered"
    /\ now' = [now EXCEPT ![c] = clock - 1]
    /\ pc' = [pc EXCEPT ![c] = "reserving"]
    /\ UNCHANGED <<clock, calls, limiterVars, deadline, at, due, history>>

\* now := l.now(), outside the mutex.
ReadClock(c) ==
    /\ pc[c] = "entered"
    /\ now' = [now EXCEPT ![c] = clock]
    /\ pc' = [pc EXCEPT ![c] = "reserving"]
    /\ UNCHANGED <<clock, calls, limiterVars, deadline, at, due, history>>

\* Wait returns; its local variables are gone.
Return(c) ==
    /\ pc' = [pc EXCEPT ![c] = "idle"]
    /\ now' = [now EXCEPT ![c] = 0]
    /\ deadline' = [deadline EXCEPT ![c] = NoDeadline]
    /\ at' = [at EXCEPT ![c] = 0]
    /\ due' = [due EXCEPT ![c] = 0]

Latest(m, n) == IF m < n THEN n ELSE m

\* earliest() has pruned every window by the time the deadline is looked at.
PruneAll(c) == [w \in Windows |-> Prune(w, now[c])]

\* reserve finds a moment the deadline allows and commits it to every window.
Commit(c, m) ==
    /\ pc[c] = "reserving"
    /\ Moment(m, now[c])
    /\ ~TooLate(c, m)
    /\ times' = [w \in Windows |-> Append(Prune(w, now[c]), m)]
    /\ last' = m
    /\ log' = Append(log, m)
    /\ prunedTo' = Latest(prunedTo, now[c])
    /\ UNCHANGED <<clock, calls, lapsed>>

\* delay <= 0: Wait returns at once.
Grant(c) ==
    /\ \E m \in Bounds(now[c]) : m <= now[c] /\ Commit(c, m)
    /\ Return(c)

\* delay > 0: the timer runs for at - now, whatever the clock says by then.
Sleep(c) ==
    /\ \E m \in Bounds(now[c]) :
          /\ m > now[c]
          /\ Commit(c, m)
          /\ at' = [at EXCEPT ![c] = m]
          /\ due' = [due EXCEPT ![c] = clock + (m - now[c])]
    /\ pc' = [pc EXCEPT ![c] = "sleeping"]
    /\ now' = [now EXCEPT ![c] = 0]
    /\ UNCHANGED deadline

\* The moment lies after the deadline: nothing is committed, but the windows
\* have been pruned.
Refuse(c) ==
    /\ pc[c] = "reserving"
    /\ \E m \in Bounds(now[c]) : Moment(m, now[c]) /\ TooLate(c, m)
    /\ times' = PruneAll(c)
    /\ prunedTo' = Latest(prunedTo, now[c])
    /\ lapsed' = (lapsed \/ TooLate(c, now[c]))
    /\ Return(c)
    /\ UNCHANGED <<clock, calls, last, log>>

\* timer.C
Wake(c) ==
    /\ pc[c] = "sleeping"
    /\ due[c] <= clock
    /\ Return(c)
    /\ UNCHANGED <<clock, calls, limiterVars, history>>

\* What log keeps: the newest reservation leaves it when it is handed back.
HandBack(m) ==
    IF log # <<>> /\ log[Len(log)] = m THEN SubSeq(log, 1, Len(log) - 1) ELSE log

\* ctx.Done ends the sleep (the deadline passes, or the caller gives up), and
\* rollback takes the lock again.  Nobody sees the instant between the two.
Cancel(c) ==
    /\ pc[c] = "sleeping"
    /\ times' = [w \in Windows |-> TakeBack(times[w], at[c])]
    /\ log' = HandBack(at[c])
    /\ lapsed' = (lapsed \/ at[c] <= clock)
    /\ Return(c)
    /\ UNCHANGED <<clock, calls, last, prunedTo>>

Tick ==
    /\ clock < MaxClock \/ \E c \in Callers : clock < due[c]
    /\ clock' = clock + 1
    /\ UNCHANGED <<calls, limiterVars, callVars, history>>

Step(c) ==
    \/ Enter(c)
    \/ ReadClock(c)
    \/ Grant(c)
    \/ Sleep(c)
    \/ Refuse(c)
    \/ Wake(c)
    \/ Cancel(c)

Next == Tick \/ \E c \in Callers : Step(c)

Spec == Init /\ [][Next]_vars

-----------------------------------------------------------------------------
(* Properties. *)

\* Types of the limiter's state and of the local state of the calls.
TypeOK ==
    /\ clock \in Nat
    /\ times \in [Windows -> Seq(Nat)]
    /\ last \in Nat
    /\ pc \in [Callers -> {"idle", "entered", "reserving", "sleeping"}]
    /\ now \in [Callers -> Nat]
    /\ deadline \in [Callers -> Nat \cup {NoDeadline}]
    /\ at \in [Callers -> Nat]
    /\ due \in [Callers -> Nat]
    /\ calls \in Nat
    /\ log \in Seq(Nat)
    /\ prunedTo \in Nat
    /\ lapsed \in BOOLEAN

\* Lapse.  The two moments in which a context can end and leave the limiter
\* with less memory than it needs: between the check of ctx.Err() and the read
\* of the clock (reserve then prunes with a reading that lies past the deadline,
\* and commits nothing), and after the reserved moment has come but before the
\* sleeper has seen its timer (the slot is handed back although a later reading
\* may have pruned with it in place).
\*
\* Unless that has happened, Limit[w]+1 reservations in a row span at least
\* Per[w], for every window at once: however stale the clock readings are with
\* which concurrent calls reserve, and whichever reservations are handed back.
RespectsLimits ==
    ~lapsed =>
        \A w \in Windows : \A i \in 1..(Len(log) - Limit[w]) :
            log[i + Limit[w]] - log[i] >= Per[w]

\* Reservations are handed out in the order of their moments, the order on
\* which prune and earliest rely: the entries of a window never run backwards
\* and never pass last, also after a reservation in the middle is cancelled.
SortedTimes ==
    \A w \in Windows :
        /\ \A i \in 1..(Len(times[w]) - 1) : times[w][i] <= times[w][i + 1]
        /\ \A i \in DOMAIN times[w] : times[w][i] <= last

\* A call that is told to sleep sleeps no longer than it must: until the moment
\* the last Limit[w] of ALL reservations ever made and kept leave room in some
\* window (the windows themselves only remember part of them), or behind the
\* latest moment ever handed out.
NoNeedlessWait ==
    [][\A c \in Callers :
          pc[c] = "reserving" /\ pc'[c] = "sleeping" =>
              \/ at'[c] = last
              \/ \E w \in Windows :
                    /\ Len(log) >= Limit[w]
                    /\ at'[c] = log[Len(log) - Limit[w] + 1] + Per[w]]_vars

-----------------------------------------------------------------------------
(* The inductive invariant behind RespectsLimits. *)

\* A window remembers the newest part of log.
Forgotten(w) == Len(log) - Len(times[w])
RemembersNewest ==
    \A w \in Windows :
        /\ Len(times[w]) <= Len(log)
        /\ \A i \in DOMAIN times[w] : times[w][i] = log[Forgotten(w) + i]

\* What it has forgotten was a whole interval old for some clock reading.
ForgetsOnlyTheOld ==
    \A w \in Windows : \A i \in 1..Forgotten(w) : log[i] + Per[w] <= prunedTo

\* log is in the order of the moments, which last bounds.
SortedLog ==
    /\ \A i \in 1..(Len(log) - 1) : log[i] <= log[i + 1]
    /\ \A i \in DOMAIN log : log[i] <= last
    /\ \A c \in Callers : pc[c] = "sleeping" => at[c] <= last

\* Clock readings come from the past.
ReadingsOld ==
    /\ prunedTo <= clock
    /\ \A c \in Callers : now[c] <= clock

\* A prune that committed nothing does not let an older reading slip in before
\* it: the reason it was refused still holds the next reservation back.
HeldBack ==
    ~lapsed =>
        \/ prunedTo <= last
        \/ \E w \in Windows :
              /\ Len(times[w]) >= Limit[w]
              /\ prunedTo <= times[w][Len(times[w]) - Limit[w] + 1] + Per[w]

IInv ==
    /\ TypeOK
    /\ RemembersNewest
    /\ ForgetsOnlyTheOld
    /\ SortedLog
    /\ ReadingsOld
    /\ HeldBack
    /\ RespectsLimits
==============================================================================
