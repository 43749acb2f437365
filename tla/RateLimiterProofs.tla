-------------------------- MODULE RateLimiterProofs --------------------------
(***************************************************************************)
(* Proofs about internal/ratelimit for any set of callers, any number of    *)
(* windows and any limits.  First what the operators on one window return,  *)
(* then that the state is well typed, then that IInv is inductive.          *)
(***************************************************************************)
EXTENDS RateLimiter, TLAPS, SequenceTheorems, FiniteSetTheorems

-----------------------------------------------------------------------------
(* The operators on one window. *)

LEMMA UpTo ==
    ASSUME NEW n \in Nat
    PROVE  IsFiniteSet(1..n) /\ Cardinality(1..n) = n
<1>1. n \in Int /\ 1 \in Int
  OBVIOUS
<1> DEFINE S == 1..n
           k == IF 1 > n THEN 0 ELSE n - 1 + 1
<1>2. IsFiniteSet(S) /\ Cardinality(S) = k
  BY ONLY <1>1, FS_Interval
<1>3. k = n
  OBVIOUS
<1> HIDE DEF S, k
<1>4. IsFiniteSet(S) /\ Cardinality(S) = n
  BY <1>2, <1>3
<1> QED BY <1>4 DEF S

\* The loop of prune counts a prefix of the window whose entries are all old.
LEMMA ExpiredPrefix ==
    ASSUME NEW s \in Seq(Nat), NEW cutoff \in Int
    PROVE  /\ Expired(s, cutoff) \in 0..Len(s)
           /\ \A i \in 1..Expired(s, cutoff) : s[i] <= cutoff
<1> DEFINE Old == {i \in DOMAIN s : \A j \in 1..i : s[j] <= cutoff}
           e == Expired(s, cutoff)
<1>1. Len(s) \in Nat /\ DOMAIN s = 1..Len(s) /\ s \in [1..Len(s) -> Nat]
  BY LenProperties
<1>2. Old \subseteq 1..Len(s)
  BY <1>1
<1>3. IsFiniteSet(Old) /\ Cardinality(Old) \in Nat /\ Cardinality(Old) <= Len(s)
  <2>1. IsFiniteSet(1..Len(s)) /\ Cardinality(1..Len(s)) = Len(s)
    BY <1>1, UpTo
  <2> HIDE DEF Old
  <2>2. IsFiniteSet(Old) /\ Cardinality(Old) <= Len(s)
    <3>1. Old \in SUBSET (1..Len(s))
      BY <1>2
    <3>2. IsFiniteSet(Old) /\ Cardinality(Old) <= Cardinality(1..Len(s))
      BY <3>1, <2>1, FS_Subset
    <3> QED BY <3>2, <2>1
  <2> QED BY <2>2, FS_CardinalityType
<1>4. e = Cardinality(Old)
  BY DEF Expired
<1>5. ASSUME NEW i \in 1..e, ~(s[i] <= cutoff)
      PROVE  FALSE
  <2>1. Old \subseteq 1..(i - 1)
    <3> SUFFICES ASSUME NEW k \in Old, ~(k < i)
                 PROVE  FALSE
      <4>1. i \in Nat /\ \A k \in Old : k \in Nat \ {0}
        BY <1>1, <1>2, <1>3, <1>4
      <4> QED BY <4>1
    <3>1. i \in 1..k
      BY <1>1, <1>2, <1>3, <1>4
    <3> QED BY <3>1, <1>5
  <2> HIDE DEF Old
  <2>2. i \in 1..Cardinality(Old)
    BY <1>4
  <2>3. IsFiniteSet(1..(i - 1)) /\ Cardinality(1..(i - 1)) = i - 1
    <3>1. i - 1 \in Nat
      BY <2>2, <1>3
    <3> QED BY <3>1, UpTo
  <2>4. Cardinality(Old) <= i - 1
    <3>1. Old \in SUBSET (1..(i - 1))
      BY <2>1
    <3>2. Cardinality(Old) <= Cardinality(1..(i - 1))
      BY <3>1, <2>3, FS_Subset
    <3> QED BY <3>2, <2>3
  <2> QED BY <2>2, <2>4, <1>3
<1> HIDE DEF Old
<1> QED BY <1>3, <1>4, <1>5, <1>1

\* prune drops the first e entries of a window, each of them a whole interval
\* older than the clock reading it is given, and keeps the others.
LEMMA PruneFacts ==
    ASSUME TypeOK, NEW w \in Windows, NEW n \in Nat
    PROVE  \E e \in 0..Len(times[w]) :
              /\ Prune(w, n) \in Seq(Nat)
              /\ Len(Prune(w, n)) = Len(times[w]) - e
              /\ \A i \in 1..(Len(times[w]) - e) :
                    Prune(w, n)[i] = times[w][e + i]
              /\ \A i \in 1..e : times[w][i] + Per[w] <= n
<1> DEFINE s == times[w]
           e == Expired(s, n - Per[w])
<1>1. s \in Seq(Nat) /\ Per[w] \in Nat \ {0}
  BY PerAssumption DEF TypeOK
<1>2. Len(s) \in Nat /\ DOMAIN s = 1..Len(s) /\ s \in [1..Len(s) -> Nat]
  BY <1>1, LenProperties
<1>3. n - Per[w] \in Int
  BY <1>1
<1>4. /\ e \in 0..Len(s)
      /\ \A i \in 1..e : s[i] <= n - Per[w]
  BY <1>1, <1>3, ExpiredPrefix
<1> HIDE DEF e
<1>5. Prune(w, n) = SubSeq(s, e + 1, Len(s))
  BY DEF Prune, e
<1>6. \A i \in (e + 1)..Len(s) : s[i] \in Nat
  BY <1>2, <1>4
<1>7. /\ Prune(w, n) \in Seq(Nat)
      /\ Len(Prune(w, n)) = IF e + 1 <= Len(s) THEN Len(s) - (e + 1) + 1 ELSE 0
      /\ \A i \in 1..(Len(s) - (e + 1) + 1) : Prune(w, n)[i] = s[(e + 1) + i - 1]
  <2>1. e + 1 \in Int /\ Len(s) \in Int
    BY <1>2, <1>4
  <2> HIDE DEF s
  <2> QED BY <1>5, <1>6, <2>1, SubSeqProperties
<1>8. Len(Prune(w, n)) = Len(s) - e
  BY <1>7, <1>2, <1>4
<1>9. \A i \in 1..(Len(s) - e) : Prune(w, n)[i] = s[e + i]
  <2> SUFFICES ASSUME NEW i \in 1..(Len(s) - e)
               PROVE  Prune(w, n)[i] = s[e + i]
    OBVIOUS
  <2>1. i \in 1..(Len(s) - (e + 1) + 1) /\ (e + 1) + i - 1 = e + i
    BY <1>2, <1>4
  <2> QED BY <2>1, <1>7
<1>10. \A i \in 1..e : s[i] + Per[w] <= n
  BY SMTT(30), <1>1, <1>2, <1>4
<1> QED BY <1>4, <1>7, <1>8, <1>9, <1>10

\* earliest is never before the clock reading, and when it is after it the
\* window is full and its Limit-th newest entry is what holds the call back.
LEMMA EarliestFacts ==
    ASSUME NEW w \in Windows, NEW s \in Seq(Nat), NEW n \in Nat
    PROVE  /\ Earliest(w, s, n) \in Nat
           /\ n <= Earliest(w, s, n)
           /\ Len(s) >= Limit[w] =>
                 /\ s[Len(s) - Limit[w] + 1] \in Nat
                 /\ s[Len(s) - Limit[w] + 1] + Per[w] <= Earliest(w, s, n)
           /\ n < Earliest(w, s, n) =>
                 /\ Len(s) >= Limit[w]
                 /\ Earliest(w, s, n) = s[Len(s) - Limit[w] + 1] + Per[w]
<1>1. Limit[w] \in Nat \ {0} /\ Per[w] \in Nat \ {0}
  BY LimitAssumption, PerAssumption
<1>2. Len(s) \in Nat /\ s \in [1..Len(s) -> Nat]
  BY LenProperties
<1>3. CASE Len(s) < Limit[w]
  BY <1>1, <1>2, <1>3 DEF Earliest
<1>4. CASE Len(s) >= Limit[w]
  <2>1. Len(s) - Limit[w] + 1 \in 1..Len(s)
    BY <1>1, <1>2, <1>4
  <2>2. s[Len(s) - Limit[w] + 1] \in Nat
    BY <2>1, <1>2
  <2> DEFINE slot == s[Len(s) - Limit[w] + 1] + Per[w]
  <2>3. slot \in Nat
    BY SMTT(30), <1>1, <2>2
  <2>4. Earliest(w, s, n) = IF slot < n THEN n ELSE slot
    BY <1>1, <1>2, <1>4 DEF Earliest
  <2> HIDE DEF slot
  <2>5. /\ Earliest(w, s, n) \in Nat
        /\ n <= Earliest(w, s, n)
        /\ slot <= Earliest(w, s, n)
        /\ n < Earliest(w, s, n) => Earliest(w, s, n) = slot
    BY <2>3, <2>4
  <2> QED BY <1>4, <2>2, <2>5 DEF slot
<1> QED BY <1>1, <1>2, <1>3, <1>4

\* rollback removes the newest entry or nothing.
LEMMA TakeBackFacts ==
    ASSUME NEW s \in Seq(Nat), NEW m \in Nat
    PROVE  /\ TakeBack(s, m) \in Seq(Nat)
           /\ Len(TakeBack(s, m)) =
                 IF Len(s) > 0 /\ s[Len(s)] = m THEN Len(s) - 1 ELSE Len(s)
           /\ \A i \in 1..Len(TakeBack(s, m)) : TakeBack(s, m)[i] = s[i]
<1>1. Len(s) \in Nat /\ s \in [1..Len(s) -> Nat]
  BY LenProperties
<1>2. CASE Len(s) > 0 /\ s[Len(s)] = m
  <2>1. TakeBack(s, m) = SubSeq(s, 1, Len(s) - 1)
    BY <1>2 DEF TakeBack
  <2>2. 1 \in Int /\ Len(s) - 1 \in Int /\ \A i \in 1..(Len(s) - 1) : s[i] \in Nat
    BY <1>1
  <2>3. /\ SubSeq(s, 1, Len(s) - 1) \in Seq(Nat)
        /\ Len(SubSeq(s, 1, Len(s) - 1)) =
              IF 1 <= Len(s) - 1 THEN Len(s) - 1 - 1 + 1 ELSE 0
        /\ \A i \in 1..(Len(s) - 1 - 1 + 1) : SubSeq(s, 1, Len(s) - 1)[i] = s[1 + i - 1]
    BY <2>2, SubSeqProperties
  <2>4. Len(TakeBack(s, m)) = Len(s) - 1
    BY <2>1, <2>3, <1>1, <1>2
  <2>5. \A i \in 1..(Len(s) - 1) : TakeBack(s, m)[i] = s[i]
    <3> SUFFICES ASSUME NEW i \in 1..(Len(s) - 1)
                 PROVE  TakeBack(s, m)[i] = s[i]
      OBVIOUS
    <3>1. i \in 1..(Len(s) - 1 - 1 + 1) /\ 1 + i - 1 = i
      BY <1>1
    <3> QED BY <3>1, <2>1, <2>3
  <2> QED BY <1>2, <2>1, <2>3, <2>4, <2>5
<1>3. CASE ~(Len(s) > 0 /\ s[Len(s)] = m)
  BY <1>3 DEF TakeBack
<1> QED BY <1>2, <1>3

\* The same of the history log.
LEMMA HandBackFacts ==
    ASSUME TypeOK, NEW m \in Nat
    PROVE  HandBack(m) = TakeBack(log, m)
<1>1. log \in Seq(Nat) /\ Len(log) \in Nat
  BY LenProperties DEF TypeOK
<1>2. log # <<>> <=> Len(log) > 0
  BY <1>1, EmptySeq
<1> QED BY <1>2 DEF HandBack, TakeBack

\* The moment reserve settles on: not before the reading of the clock, not
\* before last, not before any window allows, and equal to one of those.
LEMMA MomentFacts ==
    ASSUME TypeOK, NEW n \in Nat, NEW m, Moment(m, n)
    PROVE  /\ m \in Nat
           /\ n <= m
           /\ last <= m
           /\ \A w \in Windows : Earliest(w, Prune(w, n), n) <= m
           /\ \/ m = n
              \/ m = last
              \/ \E w \in Windows : m = Earliest(w, Prune(w, n), n)
<1>1. \A w \in Windows : Prune(w, n) \in Seq(Nat)
  BY PruneFacts
<1>2. \A w \in Windows : Earliest(w, Prune(w, n), n) \in Nat
  BY <1>1, EarliestFacts
<1>3. last \in Nat
  BY DEF TypeOK
<1> QED BY <1>2, <1>3 DEF Moment, Bounds

-----------------------------------------------------------------------------
(* Type correctness. *)

LEMMA InitTyped == Init => TypeOK
<1> SUFFICES ASSUME Init PROVE TypeOK
  OBVIOUS
<1>1. <<>> \in Seq(Nat)
  BY EmptySeq
<1> QED BY <1>1 DEF Init, TypeOK

LEMMA StepTyped == TypeOK /\ [Next]_vars => TypeOK'
<1> SUFFICES ASSUME TypeOK, [Next]_vars
             PROVE  TypeOK'
  OBVIOUS
<1> USE DEF TypeOK
<1>1. ASSUME NEW n \in Nat, NEW w \in Windows
      PROVE  Prune(w, n) \in Seq(Nat)
  BY PruneFacts
<1>2. ASSUME NEW c \in Callers, NEW m, Commit(c, m)
      PROVE  /\ m \in Nat
             /\ times' \in [Windows -> Seq(Nat)]
             /\ last' \in Nat
             /\ log' \in Seq(Nat)
             /\ prunedTo' \in Nat
             /\ UNCHANGED <<clock, calls, lapsed>>
  <2>1. now[c] \in Nat
    OBVIOUS
  <2>2. m \in Nat
    BY <1>2, <2>1, MomentFacts DEF Commit
  <2>3. \A w \in Windows : Append(Prune(w, now[c]), m) \in Seq(Nat)
    BY <1>1, <2>1, <2>2
  <2> QED BY <1>2, <2>1, <2>2, <2>3 DEF Commit, Latest
<1>3. ASSUME NEW c \in Callers, Return(c)
      PROVE  /\ pc' \in [Callers -> {"idle", "entered", "reserving", "sleeping"}]
             /\ now' \in [Callers -> Nat]
             /\ deadline' \in [Callers -> Nat \cup {NoDeadline}]
             /\ at' \in [Callers -> Nat]
             /\ due' \in [Callers -> Nat]
  BY <1>3 DEF Return
<1>4. CASE UNCHANGED vars
  BY <1>4 DEF vars, limiterVars, callVars, history
<1>5. CASE Tick
  BY <1>5 DEF Tick, limiterVars, callVars, history
<1>6. ASSUME NEW c \in Callers, Step(c)
      PROVE  TypeOK'
  <2>1. CASE Enter(c)
    <3>1. \A b \in Budgets : clock + b \in Nat
      BY DeadlineAssumption
    <3>2. deadline' \in [Callers -> Nat \cup {NoDeadline}]
      BY <2>1, <3>1 DEF Enter
    <3> QED BY <2>1, <3>2 DEF Enter, limiterVars, history
  <2>2. CASE ReadClock(c)
    BY <2>2 DEF ReadClock, limiterVars, history
  <2>3. CASE Grant(c)
    BY <2>3, <1>2, <1>3 DEF Grant
  <2>4. CASE Sleep(c)
    <3>1. PICK m \in Bounds(now[c]) :
             /\ m > now[c]
             /\ Commit(c, m)
             /\ at' = [at EXCEPT ![c] = m]
             /\ due' = [due EXCEPT ![c] = clock + (m - now[c])]
      BY <2>4 DEF Sleep
    <3>2. m \in Nat /\ clock + (m - now[c]) \in Nat
      BY <3>1, <1>2
    <3>3. at' \in [Callers -> Nat] /\ due' \in [Callers -> Nat]
      BY <3>1, <3>2
    <3> QED BY <2>4, <3>1, <3>3, <1>2 DEF Sleep
  <2>5. CASE Refuse(c)
    <3>1. times' \in [Windows -> Seq(Nat)]
      BY <2>5, <1>1 DEF Refuse, PruneAll
    <3>2. prunedTo' \in Nat /\ lapsed' \in BOOLEAN
      BY <2>5 DEF Refuse, Latest, TooLate
    <3> QED BY <2>5, <3>1, <3>2, <1>3 DEF Refuse
  <2>6. CASE Wake(c)
    BY <2>6, <1>3 DEF Wake, limiterVars, history
  <2>7. CASE Cancel(c)
    <3>1. at[c] \in Nat
      OBVIOUS
    <3>2. times' \in [Windows -> Seq(Nat)]
      BY <2>7, <3>1, TakeBackFacts DEF Cancel
    <3>3. log' \in Seq(Nat)
      BY <2>7, <3>1, TakeBackFacts, HandBackFacts DEF Cancel
    <3>4. lapsed' \in BOOLEAN
      BY <2>7 DEF Cancel
    <3> QED BY <2>7, <3>2, <3>3, <3>4, <1>3 DEF Cancel
  <2> QED BY <1>6, <2>1, <2>2, <2>3, <2>4, <2>5, <2>6, <2>7 DEF Step
<1> QED BY <1>4, <1>5, <1>6 DEF Next

\* The limiter's state and the locals of the calls keep their types.
THEOREM TypeCorrect == Spec => []TypeOK
  BY InitTyped, StepTyped, PTL DEF Spec

-----------------------------------------------------------------------------
(* The windows as views of log. *)

\* A pruned window still holds the newest part of log; what it has dropped is
\* old, and what this prune dropped is old for the reading n.
LEMMA PrunedView ==
    ASSUME TypeOK, RemembersNewest, ForgetsOnlyTheOld,
           NEW w \in Windows, NEW n \in Nat, NEW P, P = Prune(w, n)
    PROVE  /\ P \in Seq(Nat)
           /\ Len(P) \in Nat
           /\ Len(P) <= Len(times[w])
           /\ Len(P) <= Len(log)
           /\ \A i \in 1..Len(P) : P[i] = log[Len(log) - Len(P) + i]
           /\ \A i \in 1..(Len(log) - Len(P)) :
                 log[i] + Per[w] <= Latest(prunedTo, n)
           /\ \A i \in (Forgotten(w) + 1)..(Len(log) - Len(P)) :
                 log[i] + Per[w] <= n
<1>1. PICK e \in 0..Len(times[w]) :
         /\ P \in Seq(Nat)
         /\ Len(P) = Len(times[w]) - e
         /\ \A i \in 1..(Len(times[w]) - e) : P[i] = times[w][e + i]
         /\ \A i \in 1..e : times[w][i] + Per[w] <= n
  BY PruneFacts
<1>2. /\ times[w] \in Seq(Nat) /\ log \in Seq(Nat)
      /\ Len(times[w]) \in Nat /\ Len(log) \in Nat
      /\ DOMAIN times[w] = 1..Len(times[w])
      /\ log \in [1..Len(log) -> Nat]
      /\ Per[w] \in Nat /\ prunedTo \in Nat
  BY PerAssumption, LenProperties DEF TypeOK
<1>3. /\ Len(times[w]) <= Len(log)
      /\ \A i \in 1..Len(times[w]) : times[w][i] = log[Forgotten(w) + i]
  BY <1>2 DEF RemembersNewest
<1>4. Forgotten(w) = Len(log) - Len(times[w]) /\ Forgotten(w) \in Nat
  BY <1>2, <1>3 DEF Forgotten
<1>5. \A i \in 1..Len(P) : P[i] = log[Len(log) - Len(P) + i]
  <2> SUFFICES ASSUME NEW i \in 1..Len(P)
               PROVE  P[i] = log[Len(log) - Len(P) + i]
    OBVIOUS
  <2>1. P[i] = times[w][e + i] /\ e + i \in 1..Len(times[w])
    BY <1>1, <1>2
  <2>2. Forgotten(w) + (e + i) = Len(log) - Len(P) + i
    BY <1>1, <1>2, <1>4
  <2> QED BY <2>1, <2>2, <1>3
<1>6. \A i \in (Forgotten(w) + 1)..(Len(log) - Len(P)) : log[i] + Per[w] <= n
  <2> SUFFICES ASSUME NEW i \in (Forgotten(w) + 1)..(Len(log) - Len(P))
               PROVE  log[i] + Per[w] <= n
    OBVIOUS
  <2> DEFINE lt == Len(times[w])
             lp == Len(P)
             ll == Len(log)
             f == Forgotten(w)
             k == i - f
  <2>0. /\ lt \in Nat /\ ll \in Nat /\ lp = lt - e /\ e \in 0..lt
        /\ f = ll - lt /\ f \in Nat /\ i \in (f + 1)..(ll - lp)
    BY <1>1, <1>2, <1>4
  <2>1. k \in 1..e /\ k \in 1..lt /\ f + k = i
    <3> HIDE DEF lt, lp, ll, f
    <3> QED BY <2>0
  <2> HIDE DEF k
  <2>2. times[w][k] + Per[w] <= n /\ times[w][k] = log[i]
    BY <2>1, <1>1, <1>3
  <2> QED BY <2>2
<1>7. \A i \in 1..(Len(log) - Len(P)) : log[i] + Per[w] <= Latest(prunedTo, n)
  <2> SUFFICES ASSUME NEW i \in 1..(Len(log) - Len(P))
               PROVE  log[i] + Per[w] <= Latest(prunedTo, n)
    OBVIOUS
  <2>1. prunedTo <= Latest(prunedTo, n) /\ n <= Latest(prunedTo, n)
        /\ Latest(prunedTo, n) \in Nat
    BY <1>2 DEF Latest
  <2>2. i \in 1..Len(log) /\ log[i] \in Nat
    BY <1>1, <1>2
  <2>3. CASE i <= Forgotten(w)
    <3>1. log[i] + Per[w] <= prunedTo
      BY <2>3, <1>4 DEF ForgetsOnlyTheOld
    <3> QED BY SMTT(30), <3>1, <2>1, <2>2, <1>2
  <2>4. CASE i > Forgotten(w)
    <3>1. log[i] + Per[w] <= n
      BY <2>4, <1>4, <1>6
    <3> QED BY SMTT(30), <3>1, <2>1, <2>2, <1>2
  <2> QED BY <2>3, <2>4, <1>4
<1>8. P \in Seq(Nat) /\ Len(P) \in Nat /\ Len(P) <= Len(times[w]) /\ Len(P) <= Len(log)
  BY <1>1, <1>2, <1>3
<1> QED BY <1>5, <1>6, <1>7, <1>8

\* The entry that keeps a full window closed at n is not dropped by a prune
\* with the reading n.
LEMMA ClosingEntrySurvives ==
    ASSUME TypeOK, RemembersNewest, ForgetsOnlyTheOld,
           NEW w \in Windows, NEW n \in Nat, NEW P, P = Prune(w, n),
           Len(times[w]) >= Limit[w],
           n < times[w][Len(times[w]) - Limit[w] + 1] + Per[w]
    PROVE  /\ Len(P) >= Limit[w]
           /\ P[Len(P) - Limit[w] + 1] = times[w][Len(times[w]) - Limit[w] + 1]
<1> DEFINE j == Len(log) - Limit[w] + 1
<1>1. /\ Len(times[w]) \in Nat /\ Len(log) \in Nat /\ Limit[w] \in Nat \ {0}
      /\ DOMAIN times[w] = 1..Len(times[w])
      /\ log \in [1..Len(log) -> Nat] /\ Per[w] \in Nat
  BY LimitAssumption, PerAssumption, LenProperties DEF TypeOK
<1>2. /\ Len(times[w]) <= Len(log)
      /\ Forgotten(w) = Len(log) - Len(times[w])
      /\ Forgotten(w) \in Nat
  BY <1>1 DEF RemembersNewest, Forgotten
<1>3. /\ Len(P) \in Nat
      /\ Len(P) <= Len(times[w])
      /\ \A i \in 1..Len(P) : P[i] = log[Len(log) - Len(P) + i]
      /\ \A i \in (Forgotten(w) + 1)..(Len(log) - Len(P)) : log[i] + Per[w] <= n
  BY ZenonT(60), PrunedView
<1>4. times[w][Len(times[w]) - Limit[w] + 1] = log[j]
  <2>1. Len(times[w]) - Limit[w] + 1 \in DOMAIN times[w]
    BY <1>1
  <2>2. Forgotten(w) + (Len(times[w]) - Limit[w] + 1) = j
    BY <1>1, <1>2
  <2> QED BY <2>1, <2>2 DEF RemembersNewest
<1>5. j \in (Forgotten(w) + 1)..Len(log) /\ j \in 1..Len(log)
  <2>1. Limit[w] <= Len(times[w])
    BY <1>1
  <2> DEFINE lt == Len(times[w])
             ll == Len(log)
             f == Forgotten(w)
             l == Limit[w]
  <2>2. /\ lt \in Nat /\ ll \in Nat /\ l \in Nat \ {0} /\ l <= lt
        /\ f = ll - lt /\ f \in Nat /\ j = ll - l + 1
    BY <2>1, <1>1, <1>2
  <2> HIDE DEF lt, ll, f, l, j
  <2>3. j \in (f + 1)..ll /\ j \in 1..ll
    BY <2>2
  <2> QED BY <2>3 DEF f, ll
<1>6. ~(j <= Len(log) - Len(P))
  <2> SUFFICES ASSUME j <= Len(log) - Len(P) PROVE FALSE
    OBVIOUS
  <2>1. j \in (Forgotten(w) + 1)..(Len(log) - Len(P))
    <3> HIDE DEF j
    <3> QED BY <1>1, <1>2, <1>3, <1>5
  <2> HIDE DEF j
  <2>2. log[j] + Per[w] <= n /\ log[j] \in Nat
    BY <2>1, <1>3, <1>1, <1>5
  <2>3. n < log[j] + Per[w]
    BY <1>4
  <2> QED BY <2>2, <2>3, <1>1
<1>7. Len(P) >= Limit[w]
  BY <1>6, <1>1, <1>3
<1>8. P[Len(P) - Limit[w] + 1] = log[j]
  <2>1. Len(P) - Limit[w] + 1 \in 1..Len(P)
    BY SMTT(30), <1>7, <1>1, <1>3
  <2>2. Len(log) - Len(P) + (Len(P) - Limit[w] + 1) = j
    BY <1>1, <1>3
  <2> QED BY <2>1, <2>2, <1>3
<1> QED BY <1>4, <1>7, <1>8

\* Unless a context has lapsed, a reservation is never placed before a reading
\* with which some window has already been pruned.
LEMMA NothingForgottenTooEarly ==
    ASSUME IInv, ~lapsed, NEW n \in Nat, NEW m, Moment(m, n)
    PROVE  Latest(prunedTo, n) <= m
<1>1. TypeOK /\ RemembersNewest /\ ForgetsOnlyTheOld /\ HeldBack
  BY DEF IInv
<1>2. /\ m \in Nat /\ n <= m /\ last <= m
      /\ \A w \in Windows : Earliest(w, Prune(w, n), n) <= m
  BY <1>1, MomentFacts
<1>3. last \in Nat /\ prunedTo \in Nat
  BY <1>1 DEF TypeOK
<1>4. CASE prunedTo <= last
  BY <1>2, <1>3, <1>4 DEF Latest
<1>5. ASSUME NEW w \in Windows,
             Len(times[w]) >= Limit[w],
             prunedTo <= times[w][Len(times[w]) - Limit[w] + 1] + Per[w]
      PROVE  prunedTo <= m
  <2> DEFINE x == times[w][Len(times[w]) - Limit[w] + 1]
             P == Prune(w, n)
  <2>1. CASE x + Per[w] <= n
    <3>1. x \in Nat /\ Per[w] \in Nat
      <4>1. Len(times[w]) \in Nat /\ times[w] \in [1..Len(times[w]) -> Nat]
            /\ Limit[w] \in Nat \ {0} /\ Per[w] \in Nat
        BY <1>1, LimitAssumption, PerAssumption, LenProperties DEF TypeOK
      <4> QED BY SMTT(30), <4>1, <1>5
    <3> HIDE DEF x
    <3> QED BY <3>1, <2>1, <1>2, <1>3, <1>5 DEF x
  <2>2. CASE n < x + Per[w]
    <3>1. Len(P) >= Limit[w] /\ P[Len(P) - Limit[w] + 1] = x
      BY <1>1, <1>5, <2>2, ClosingEntrySurvives
    <3>2. P \in Seq(Nat)
      BY <1>1, PrunedView
    <3>3. Earliest(w, P, n) \in Nat /\ x \in Nat /\ x + Per[w] <= Earliest(w, P, n)
      <4> HIDE DEF P, x
      <4> QED BY <3>1, <3>2, EarliestFacts
    <3>4. Earliest(w, P, n) <= m /\ Per[w] \in Nat
      BY <1>2, PerAssumption
    <3> HIDE DEF P, x
    <3>5. prunedTo <= x + Per[w]
      BY <1>5 DEF x
    <3> QED BY <3>3, <3>4, <3>5, <1>2, <1>3
  <2>3. x \in Nat /\ Per[w] \in Nat
    <3>1. Len(times[w]) \in Nat /\ times[w] \in [1..Len(times[w]) -> Nat]
          /\ Limit[w] \in Nat \ {0} /\ Per[w] \in Nat
      BY <1>1, LimitAssumption, PerAssumption, LenProperties DEF TypeOK
    <3> QED BY SMTT(30), <3>1, <1>5
  <2> HIDE DEF x
  <2> QED BY <2>1, <2>2, <2>3
<1>6. prunedTo <= m
  BY <1>1, <1>2, <1>3, <1>4, <1>5 DEF HeldBack
<1> QED BY <1>2, <1>6 DEF Latest

-----------------------------------------------------------------------------
(* The actions that change the limiter keep IInv. *)

\* What a committed reservation does to the windows, to log and to last.
LEMMA CommitKeeps ==
    ASSUME IInv, TypeOK', NEW c \in Callers, NEW m, Commit(c, m)
    PROVE  /\ RemembersNewest' /\ ForgetsOnlyTheOld' /\ HeldBack'
           /\ RespectsLimits' /\ prunedTo' <= clock'
           /\ \A i \in 1..(Len(log') - 1) : log'[i] <= log'[i + 1]
           /\ \A i \in DOMAIN log' : log'[i] <= last'
           /\ last <= last' /\ last' = m /\ m \in Nat /\ last \in Nat
<1> DEFINE n == now[c]
           ll == Len(log)
           P(w) == Prune(w, n)
<1>1. TypeOK /\ RemembersNewest /\ ForgetsOnlyTheOld /\ SortedLog
      /\ ReadingsOld /\ RespectsLimits
  BY DEF IInv
<1>2. n \in Nat /\ n <= clock /\ prunedTo \in Nat /\ prunedTo <= clock
      /\ last \in Nat /\ clock \in Nat
  BY <1>1 DEF TypeOK, ReadingsOld
<1>3. /\ Moment(m, n)
      /\ times' = [w \in Windows |-> Append(P(w), m)]
      /\ last' = m
      /\ log' = Append(log, m)
      /\ prunedTo' = Latest(prunedTo, n)
      /\ clock' = clock
      /\ lapsed' = lapsed
  BY DEF Commit
<1>4. /\ m \in Nat /\ n <= m /\ last <= m
      /\ \A w \in Windows : Earliest(w, P(w), n) <= m
  BY <1>1, <1>2, <1>3, MomentFacts
<1>5. /\ ll \in Nat /\ log \in Seq(Nat) /\ log \in [1..ll -> Nat]
      /\ DOMAIN log = 1..ll
  BY <1>1, LenProperties DEF TypeOK
<1>6. /\ Len(log') = ll + 1
      /\ DOMAIN log' = 1..(ll + 1)
      /\ \A i \in 1..ll : log'[i] = log[i]
      /\ log'[ll + 1] = m
  BY <1>3, <1>4, <1>5
<1>7. ASSUME NEW w \in Windows
      PROVE  /\ P(w) \in Seq(Nat)
             /\ Len(P(w)) \in Nat
             /\ Len(P(w)) <= ll
             /\ \A i \in 1..Len(P(w)) : P(w)[i] = log[ll - Len(P(w)) + i]
             /\ \A i \in 1..(ll - Len(P(w))) : log[i] + Per[w] <= prunedTo'
  <2>1. /\ P(w) \in Seq(Nat)
        /\ Len(P(w)) \in Nat
        /\ Len(P(w)) <= Len(log)
        /\ \A i \in 1..Len(P(w)) : P(w)[i] = log[Len(log) - Len(P(w)) + i]
        /\ \A i \in 1..(Len(log) - Len(P(w))) :
              log[i] + Per[w] <= Latest(prunedTo, n)
    <3> HIDE DEF n
    <3> QED BY <1>1, <1>2, PrunedView
  <2>2. prunedTo' = Latest(prunedTo, n)
    BY <1>3
  <2> QED BY <2>1, <2>2
<1>8. ASSUME NEW w \in Windows
      PROVE  /\ times'[w] = Append(P(w), m)
             /\ Len(times'[w]) = Len(P(w)) + 1
             /\ DOMAIN times'[w] = 1..(Len(P(w)) + 1)
             /\ \A i \in 1..Len(P(w)) : times'[w][i] = P(w)[i]
             /\ times'[w][Len(P(w)) + 1] = m
             /\ Forgotten(w)' = ll - Len(P(w))
  <2>1. times'[w] = Append(P(w), m)
    BY <1>3
  <2> HIDE DEF P
  <2>2. P(w) \in Seq(Nat) /\ Len(P(w)) \in Nat
    BY <1>7
  <2>3. /\ Len(times'[w]) = Len(P(w)) + 1
        /\ DOMAIN times'[w] = 1..(Len(P(w)) + 1)
        /\ \A i \in 1..Len(P(w)) : times'[w][i] = P(w)[i]
        /\ times'[w][Len(P(w)) + 1] = m
    BY <2>1, <2>2, <1>4
  <2>4. Forgotten(w)' = ll - Len(P(w))
    BY <2>2, <2>3, <1>5, <1>6 DEF Forgotten
  <2> QED BY <2>1, <2>3, <2>4
<1> HIDE DEF P, ll, n
<1>9. RemembersNewest'
  <2> SUFFICES ASSUME NEW w \in Windows
               PROVE  /\ Len(times'[w]) <= Len(log')
                      /\ \A i \in DOMAIN times'[w] :
                            times'[w][i] = log'[Forgotten(w)' + i]
    BY DEF RemembersNewest
  <2> DEFINE lp == Len(P(w))
  <2>1. lp \in Nat /\ lp <= ll /\ Len(times'[w]) = lp + 1 /\ Forgotten(w)' = ll - lp
        /\ DOMAIN times'[w] = 1..(lp + 1)
    BY <1>7, <1>8
  <2>2. \A i \in 1..lp : times'[w][i] = log[ll - lp + i]
    BY <1>7, <1>8
  <2>3. times'[w][lp + 1] = m
    BY <1>8
  <2> HIDE DEF lp
  <2>4. Len(times'[w]) <= Len(log')
    BY <2>1, <1>5, <1>6
  <2>5. ASSUME NEW i \in 1..(lp + 1)
        PROVE  times'[w][i] = log'[ll - lp + i]
    <3>1. CASE i = lp + 1
      <4>1. ll - lp + i = ll + 1
        BY <3>1, <2>1, <1>5
      <4> QED BY <4>1, <3>1, <2>3, <1>6
    <3>2. CASE i # lp + 1
      <4>1. i \in 1..lp /\ ll - lp + i \in 1..ll
        BY <3>2, <2>1, <1>5
      <4> QED BY <4>1, <2>2, <1>6
    <3> QED BY <3>1, <3>2
  <2> QED BY <2>1, <2>4, <2>5
<1>10. ForgetsOnlyTheOld'
  <2> SUFFICES ASSUME NEW w \in Windows, NEW i \in 1..Forgotten(w)'
               PROVE  log'[i] + Per[w] <= prunedTo'
    BY DEF ForgetsOnlyTheOld
  <2>1. i \in 1..(ll - Len(P(w))) /\ i \in 1..ll
    BY <1>5, <1>7, <1>8
  <2> QED BY <2>1, <1>6, <1>7
<1>11. prunedTo' <= clock' /\ prunedTo' \in Nat /\ Latest(prunedTo, n) = prunedTo'
  BY <1>2, <1>3 DEF Latest
<1>12. ~lapsed => prunedTo' <= m
  BY <1>1, <1>2, <1>3, NothingForgottenTooEarly
<1>13. HeldBack'
  BY <1>3, <1>12 DEF HeldBack
<1>14. RespectsLimits'
  <2> SUFFICES ASSUME ~lapsed, NEW w \in Windows,
                      NEW i \in 1..(Len(log') - Limit[w])
               PROVE  log'[i + Limit[w]] - log'[i] >= Per[w]
    BY <1>3 DEF RespectsLimits
  <2> DEFINE l == Limit[w]
  <2>1. l \in Nat \ {0} /\ Per[w] \in Nat
    BY LimitAssumption, PerAssumption
  <2>2. i \in 1..ll /\ log[i] \in Nat /\ log'[i] = log[i] /\ i + l \in 1..(ll + 1)
    BY <2>1, <1>5, <1>6
  <2>3. CASE i + l <= ll
    <3>1. i \in 1..(ll - l) /\ i + l \in 1..ll
      BY SMTT(30), <2>1, <2>2, <2>3, <1>5
    <3>2. log[i + l] - log[i] >= Per[w]
      BY <3>1, <1>1 DEF RespectsLimits, ll
    <3> QED BY <3>1, <3>2, <2>2, <1>6
  <2>4. CASE i + l = ll + 1
    <3> DEFINE p == P(w)
               lp == Len(P(w))
    <3>0. log'[i + l] = m
      BY <2>4, <1>6
    <3>1. lp \in Nat /\ lp <= ll /\ p \in Seq(Nat)
      BY <1>7
    <3>2. CASE lp >= l
      <4>1. /\ p[lp - l + 1] \in Nat
            /\ p[lp - l + 1] + Per[w] <= Earliest(w, p, n)
            /\ Earliest(w, p, n) \in Nat
        BY <3>1, <3>2, <1>2, EarliestFacts
      <4>2. lp - l + 1 \in 1..lp /\ ll - lp + (lp - l + 1) = i
        <5> HIDE DEF lp, l
        <5> QED BY <3>1, <3>2, <2>1, <2>2, <2>4, <1>5
      <4>3. p[lp - l + 1] = log[i]
        BY <4>2, <1>7
      <4>4. Earliest(w, p, n) <= m
        BY <1>4
      <4>5. log[i] + Per[w] <= m
        <5> HIDE DEF p, lp, l
        <5> QED BY <4>1, <4>3, <4>4, <2>1, <1>4
      <4> QED BY <4>5, <3>0, <2>1, <2>2, <1>4
    <3>3. CASE lp < l
      <4>1. i \in 1..(ll - lp)
        <5> HIDE DEF lp, l
        <5> QED BY <3>1, <3>3, <2>1, <2>2, <2>4, <1>5
      <4>2. log[i] + Per[w] <= prunedTo' /\ prunedTo' <= m
        BY <4>1, <1>7, <1>12
      <4> QED BY <4>2, <3>0, <2>1, <2>2, <1>4, <1>11
    <3> HIDE DEF lp, l
    <3> QED BY <3>1, <3>2, <3>3, <2>1
  <2> HIDE DEF l
  <2> QED BY <2>1, <2>2, <2>3, <2>4, <1>5
<1>15. \A i \in 1..(Len(log') - 1) : log'[i] <= log'[i + 1]
  <2> SUFFICES ASSUME NEW i \in 1..ll
               PROVE  log'[i] <= log'[i + 1]
    BY <1>5, <1>6
  <2>1. log[i] \in Nat /\ log[i] <= last /\ log'[i] = log[i]
    BY <1>1, <1>5, <1>6 DEF SortedLog
  <2>2. CASE i = ll
    BY <2>1, <2>2, <1>2, <1>4, <1>6
  <2>3. CASE i # ll
    <3>1. i \in 1..(ll - 1) /\ i + 1 \in 1..ll
      BY <2>3, <1>5
    <3> QED BY <3>1, <2>1, <1>1, <1>6 DEF SortedLog, ll
  <2> QED BY <2>2, <2>3
<1>16. \A i \in DOMAIN log' : log'[i] <= last'
  <2> SUFFICES ASSUME NEW i \in 1..(ll + 1)
               PROVE  log'[i] <= m
    BY <1>3, <1>6
  <2>1. CASE i = ll + 1
    BY <2>1, <1>4, <1>6
  <2>2. CASE i # ll + 1
    <3>1. i \in 1..ll
      BY <2>2, <1>5
    <3>2. log[i] \in Nat /\ log[i] <= last /\ log'[i] = log[i]
      BY <3>1, <1>1, <1>5, <1>6 DEF SortedLog
    <3> QED BY <3>2, <1>2, <1>4
  <2> QED BY <2>1, <2>2
<1> QED BY <1>2, <1>3, <1>4, <1>9, <1>10, <1>11, <1>13, <1>14, <1>15, <1>16

\* A refused call has pruned every window but reserved nothing.
LEMMA RefuseKeeps ==
    ASSUME IInv, TypeOK', NEW c \in Callers, Refuse(c)
    PROVE  RemembersNewest' /\ ForgetsOnlyTheOld' /\ HeldBack' /\ RespectsLimits'
           /\ prunedTo' <= clock'
<1> DEFINE n == now[c]
           ll == Len(log)
           P(w) == Prune(w, n)
<1>1. TypeOK /\ RemembersNewest /\ ForgetsOnlyTheOld /\ ReadingsOld
      /\ RespectsLimits /\ HeldBack
  BY DEF IInv
<1>2. n \in Nat /\ n <= clock /\ prunedTo \in Nat /\ prunedTo <= clock
      /\ last \in Nat /\ clock \in Nat
  BY <1>1 DEF TypeOK, ReadingsOld
<1>3. /\ times' = [w \in Windows |-> P(w)]
      /\ prunedTo' = Latest(prunedTo, n)
      /\ lapsed' = (lapsed \/ TooLate(c, n))
      /\ clock' = clock /\ last' = last /\ log' = log
  BY DEF Refuse, PruneAll
<1>4. ll \in Nat
  BY <1>1, LenProperties DEF TypeOK
<1>5. ASSUME NEW w \in Windows
      PROVE  /\ times'[w] = P(w)
             /\ P(w) \in Seq(Nat)
             /\ Len(P(w)) \in Nat
             /\ Len(P(w)) <= ll
             /\ DOMAIN P(w) = 1..Len(P(w))
             /\ \A i \in 1..Len(P(w)) : P(w)[i] = log[ll - Len(P(w)) + i]
             /\ \A i \in 1..(ll - Len(P(w))) : log[i] + Per[w] <= prunedTo'
             /\ Forgotten(w)' = ll - Len(P(w))
  <2>1. /\ P(w) \in Seq(Nat)
        /\ Len(P(w)) \in Nat
        /\ Len(P(w)) <= Len(log)
        /\ \A i \in 1..Len(P(w)) : P(w)[i] = log[Len(log) - Len(P(w)) + i]
        /\ \A i \in 1..(Len(log) - Len(P(w))) :
              log[i] + Per[w] <= Latest(prunedTo, n)
    <3> HIDE DEF n
    <3> QED BY <1>1, <1>2, PrunedView
  <2>2. DOMAIN P(w) = 1..Len(P(w))
    BY <2>1, LenProperties
  <2>3. times'[w] = P(w)
    BY <1>3
  <2>4. Forgotten(w)' = ll - Len(P(w))
    BY <2>3, <1>3 DEF Forgotten
  <2> QED BY <2>1, <2>2, <2>3, <2>4, <1>3
<1> HIDE DEF P, ll, n
<1>6. RemembersNewest'
  <2> SUFFICES ASSUME NEW w \in Windows
               PROVE  /\ Len(times'[w]) <= Len(log')
                      /\ \A i \in DOMAIN times'[w] :
                            times'[w][i] = log'[Forgotten(w)' + i]
    BY DEF RemembersNewest
  <2> QED BY <1>3, <1>5 DEF ll
<1>7. ForgetsOnlyTheOld'
  <2> SUFFICES ASSUME NEW w \in Windows, NEW i \in 1..Forgotten(w)'
               PROVE  log'[i] + Per[w] <= prunedTo'
    BY DEF ForgetsOnlyTheOld
  <2> QED BY <1>3, <1>5
<1>8. prunedTo' <= clock'
  BY <1>2, <1>3 DEF Latest
<1>9. RespectsLimits'
  BY <1>1, <1>3 DEF RespectsLimits
<1>10. HeldBack'
  <2> SUFFICES ASSUME ~lapsed, ~TooLate(c, n)
               PROVE  \/ prunedTo' <= last
                      \/ \E w \in Windows :
                            /\ Len(times'[w]) >= Limit[w]
                            /\ prunedTo' <=
                                  times'[w][Len(times'[w]) - Limit[w] + 1] + Per[w]
    BY <1>3 DEF HeldBack
  <2>1. PICK m : Moment(m, n) /\ TooLate(c, m)
    BY DEF Refuse, n
  <2>2. m \in Nat /\ n < m
    <3>1. m \in Nat /\ n <= m
      BY <2>1, <1>1, <1>2, MomentFacts
    <3>2. m # n
      BY <2>1
    <3> QED BY <3>1, <3>2, <1>2
  <2>3. m = last \/ \E w \in Windows : m = Earliest(w, P(w), n)
    BY <2>1, <2>2, <1>1, <1>2, MomentFacts DEF P
  <2>4. CASE prunedTo <= n
    <3>1. prunedTo' = n
      BY <2>4, <1>2, <1>3 DEF Latest
    <3>2. CASE m = last
      BY <3>1, <3>2, <2>2, <1>2
    <3>3. ASSUME NEW w \in Windows, m = Earliest(w, P(w), n)
          PROVE  /\ Len(times'[w]) >= Limit[w]
                 /\ n <= times'[w][Len(times'[w]) - Limit[w] + 1] + Per[w]
      <4>1. /\ Len(P(w)) >= Limit[w]
            /\ m = P(w)[Len(P(w)) - Limit[w] + 1] + Per[w]
        BY <3>3, <2>2, <1>2, <1>5, EarliestFacts
      <4> QED BY <4>1, <2>2, <1>2, <1>5
    <3> QED BY <3>1, <3>2, <3>3, <2>3
  <2>5. CASE n < prunedTo
    <3>1. prunedTo' = prunedTo
      BY <2>5, <1>2, <1>3 DEF Latest
    <3>2. CASE prunedTo <= last
      BY <3>1, <3>2
    <3>3. ASSUME NEW w \in Windows,
                 Len(times[w]) >= Limit[w],
                 prunedTo <= times[w][Len(times[w]) - Limit[w] + 1] + Per[w]
          PROVE  /\ Len(times'[w]) >= Limit[w]
                 /\ prunedTo <= times'[w][Len(times'[w]) - Limit[w] + 1] + Per[w]
      <4> DEFINE x == times[w][Len(times[w]) - Limit[w] + 1]
      <4>1. x \in Nat /\ Per[w] \in Nat
        <5>1. Len(times[w]) \in Nat /\ times[w] \in [1..Len(times[w]) -> Nat]
              /\ Limit[w] \in Nat \ {0} /\ Per[w] \in Nat
          BY <1>1, LimitAssumption, PerAssumption, LenProperties DEF TypeOK
        <5> QED BY <5>1, <3>3
      <4>2. n < x + Per[w]
        <5>1. prunedTo <= x + Per[w]
          BY <3>3
        <5> HIDE DEF x
        <5> QED BY <5>1, <4>1, <2>5, <1>2
      <4>3. Len(P(w)) >= Limit[w] /\ P(w)[Len(P(w)) - Limit[w] + 1] = x
        BY <4>2, <3>3, <1>1, <1>2, ClosingEntrySurvives DEF P
      <4> QED BY <4>3, <3>3, <1>5
    <3> QED BY <3>1, <3>2, <3>3, <1>1 DEF HeldBack
  <2> QED BY <2>4, <2>5, <1>2
<1> QED BY <1>6, <1>7, <1>8, <1>9, <1>10

\* A cancelled call takes back the newest reservation or nothing; the windows
\* and log always agree on which.
LEMMA CancelKeeps ==
    ASSUME IInv, TypeOK', NEW c \in Callers, Cancel(c)
    PROVE  /\ RemembersNewest' /\ ForgetsOnlyTheOld' /\ HeldBack'
           /\ RespectsLimits' /\ prunedTo' <= clock'
           /\ \A i \in 1..(Len(log') - 1) : log'[i] <= log'[i + 1]
           /\ \A i \in DOMAIN log' : log'[i] <= last'
           /\ last' = last
<1> DEFINE m == at[c]
           ll == Len(log)
           T(w) == TakeBack(times[w], m)
           G == TakeBack(log, m)
<1>1. TypeOK /\ RemembersNewest /\ ForgetsOnlyTheOld /\ SortedLog
      /\ ReadingsOld /\ RespectsLimits /\ HeldBack
  BY DEF IInv
<1>2. m \in Nat /\ prunedTo \in Nat /\ prunedTo <= clock /\ last \in Nat
      /\ clock \in Nat /\ m <= last
  BY <1>1 DEF TypeOK, ReadingsOld, SortedLog, Cancel
<1>3. /\ times' = [w \in Windows |-> T(w)]
      /\ log' = G
      /\ lapsed' = (lapsed \/ m <= clock)
      /\ clock' = clock /\ last' = last /\ prunedTo' = prunedTo
  BY <1>1, <1>2, HandBackFacts DEF Cancel
<1>4. /\ ll \in Nat /\ log \in Seq(Nat) /\ log \in [1..ll -> Nat]
      /\ DOMAIN log = 1..ll
  BY <1>1, LenProperties DEF TypeOK
<1>5. /\ G \in Seq(Nat)
      /\ Len(G) \in Nat
      /\ DOMAIN G = 1..Len(G)
      /\ Len(G) = IF ll > 0 /\ log[ll] = m THEN ll - 1 ELSE ll
      /\ \A i \in 1..Len(G) : G[i] = log[i]
  <2>1. /\ G \in Seq(Nat)
        /\ Len(G) = IF ll > 0 /\ log[ll] = m THEN ll - 1 ELSE ll
        /\ \A i \in 1..Len(G) : G[i] = log[i]
    BY <1>2, <1>4, TakeBackFacts
  <2> QED BY <2>1, LenProperties
<1>6. Len(G) <= ll
  BY <1>4, <1>5
<1>7. ASSUME NEW w \in Windows
      PROVE  /\ times'[w] = T(w)
             /\ Len(T(w)) \in Nat
             /\ Len(T(w)) <= Len(G)
             /\ DOMAIN T(w) = 1..Len(T(w))
             /\ Len(G) - Len(T(w)) <= Forgotten(w)
             /\ \A i \in 1..Len(T(w)) : T(w)[i] = log[Len(G) - Len(T(w)) + i]
  <2> DEFINE s == times[w]
             ls == Len(times[w])
  <2>1. /\ s \in Seq(Nat) /\ ls \in Nat /\ DOMAIN s = 1..ls
    BY <1>1, LenProperties DEF TypeOK
  <2>2. /\ T(w) \in Seq(Nat)
        /\ Len(T(w)) = IF ls > 0 /\ s[ls] = m THEN ls - 1 ELSE ls
        /\ \A i \in 1..Len(T(w)) : T(w)[i] = s[i]
    BY <2>1, <1>2, TakeBackFacts
  <2>3. Len(T(w)) \in Nat /\ DOMAIN T(w) = 1..Len(T(w))
    BY <2>2, LenProperties
  <2>4. /\ ls <= ll
        /\ Forgotten(w) = ll - ls
        /\ \A i \in 1..ls : s[i] = log[ll - ls + i]
    BY <2>1, <1>1 DEF RemembersNewest, Forgotten
  <2>5. times'[w] = T(w)
    BY <1>3
  <2> DEFINE lg == Len(G)
             lt == Len(T(w))
  <2>6. \/ ls = 0 /\ lt = 0
        \/ lt = ls /\ lg = ll
        \/ ls > 0 /\ lt = ls - 1 /\ lg = ll - 1
    <3>1. CASE ls = 0
      BY <3>1, <2>2
    <3>2. CASE ls > 0
      <4>1. s[ls] = log[ll] /\ ll > 0
        <5>1. ls \in 1..ls /\ ll - ls + ls = ll
          BY <3>2, <2>1, <1>4
        <5>2. s[ls] = log[ll - ls + ls]
          BY <5>1, <2>4
        <5>3. ll > 0
          BY <3>2, <2>1, <2>4, <1>4
        <5> QED BY <5>1, <5>2, <5>3
      <4> HIDE DEF s, ls, ll, G, T
      <4> QED BY <4>1, <3>2, <2>2, <1>5 DEF lg, lt
    <3> QED BY <3>1, <3>2, <2>1
  <2>7. lg \in Nat /\ lg <= ll /\ lg >= ll - 1 /\ lt \in Nat
    <3> HIDE DEF ll, G, T
    <3> QED BY <2>3, <1>4, <1>5
  <2> HIDE DEF lg, lt, ls, ll
  <2>8. lt <= lg /\ lg - lt <= ll - ls
    BY <2>1, <2>4, <2>6, <2>7, <1>4
  <2>9. ASSUME NEW i \in 1..lt
        PROVE  T(w)[i] = log[lg - lt + i]
    <3>1. i \in 1..ls /\ lg - lt + i = ll - ls + i
      BY <2>1, <2>4, <2>6, <2>7, <1>4
    <3>2. T(w)[i] = s[i]
      BY <2>2 DEF lt
    <3> QED BY <3>1, <3>2, <2>4
  <2>10. Len(T(w)) = lt /\ Len(G) = lg
    BY DEF lt, lg
  <2> HIDE DEF T, G
  <2> QED BY <2>3, <2>4, <2>5, <2>7, <2>8, <2>9, <2>10
<1> HIDE DEF m, ll, T, G
<1>8. RemembersNewest'
  <2> SUFFICES ASSUME NEW w \in Windows
               PROVE  /\ Len(times'[w]) <= Len(log')
                      /\ \A i \in DOMAIN times'[w] :
                            times'[w][i] = log'[Forgotten(w)' + i]
    BY DEF RemembersNewest
  <2>1. Forgotten(w)' = Len(G) - Len(T(w))
    BY <1>3, <1>7 DEF Forgotten
  <2>2. ASSUME NEW i \in 1..Len(T(w))
        PROVE  T(w)[i] = G[Len(G) - Len(T(w)) + i]
    <3>1. Len(G) - Len(T(w)) + i \in 1..Len(G)
      BY <1>5, <1>7
    <3> QED BY <3>1, <1>5, <1>7
  <2> QED BY <2>1, <2>2, <1>3, <1>7
<1>9. ForgetsOnlyTheOld'
  <2> SUFFICES ASSUME NEW w \in Windows, NEW i \in 1..Forgotten(w)'
               PROVE  log'[i] + Per[w] <= prunedTo'
    BY DEF ForgetsOnlyTheOld
  <2>1. Forgotten(w)' = Len(G) - Len(T(w))
    BY <1>3, <1>7 DEF Forgotten
  <2>2. Forgotten(w) \in Int
    <3>1. Len(times[w]) \in Nat
      BY <1>1, LenProperties DEF TypeOK
    <3> QED BY <3>1, <1>4 DEF Forgotten, ll
  <2>3. i \in 1..Forgotten(w) /\ i \in 1..Len(G)
    BY <2>1, <2>2, <1>5, <1>7
  <2>4. log'[i] = log[i]
    BY <2>3, <1>3, <1>5
  <2> QED BY <2>3, <2>4, <1>1, <1>3 DEF ForgetsOnlyTheOld
<1>10. HeldBack'
  <2>1. ASSUME ~lapsed' PROVE prunedTo' <= last'
    <3>1. ~(m <= clock)
      BY <2>1, <1>3
    <3>2. prunedTo <= last
      BY <3>1, <1>2
    <3> QED BY <3>2, <1>3
  <2> QED BY <2>1 DEF HeldBack
<1>11. RespectsLimits'
  <2> SUFFICES ASSUME ~lapsed, NEW w \in Windows, NEW i \in 1..(Len(G) - Limit[w])
               PROVE  G[i + Limit[w]] - G[i] >= Per[w]
    BY <1>3 DEF RespectsLimits
  <2> DEFINE l == Limit[w]
             lg == Len(G)
  <2>1. l \in Nat /\ lg \in Nat /\ ll \in Nat /\ lg <= ll
    BY LimitAssumption, <1>4, <1>5, <1>6
  <2>2. i \in 1..Len(G) /\ i + Limit[w] \in 1..Len(G) /\ i \in 1..(ll - Limit[w])
    <3> SUFFICES i \in 1..lg /\ i + l \in 1..lg /\ i \in 1..(ll - l)
      OBVIOUS
    <3>1. i \in 1..(lg - l)
      OBVIOUS
    <3> HIDE DEF l, lg
    <3> QED BY <2>1, <3>1
  <2>3. G[i] = log[i] /\ G[i + Limit[w]] = log[i + Limit[w]]
    BY <2>2, <1>5
  <2> QED BY <2>2, <2>3, <1>1 DEF RespectsLimits, ll
<1>12. \A i \in 1..(Len(log') - 1) : log'[i] <= log'[i + 1]
  <2> SUFFICES ASSUME NEW i \in 1..(Len(G) - 1)
               PROVE  G[i] <= G[i + 1]
    BY <1>3
  <2>1. i \in 1..Len(G) /\ i + 1 \in 1..Len(G) /\ i \in 1..(ll - 1)
    BY <1>4, <1>5, <1>6
  <2>2. G[i] = log[i] /\ G[i + 1] = log[i + 1]
    BY <2>1, <1>5
  <2> QED BY <2>1, <2>2, <1>1 DEF SortedLog, ll
<1>13. \A i \in DOMAIN log' : log'[i] <= last'
  <2> SUFFICES ASSUME NEW i \in 1..Len(G)
               PROVE  G[i] <= last
    BY <1>3, <1>5
  <2>1. i \in DOMAIN log /\ G[i] = log[i]
    BY <1>4, <1>5, <1>6
  <2> QED BY <2>1, <1>1 DEF SortedLog
<1> QED BY <1>2, <1>3, <1>8, <1>9, <1>10, <1>11, <1>12, <1>13

-----------------------------------------------------------------------------
(* The theorems. *)

LEMMA InitIInv == Init => IInv
<1> SUFFICES ASSUME Init PROVE IInv
  OBVIOUS
<1>1. TypeOK
  BY InitTyped
<1>2. Len(log) = 0 /\ \A w \in Windows : times[w] = <<>> /\ Len(times[w]) = 0
  BY EmptySeq DEF Init
<1>3. \A w \in Windows : Limit[w] \in Nat \ {0}
  BY LimitAssumption
<1> QED BY <1>1, <1>2, <1>3 DEF Init, IInv, RemembersNewest, ForgetsOnlyTheOld,
           Forgotten, SortedLog, ReadingsOld, HeldBack, RespectsLimits

\* Each step of the limiter keeps the invariant.
LEMMA StepIInv == IInv /\ [Next]_vars => IInv'
<1> SUFFICES ASSUME IInv, [Next]_vars
             PROVE  IInv'
  OBVIOUS
<1>1. TypeOK /\ RemembersNewest /\ ForgetsOnlyTheOld /\ SortedLog
      /\ ReadingsOld /\ HeldBack /\ RespectsLimits
  BY DEF IInv
<1>2. TypeOK'
  BY <1>1, StepTyped
<1>3. ASSUME UNCHANGED <<limiterVars, history>>
      PROVE  RemembersNewest' /\ ForgetsOnlyTheOld' /\ HeldBack' /\ RespectsLimits'
  BY <1>1, <1>3 DEF limiterVars, history, RemembersNewest, ForgetsOnlyTheOld,
     Forgotten, HeldBack, RespectsLimits
<1>4. ASSUME UNCHANGED <<limiterVars, history>>, clock' \in Nat, clock <= clock',
             \A c \in Callers : now'[c] <= clock',
             \A c \in Callers : pc'[c] = "sleeping" => pc[c] = "sleeping" /\ at'[c] = at[c]
      PROVE  IInv'
  <2>1. SortedLog'
    BY <1>1, <1>4 DEF limiterVars, history, SortedLog
  <2>2. ReadingsOld'
    BY <1>1, <1>4 DEF limiterVars, history, ReadingsOld, TypeOK
  <2> QED BY <1>2, <1>3, <1>4, <2>1, <2>2 DEF IInv
<1>5. clock \in Nat /\ \A c \in Callers : now[c] \in Nat /\ now[c] <= clock
  BY <1>1 DEF TypeOK, ReadingsOld
<1>6. ASSUME NEW c \in Callers, Return(c)
      PROVE  /\ \A d \in Callers : now'[d] <= clock
             /\ \A d \in Callers :
                   pc'[d] = "sleeping" => pc[d] = "sleeping" /\ at'[d] = at[d]
  BY <1>1, <1>5, <1>6 DEF Return, TypeOK
<1>7. CASE UNCHANGED vars
  BY <1>4, <1>5, <1>7 DEF vars, callVars
<1>8. CASE Tick
  BY <1>4, <1>5, <1>8 DEF Tick, callVars
<1>9. ASSUME NEW c \in Callers, Step(c)
      PROVE  IInv'
  <2>1. CASE Enter(c)
    BY <2>1, <1>1, <1>4, <1>5 DEF Enter, TypeOK
  <2>2. CASE ReadClock(c)
    BY <2>2, <1>1, <1>4, <1>5 DEF ReadClock, TypeOK
  <2>3. CASE Grant(c)
    <3>1. PICK m : Commit(c, m)
      BY <2>3 DEF Grant
    <3>2. Return(c) /\ clock' = clock
      BY <2>3, <3>1 DEF Grant, Commit
    <3>3. /\ RemembersNewest' /\ ForgetsOnlyTheOld' /\ HeldBack'
          /\ RespectsLimits' /\ prunedTo' <= clock'
          /\ \A i \in 1..(Len(log') - 1) : log'[i] <= log'[i + 1]
          /\ \A i \in DOMAIN log' : log'[i] <= last'
          /\ last <= last' /\ last' \in Nat /\ last \in Nat
      BY <3>1, <1>2, CommitKeeps
    <3>4. SortedLog'
      BY <3>2, <3>3, <1>1, <1>6 DEF SortedLog, TypeOK
    <3> QED BY <3>2, <3>3, <3>4, <1>2, <1>6 DEF IInv, ReadingsOld
  <2>4. CASE Sleep(c)
    <3>1. PICK m \in Bounds(now[c]) :
             /\ Commit(c, m)
             /\ at' = [at EXCEPT ![c] = m]
      BY <2>4 DEF Sleep
    <3>2. /\ RemembersNewest' /\ ForgetsOnlyTheOld' /\ HeldBack'
          /\ RespectsLimits' /\ prunedTo' <= clock'
          /\ \A i \in 1..(Len(log') - 1) : log'[i] <= log'[i + 1]
          /\ \A i \in DOMAIN log' : log'[i] <= last'
          /\ last <= last' /\ last' = m /\ m \in Nat /\ last \in Nat
      BY <3>1, <1>2, CommitKeeps
    <3>3. \A d \in Callers : d # c => pc'[d] = pc[d] /\ at'[d] = at[d]
      BY <2>4, <3>1, <1>1 DEF Sleep, TypeOK
    <3>4. at'[c] = m
      BY <3>1, <1>1 DEF TypeOK
    <3>5. SortedLog'
      <4>1. ASSUME NEW d \in Callers, pc'[d] = "sleeping"
            PROVE  at'[d] <= last'
        <5>1. CASE d = c
          BY <5>1, <3>2, <3>4
        <5>2. CASE d # c
          <6>1. at'[d] = at[d] /\ at[d] \in Nat /\ at[d] <= last
            BY <5>2, <4>1, <3>3, <1>1 DEF SortedLog, TypeOK
          <6> QED BY <6>1, <3>2
        <5> QED BY <5>1, <5>2
      <4> QED BY <4>1, <3>2 DEF SortedLog
    <3>6. clock' = clock /\ \A d \in Callers : now'[d] <= clock
      BY <2>4, <3>1, <1>1, <1>5 DEF Sleep, Commit, TypeOK
    <3> QED BY <3>2, <3>5, <3>6, <1>2 DEF IInv, ReadingsOld
  <2>5. CASE Refuse(c)
    <3>1. Return(c) /\ clock' = clock /\ last' = last /\ log' = log
      BY <2>5 DEF Refuse
    <3>2. SortedLog'
      BY <3>1, <1>1, <1>6 DEF SortedLog
    <3> QED BY <2>5, <3>1, <3>2, <1>2, <1>6, RefuseKeeps DEF IInv, ReadingsOld
  <2>6. CASE Wake(c)
    BY <2>6, <1>4, <1>5, <1>6 DEF Wake
  <2>7. CASE Cancel(c)
    <3>1. Return(c) /\ clock' = clock
      BY <2>7 DEF Cancel
    <3>2. /\ RemembersNewest' /\ ForgetsOnlyTheOld' /\ HeldBack'
          /\ RespectsLimits' /\ prunedTo' <= clock'
          /\ \A i \in 1..(Len(log') - 1) : log'[i] <= log'[i + 1]
          /\ \A i \in DOMAIN log' : log'[i] <= last'
          /\ last' = last
      BY <2>7, <1>2, CancelKeeps
    <3>3. SortedLog'
      BY <3>1, <3>2, <1>1, <1>6 DEF SortedLog
    <3> QED BY <3>1, <3>2, <3>3, <1>2, <1>6 DEF IInv, ReadingsOld
  <2> QED BY <1>9, <2>1, <2>2, <2>3, <2>4, <2>5, <2>6, <2>7 DEF Step
<1> QED BY <1>7, <1>8, <1>9 DEF Next

\* IInv holds in every reachable state.
THEOREM Invariance == Spec => []IInv
  BY InitIInv, StepIInv, PTL DEF Spec

\* The limiter's promise, for every set of windows and limits: unless a context
\* has lapsed, Limit[w]+1 consecutive reservations span at least Per[w].
THEOREM LimitsRespected == Spec => []RespectsLimits
<1>1. IInv => RespectsLimits
  BY DEF IInv
<1> QED BY <1>1, Invariance, PTL

\* Every window stays sorted and bounded by last: it is a part of log, which is.
THEOREM WindowsSorted == Spec => []SortedTimes
<1>1. IInv => SortedTimes
  <2> SUFFICES ASSUME IInv, NEW w \in Windows
               PROVE  /\ \A i \in 1..(Len(times[w]) - 1) :
                            times[w][i] <= times[w][i + 1]
                      /\ \A i \in DOMAIN times[w] : times[w][i] <= last
    BY DEF SortedTimes
  <2>1. TypeOK /\ RemembersNewest /\ SortedLog
    BY DEF IInv
  <2> DEFINE ls == Len(times[w])
             ll == Len(log)
  <2>2. /\ ls \in Nat /\ DOMAIN times[w] = 1..ls
        /\ ll \in Nat /\ DOMAIN log = 1..ll
    BY <2>1, LenProperties DEF TypeOK
  <2>3. /\ ls <= ll
        /\ \A i \in 1..ls : times[w][i] = log[ll - ls + i]
    BY <2>1, <2>2 DEF RemembersNewest, Forgotten
  <2>4. ASSUME NEW i \in 1..(ls - 1)
        PROVE  times[w][i] <= times[w][i + 1]
    <3>1. log[ll - ls + i] <= log[(ll - ls + i) + 1]
      <4>1. ll - ls + i \in 1..(ll - 1)
        <5> HIDE DEF ls, ll
        <5> QED BY <2>2, <2>3
      <4> QED BY <4>1, <2>1 DEF SortedLog
    <3>2. i \in 1..ls /\ i + 1 \in 1..ls /\ ll - ls + (i + 1) = (ll - ls + i) + 1
      <4> HIDE DEF ls, ll
      <4> QED BY <2>2
    <3> HIDE DEF ls, ll
    <3> QED BY <3>1, <3>2, <2>3
  <2>5. ASSUME NEW i \in 1..ls
        PROVE  times[w][i] <= last
    <3>1. ll - ls + i \in DOMAIN log
      <4> HIDE DEF ls, ll
      <4> QED BY <2>2, <2>3
    <3> QED BY <3>1, <2>1, <2>3 DEF SortedLog
  <2> QED BY <2>2, <2>4, <2>5
<1> QED BY <1>1, Invariance, PTL

\* What holds a call back is a reservation that log still has, Limit[w]-th from
\* the end: a pruned window that is full ends as log does.
LEMMA WaitBound ==
    ASSUME TypeOK, RemembersNewest, ForgetsOnlyTheOld,
           NEW n \in Nat, NEW m, Moment(m, n), m > n
    PROVE  \/ m = last
           \/ \E w \in Windows :
                 /\ Len(log) >= Limit[w]
                 /\ m = log[Len(log) - Limit[w] + 1] + Per[w]
<1>1. CASE m = n
  BY <1>1
<1>2. CASE m = last
  BY <1>2
<1>3. ASSUME NEW w \in Windows, m = Earliest(w, Prune(w, n), n)
      PROVE  /\ Len(log) >= Limit[w]
             /\ m = log[Len(log) - Limit[w] + 1] + Per[w]
  <2> DEFINE P == Prune(w, n)
             lp == Len(P)
             ll == Len(log)
             l == Limit[w]
             k == lp - l + 1
  <2>1. P \in Seq(Nat) /\ lp \in Nat /\ lp <= ll
    BY PrunedView
  <2>2. \A i \in 1..lp : P[i] = log[ll - lp + i]
    BY PrunedView
  <2>3. n < Earliest(w, P, n)
    BY <1>3
  <2>4. lp >= l
    BY <2>1, <2>3, EarliestFacts
  <2>5. m = P[k] + Per[w]
    BY <2>1, <2>3, <1>3, EarliestFacts
  <2>6. l \in Nat \ {0} /\ ll \in Nat
    BY LimitAssumption, LenProperties DEF TypeOK
  <2> HIDE DEF P, lp, ll, l
  <2>7. k \in 1..lp /\ ll - lp + k = ll - l + 1 /\ ll >= l
    BY <2>1, <2>4, <2>6
  <2> HIDE DEF k
  <2>8. P[k] = log[ll - l + 1]
    BY <2>2, <2>7
  <2> QED BY <2>5, <2>7, <2>8 DEF ll, l
<1> QED BY <1>1, <1>2, <1>3, MomentFacts

\* A call that sleeps is held back by last or by one of the reservations still
\* in log: pruning and stale clock readings make nobody wait longer.
THEOREM WaitsNeeded == Spec => NoNeedlessWait
<1> DEFINE Needed(c) ==
              pc[c] = "reserving" /\ pc'[c] = "sleeping" =>
                 \/ at'[c] = last
                 \/ \E w \in Windows :
                       /\ Len(log) >= Limit[w]
                       /\ at'[c] = log[Len(log) - Limit[w] + 1] + Per[w]
<1>1. ASSUME IInv, [Next]_vars, NEW c \in Callers
      PROVE  Needed(c)
  <2> SUFFICES ASSUME pc[c] = "reserving", pc'[c] = "sleeping"
               PROVE  \/ at'[c] = last
                      \/ \E w \in Windows :
                            /\ Len(log) >= Limit[w]
                            /\ at'[c] = log[Len(log) - Limit[w] + 1] + Per[w]
    OBVIOUS
  <2>1. TypeOK /\ RemembersNewest /\ ForgetsOnlyTheOld
    BY <1>1 DEF IInv
  <2>2. now[c] \in Nat /\ at \in [Callers -> Nat]
        /\ pc \in [Callers -> {"idle", "entered", "reserving", "sleeping"}]
    BY <2>1 DEF TypeOK
  <2>3. Sleep(c)
    <3>1. CASE UNCHANGED vars
      BY <3>1 DEF vars, callVars
    <3>2. CASE Tick
      BY <3>2 DEF Tick, callVars
    <3>3. ASSUME NEW d \in Callers, Step(d)
          PROVE  Sleep(c)
      <4>1. CASE Enter(d)
        BY <4>1, <2>2 DEF Enter
      <4>2. CASE ReadClock(d)
        BY <4>2, <2>2 DEF ReadClock
      <4>3. CASE Grant(d) \/ Refuse(d) \/ Wake(d) \/ Cancel(d)
        BY <4>3, <2>2 DEF Grant, Refuse, Wake, Cancel, Return
      <4>4. CASE Sleep(d)
        <5>1. d = c
          BY <4>4, <2>2 DEF Sleep
        <5> QED BY <4>4, <5>1
      <4> QED BY <3>3, <4>1, <4>2, <4>3, <4>4 DEF Step
    <3> QED BY <1>1, <3>1, <3>2, <3>3 DEF Next
  <2>4. PICK m : m > now[c] /\ Moment(m, now[c]) /\ at' = [at EXCEPT ![c] = m]
    BY <2>3 DEF Sleep, Commit
  <2>5. at'[c] = m
    BY <2>2, <2>4
  <2> QED BY <2>1, <2>2, <2>4, <2>5, WaitBound
<1>2. IInv /\ [Next]_vars => [\A c \in Callers : Needed(c)]_vars
  BY <1>1
<1> QED BY <1>2, Invariance, PTL DEF Spec, NoNeedlessWait

-----------------------------------------------------------------------------
(* From reservations in a row to any interval of time. *)

LEMMA LogSorted ==
    ASSUME TypeOK, SortedLog, NEW i \in DOMAIN log, NEW j \in DOMAIN log, i <= j
    PROVE  log[i] <= log[j]
<1> DEFINE Lower == {k \in DOMAIN log : i <= k /\ log[k] < log[i]}
           R == OpToRel(<, Nat)
<1>1. Len(log) \in Nat /\ DOMAIN log = 1..Len(log) /\ \A k \in DOMAIN log : log[k] \in Nat
  BY LenProperties, ElementOfSeq DEF TypeOK
<1>2. Lower = {}
  <2> SUFFICES ASSUME Lower # {}
               PROVE  FALSE
    OBVIOUS
  <2>1. Lower \subseteq Nat
    BY <1>1
  <2>2. PICK k \in Lower : \A l \in Lower : <<l, k>> \notin R
    <3>1. IsWellFoundedOn(R, Nat)
      BY NatLessThanWellFounded
    <3> HIDE DEF R, Lower
    <3> QED BY <2>1, <3>1, WFMin
  <2>3. k \in 1..Len(log) /\ i \in 1..Len(log) /\ i <= k /\ log[k] < log[i]
    BY <1>1
  <2>4. k # i
    BY <1>1, <2>3
  <2>5. k - 1 \in 1..(Len(log) - 1) /\ k - 1 \in DOMAIN log /\ i <= k - 1 /\ (k - 1) + 1 = k
    BY <1>1, <2>3, <2>4
  <2>6. log[k - 1] <= log[k]
    BY <2>5 DEF SortedLog
  <2>7. k - 1 \in Lower
    BY <1>1, <2>3, <2>5, <2>6
  <2>8. <<k - 1, k>> \in R
    BY <2>3, <2>5 DEF OpToRel
  <2> QED BY <2>2, <2>7, <2>8
<1>3. ~(log[j] < log[i])
  BY <1>2
<1> QED BY <1>1, <1>3

\* The reservations of the interval of length d that begins at t.
Within(t, d) == {i \in DOMAIN log : t <= log[i] /\ log[i] < t + d}

\* In no interval as long as a window are there more reservations than the window
\* allows, wherever the interval begins: what Riot counts, if requests go out when
\* they are meant to.
AnyIntervalKept ==
    ~lapsed => \A w \in Windows : \A t \in Nat : Cardinality(Within(t, Per[w])) <= Limit[w]

\* reserve keeps to the limits of all windows at once, sliding and not only from
\* the beginning of a window on, whoever calls it with however old a reading.
THEOREM AnyInterval == Spec => []AnyIntervalKept
<1>1. ASSUME IInv, ~lapsed, NEW w \in Windows, NEW t \in Nat
      PROVE  Cardinality(Within(t, Per[w])) <= Limit[w]
  <2> DEFINE S == Within(t, Per[w])
             l == Limit[w]
             d == Per[w]
  <2>1. /\ Len(log) \in Nat /\ DOMAIN log = 1..Len(log)
        /\ \A k \in DOMAIN log : log[k] \in Nat
        /\ l \in Nat \ {0} /\ d \in Nat \ {0} /\ TypeOK /\ SortedLog
    BY <1>1, LenProperties, ElementOfSeq, LimitAssumption, PerAssumption DEF IInv, TypeOK
  <2>2. \A i \in 1..(Len(log) - l) : log[i + l] - log[i] >= d
    BY <1>1 DEF IInv, RespectsLimits
  <2>3. S \subseteq 1..Len(log) /\ \A i \in S : t <= log[i] /\ log[i] < t + d
    BY <2>1 DEF Within
  <2>4. CASE S = {}
    <3>1. Cardinality(S) = 0
      BY <2>4, FS_EmptySet
    <3> QED BY <2>1, <3>1
  <2>5. CASE S # {}
    <3> HIDE DEF S, l, d
    <3>1. PICK i \in S : \A k \in S : i <= k
      <4> DEFINE R == OpToRel(<, Nat)
      <4>1. S \subseteq Nat
        BY <2>1, <2>3
      <4>2. PICK i \in S : \A k \in S : <<k, i>> \notin R
        <5>1. IsWellFoundedOn(R, Nat)
          BY NatLessThanWellFounded
        <5> HIDE DEF R
        <5> QED BY <2>5, <4>1, <5>1, WFMin
      <4>3. ASSUME NEW k \in S
            PROVE  i <= k
        <5>1. i \in Nat /\ k \in Nat /\ ~(k < i)
          BY <4>1, <4>2 DEF OpToRel
        <5> QED BY <5>1
      <4> QED BY <4>3
    <3>2. S \subseteq i..(i + l - 1)
      <4> SUFFICES ASSUME NEW j \in S, j > i + l - 1
                   PROVE  FALSE
        BY <2>1, <2>3, <3>1
      <4>1. i \in 1..Len(log) /\ j \in 1..Len(log) /\ i + l <= j
        BY <2>1, <2>3
      <4>2. i \in 1..(Len(log) - l) /\ i + l \in 1..Len(log)
        BY <2>1, <4>1
      <4>3. log[i + l] - log[i] >= d
        BY <2>2, <4>2
      <4>4. log[i + l] <= log[j]
        BY <2>1, <4>1, <4>2, LogSorted
      <4>5. log[i] \in Nat /\ log[j] \in Nat /\ log[i + l] \in Nat
        BY <2>1, <4>1, <4>2
      <4> QED BY <2>1, <2>3, <4>3, <4>4, <4>5
    <3>3. IsFiniteSet(i..(i + l - 1)) /\ Cardinality(i..(i + l - 1)) = l
      <4>1. i \in Int /\ i + l - 1 \in Int /\ i <= i + l - 1 /\ (i + l - 1) - i + 1 = l
        BY <2>1, <2>3
      <4> QED BY <4>1, FS_Interval
    <3>4. Cardinality(S) <= l
      BY <3>2, <3>3, FS_Subset
    <3> QED BY <3>4 DEF S, l
  <2> QED BY <2>4, <2>5
<1>2. IInv => AnyIntervalKept
  BY <1>1 DEF AnyIntervalKept
<1> QED BY <1>2, Invariance, PTL
==============================================================================
