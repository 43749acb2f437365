-------------------------- MODULE SyncServerProofs ---------------------------
(***************************************************************************)
(* Proofs about syncer.Ticker over the pool and about the process of        *)
(* cmd/server around both, for any number of workers, handlers, summoners   *)
(* and runs and any capacity of the queue.  The first part is about the     *)
(* ticker in any program, a ticker that is switched off included, so that   *)
(* the second may rely on it.                                               *)
(***************************************************************************)
EXTENDS SyncServer, SyncRunnerProofs

-----------------------------------------------------------------------------
(* Types of the loop and of the jobs in its hands. *)

TickerStart ==
    /\ RunnerInit
    /\ tick = FALSE /\ ticker \in {"select", "off"} /\ toSubmit = {} /\ run = 0
    /\ outstanding = [r \in 1..MaxRuns |-> 0]
    /\ stop = FALSE /\ fresh = FALSE

TickerTyped ==
    /\ tick \in BOOLEAN /\ stop \in BOOLEAN /\ fresh \in BOOLEAN
    /\ ticker \in {"select", "listing", "submitting", "waiting", "dropping", "exited", "off"}
    /\ toSubmit \subseteq Puuids
    /\ run \in 0..MaxRuns /\ outstanding \in [1..MaxRuns -> Int]
    /\ tick = TRUE => run < MaxRuns
    /\ ticker \in {"listing", "submitting", "waiting"} => run \in 1..MaxRuns

\* Handlers have jobs of no run, the loop has one of its own run.
CallsTyped ==
    /\ \A s \in Handlers : call[s] # NoJob => call[s].run = 0
    /\ call[TickerId] # NoJob => ticker = "submitting" /\ call[TickerId].run = run

LEMMA TickerMoves ==
    Typed /\ TickerTyped /\ [TickerNext]_allVars => [RunnerMove]_runnerVars
<1> SUFFICES ASSUME Typed, TickerTyped, [TickerNext]_allVars
             PROVE  [RunnerMove]_runnerVars
  OBVIOUS
<1>1. TickerId \in Submitters /\ run \in Nat /\ calls \in Nat
  BY TickerAssumption DEF TickerTyped, Typed
<1>2. CASE RunSubmit
  BY <1>1, <1>2 DEF RunSubmit, RunnerMove, TickerTyped
<1>3. CASE RunSubmitted \/ RunDropped
  BY <1>1, <1>3 DEF RunSubmitted, RunDropped, RunnerMove
<1>4. ASSUME NEW s \in Handlers, Enqueue(s)
      PROVE  [RunnerMove]_runnerVars
  <2>1. s \in Submitters /\ calls + 1 \in Nat
    BY <1>1, <1>4 DEF Handlers
  <2> QED BY <1>4, <2>1 DEF Enqueue, SubmitClosed, RunnerMove
<1>5. CASE PoolStep \/ ShutdownBegin \/ ShutdownStep
  BY <1>5 DEF PoolStep, Finish, RunnerMove
<1>6. CASE UNCHANGED runnerVars
  BY <1>6
<1> QED
  BY <1>2, <1>3, <1>4, <1>5, <1>6
  DEF TickerNext, allVars, TickFires, TickerStep, RunBegin, RunNothing, RunList,
      RunSubmitClosed, SubmitClosed, RunWait, RunEnd, DropPendingTick, TickerExit, StopTicker

LEMMA TickerTypedStep ==
    Typed /\ TickerTyped /\ [TickerNext]_allVars => TickerTyped'
<1> SUFFICES ASSUME Typed, TickerTyped, [TickerNext]_allVars
             PROVE  TickerTyped'
  OBVIOUS
<1> USE TickerAssumption DEF tickerVars
<1>1. CASE TickFires
  BY <1>1 DEF TickFires, TickerTyped
<1>2. CASE RunBegin
  <2>1. run < MaxRuns
    BY <1>2, Zenon DEF RunBegin, TickerTyped
  <2>2. run + 1 \in 1..MaxRuns
    BY <2>1 DEF TickerTyped
  <2>3. /\ run' = run + 1 /\ tick' = FALSE /\ ticker' = "listing"
        /\ UNCHANGED <<toSubmit, outstanding, stop, fresh>>
    BY <1>2, Zenon DEF RunBegin
  <2>4. run' \in 0..MaxRuns /\ run' \in 1..MaxRuns
    BY <2>2, <2>3
  <2> QED BY <2>3, <2>4 DEF TickerTyped
<1>3. CASE RunNothing \/ RunWait \/ RunEnd \/ TickerExit
  BY <1>3 DEF RunNothing, RunWait, RunEnd, TickerExit, TickerTyped
<1>4. CASE DropPendingTick \/ StopTicker
  BY <1>4 DEF DropPendingTick, StopTicker, TickerTyped
<1>8. CASE RunList
  BY <1>8 DEF RunList, TickerTyped
<1>5. CASE RunSubmit \/ RunSubmitClosed \/ RunDropped
  BY <1>5 DEF RunSubmit, RunSubmitClosed, RunDropped, TickerTyped
<1>6. ASSUME NEW w \in Workers, Finish(w)
      PROVE  TickerTyped'
  <2>1. CASE current[w].run \in 1..MaxRuns
    BY <1>6, <2>1 DEF Finish, TickerTyped
  <2>2. CASE current[w].run \notin 1..MaxRuns
    <3>1. outstanding' = outstanding
      BY <1>6, <2>2 DEF Finish, TickerTyped
    <3> QED BY <1>6, <3>1 DEF Finish, TickerTyped
  <2> QED BY <2>1, <2>2
<1>7. CASE UNCHANGED tickerVars
  BY <1>7 DEF TickerTyped
<1> QED
  BY <1>1, <1>2, <1>3, <1>4, <1>5, <1>6, <1>7, <1>8
  DEF TickerNext, allVars, TickerStep, RunSubmitted, PoolStep

LEMMA CallsTypedStep ==
    Typed /\ CallsTyped /\ [TickerNext]_allVars => CallsTyped'
<1> SUFFICES ASSUME Typed, CallsTyped, [TickerNext]_allVars
             PROVE  CallsTyped'
  OBVIOUS
<1> USE TickerAssumption DEF Handlers
<1>1. ASSUME UNCHANGED <<call, run>>, call[TickerId] # NoJob => ticker' = ticker
      PROVE  CallsTyped'
  BY <1>1 DEF CallsTyped
<1>2. CASE RunSubmit
  <2>1. PICK p \in toSubmit : SubmitCheck(TickerId, p, run)
    BY <1>2 DEF RunSubmit
  <2>2. /\ call'[TickerId].run = run
        /\ \A s \in Handlers : call'[s] = call[s]
    BY <2>1 DEF SubmitCheck, Typed
  <2> QED BY <1>2, <2>2 DEF RunSubmit, CallsTyped
<1>3. ASSUME NEW s \in Submitters, SubmitSend(s) \/ SubmitFull(s), UNCHANGED <<ticker, run>>
      PROVE  CallsTyped'
  <2>1. call' = [call EXCEPT ![s] = NoJob]
    BY <1>3 DEF SubmitSend, SubmitFull
  <2> QED BY <1>3, <2>1 DEF CallsTyped, Typed
<1>4. ASSUME NEW s \in Handlers, NEW p \in Puuids, SubmitCheck(s, p, 0), UNCHANGED <<ticker, run>>
      PROVE  CallsTyped'
  <2>1. call'[s].run = 0 /\ \A t \in Submitters \ {s} : call'[t] = call[t]
    BY <1>4 DEF SubmitCheck, Typed
  <2> QED BY <1>4, <2>1 DEF CallsTyped
<1>5. CASE RunSubmitted \/ RunDropped
  BY <1>3, <1>5 DEF RunSubmitted, RunDropped, tickerVars
<1>6. ASSUME NEW s \in Handlers, Enqueue(s), UNCHANGED tickerVars
      PROVE  CallsTyped'
  <2>1. CASE SubmitClosed(s)
    BY <1>1, <1>6, <2>1 DEF SubmitClosed, runnerVars, tickerVars
  <2> QED BY <1>3, <1>4, <1>6, <2>1 DEF Enqueue, tickerVars
<1>7. CASE PoolStep \/ ((ShutdownBegin \/ ShutdownStep) /\ UNCHANGED tickerVars)
  BY <1>1, <1>7
  DEF PoolStep, Finish, WorkerStep, WorkerCheck, WorkerExit, WorkerTake, WorkerFinish,
      ShutdownBegin, ShutdownStep, ShutdownTimeout, ShutdownReturn, tickerVars
<1>8. CASE RunBegin
  <2>1. call[TickerId] = NoJob /\ call' = call
    BY <1>8 DEF RunBegin, CallsTyped, runnerVars
  <2> QED BY <2>1 DEF CallsTyped
<1>9. CASE TickFires \/ RunNothing \/ RunList \/ RunSubmitClosed \/ RunWait \/ RunEnd
           \/ DropPendingTick \/ TickerExit \/ StopTicker
  <2>1. UNCHANGED <<call, run>> /\ (ticker = "submitting" => ticker' = ticker \/ call[TickerId] = NoJob)
    BY <1>9
    DEF TickFires, RunNothing, RunList, RunSubmitClosed, SubmitClosed, RunWait, RunEnd,
        DropPendingTick, TickerExit, StopTicker, runnerVars
  <2> QED BY <1>1, <2>1 DEF CallsTyped
<1>10. CASE UNCHANGED allVars
  BY <1>1, <1>10 DEF allVars, runnerVars, tickerVars
<1> QED
  BY <1>2, <1>5, <1>6, <1>7, <1>8, <1>9, <1>10
  DEF TickerNext, TickerStep

-----------------------------------------------------------------------------
(* The WaitGroup of a run counts its unfinished jobs.  They are in one of     *)
(* three places, and every step moves at most one job between two of them.    *)

Queued(r) == {i \in DOMAIN jobs : jobs[i].run = r}
Working(r) == {w \in Workers : current[w] # NoJob /\ current[w].run = r}
Pending(r) == IF call[TickerId] # NoJob /\ call[TickerId].run = r THEN 1 ELSE 0

LEMMA UnfinishedParts ==
    ASSUME NEW r
    PROVE  Unfinished(r) = Cardinality(Queued(r)) + Cardinality(Working(r)) + Pending(r)
  BY DEF Unfinished, Queued, Working, Pending

LEMMA PartsFinite ==
    ASSUME Typed, NEW r
    PROVE  /\ IsFiniteSet(Queued(r)) /\ Cardinality(Queued(r)) \in Nat
           /\ IsFiniteSet(Working(r)) /\ Cardinality(Working(r)) \in Nat
           /\ Pending(r) \in {0, 1}
<1>1. Queued(r) \subseteq 1..Len(jobs) /\ Len(jobs) \in Nat
  BY LenProperties DEF Typed, Queued
<1>2. IsFiniteSet(Queued(r))
  <2>1. IsFiniteSet(1..Len(jobs))
    BY <1>1, FS_Interval
  <2> QED BY <1>1, <2>1, FS_Subset
<1>3. IsFiniteSet(Working(r))
  BY WorkersAssumption, FS_Subset DEF Working
<1> QED BY <1>2, <1>3, FS_CardinalityType DEF Pending

\* Submit puts a job into the channel.
LEMMA QueuedSent ==
    ASSUME Typed, NEW j \in Job, jobs' = Append(jobs, j), NEW r
    PROVE  Cardinality(Queued(r)') =
              IF j.run = r THEN Cardinality(Queued(r)) + 1 ELSE Cardinality(Queued(r))
<1>1. /\ jobs' \in Seq(Job) /\ Len(jobs) \in Nat /\ Len(jobs') = Len(jobs) + 1
      /\ \A k \in 1..Len(jobs') :
            \/ k \in 1..Len(jobs) /\ jobs'[k] = jobs[k]
            \/ k = Len(jobs) + 1 /\ jobs'[k] = j
  BY Sent
<1>2. DOMAIN jobs' = 1..Len(jobs') /\ DOMAIN jobs = 1..Len(jobs)
  BY <1>1, LenProperties DEF Typed
<1>3. DOMAIN jobs' = DOMAIN jobs \cup {Len(jobs) + 1} /\ Len(jobs) + 1 \notin DOMAIN jobs
  BY <1>1, <1>2
<1>4. CASE j.run = r
  <2>1. Queued(r)' = Queued(r) \cup {Len(jobs) + 1} /\ Len(jobs) + 1 \notin Queued(r)
    BY <1>1, <1>2, <1>3, <1>4 DEF Queued
  <2> QED BY <1>4, <2>1, PartsFinite, FS_AddElement
<1>5. CASE j.run # r
  <2>1. Queued(r)' = Queued(r)
    BY <1>1, <1>2, <1>3, <1>5 DEF Queued
  <2> QED BY <1>5, <2>1
<1> QED BY <1>4, <1>5

\* A worker takes one out: the others move up by a place.
LEMMA QueuedTaken ==
    ASSUME Typed, jobs # <<>>, jobs' = Tail(jobs), NEW r
    PROVE  Cardinality(Queued(r)') =
              IF Head(jobs).run = r THEN Cardinality(Queued(r)) - 1 ELSE Cardinality(Queued(r))
<1>1. /\ jobs' \in Seq(Job) /\ Len(jobs) \in Nat /\ Len(jobs') = Len(jobs) - 1
      /\ 1 \in 1..Len(jobs) /\ Head(jobs) = jobs[1]
      /\ \A k \in 1..Len(jobs') : k + 1 \in 1..Len(jobs) /\ jobs'[k] = jobs[k + 1]
  BY Taken
<1>2. DOMAIN jobs' = 1..Len(jobs') /\ DOMAIN jobs = 1..Len(jobs)
  BY <1>1, LenProperties DEF Typed
<1> DEFINE From == Queued(r)'
           Rest == Queued(r) \ {1}
           up == [k \in From |-> k + 1]
<1>3. From \subseteq 1..Len(jobs') /\ \A k \in From : k \in Nat /\ k >= 1
  BY <1>1, <1>2 DEF Queued
<1>4. \A k \in From : k + 1 \in Rest
  BY <1>1, <1>2, <1>3 DEF Queued
<1>5. \A i \in Rest : i - 1 \in From /\ (i - 1) + 1 = i
  <2> SUFFICES ASSUME NEW i \in Rest
               PROVE  i - 1 \in From /\ (i - 1) + 1 = i
    OBVIOUS
  <2>1. i \in 1..Len(jobs) /\ i # 1 /\ jobs[i].run = r
    BY <1>2 DEF Queued
  <2>2. i - 1 \in 1..Len(jobs') /\ (i - 1) + 1 = i
    BY <1>1, <2>1
  <2>3. jobs'[i - 1].run = r
    BY <1>1, <2>1, <2>2
  <2> QED BY <1>2, <2>2, <2>3 DEF Queued
<1>6. up \in Bijection(From, Rest)
  <2> HIDE DEF From, Rest
  <2>1. up \in [From -> Rest]
    BY <1>4
  <2>2. \A k, l \in From : up[k] = up[l] => k = l
    BY <1>3
  <2>3. \A i \in Rest : \E k \in From : up[k] = i
    BY <1>5
  <2> HIDE DEF up
  <2> QED BY <2>1, <2>2, <2>3 DEF Bijection, Injection, Surjection, IsInjective
<1>7. IsFiniteSet(From)
  <2>1. IsFiniteSet(1..Len(jobs'))
    BY <1>1, FS_Interval
  <2> HIDE DEF From
  <2> QED BY <1>3, <2>1, FS_Subset
<1>8. Cardinality(Rest) = Cardinality(From)
  <2> HIDE DEF From, Rest, up
  <2> QED BY <1>6, <1>7, FS_Bijection DEF ExistsBijection
<1>9. Cardinality(Rest) =
         IF 1 \in Queued(r) THEN Cardinality(Queued(r)) - 1 ELSE Cardinality(Queued(r))
  BY PartsFinite, FS_RemoveElement
<1>10. 1 \in Queued(r) <=> Head(jobs).run = r
  BY <1>1, <1>2 DEF Queued
<1> HIDE DEF Rest
<1> QED BY <1>8, <1>9, <1>10

\* Steps that move no job.
LEMMA NothingMoved ==
    ASSUME UNCHANGED <<jobs, current>>, call'[TickerId] = call[TickerId], NEW r
    PROVE  Unfinished(r)' = Unfinished(r)
  BY DEF Unfinished

LEMMA CountedStep ==
    Typed /\ TickerTyped /\ CallsTyped /\ BatchCounted /\ [TickerNext]_allVars => BatchCounted'
<1> SUFFICES ASSUME Typed, TickerTyped, CallsTyped, BatchCounted, [TickerNext]_allVars,
                    NEW r \in 1..MaxRuns
             PROVE  outstanding'[r] = Unfinished(r)'
  BY DEF BatchCounted
<1> USE TickerAssumption DEF Handlers
<1> DEFINE q == Cardinality(Queued(r))
           b == Cardinality(Working(r))
<1>1. /\ outstanding[r] = q + b + Pending(r)
      /\ q \in Nat /\ b \in Nat /\ Pending(r) \in {0, 1}
      /\ IsFiniteSet(Working(r))
  BY UnfinishedParts, PartsFinite DEF BatchCounted
<1>2. Unfinished(r)' = Cardinality(Queued(r)') + Cardinality(Working(r)') + Pending(r)'
  BY DEF Unfinished, Queued, Working, Pending
<1>3. r \in Nat /\ r # 0 /\ run \in Nat /\ outstanding \in [1..MaxRuns -> Int]
  BY DEF TickerTyped
<1>4. ASSUME UNCHANGED <<jobs, current, outstanding>>, call'[TickerId] = call[TickerId]
      PROVE  outstanding'[r] = Unfinished(r)'
  BY <1>4, NothingMoved DEF BatchCounted
<1>5. CASE RunSubmit
  <2>1. PICK p \in toSubmit : SubmitCheck(TickerId, p, run)
    BY <1>5 DEF RunSubmit
  <2>2. /\ UNCHANGED <<jobs, current>> /\ call[TickerId] = NoJob
        /\ call'[TickerId] = [puuid |-> p, run |-> run, number |-> 0]
    BY <2>1 DEF SubmitCheck, Typed
  <2>3. call'[TickerId] \in Job
    BY <1>3, <2>2 DEF TickerTyped, Job
  <2>4. Queued(r)' = Queued(r) /\ Working(r)' = Working(r) /\ Pending(r) = 0
    BY <2>2 DEF Queued, Working, Pending
  <2>5. Pending(r)' = IF r = run THEN 1 ELSE 0
    BY <2>2, <2>3, NoJobAssumption DEF Pending
  <2>6. outstanding'[r] = IF r = run THEN outstanding[r] + 1 ELSE outstanding[r]
    BY <1>3, <1>5 DEF RunSubmit
  <2> QED BY <1>1, <1>2, <2>4, <2>5, <2>6
<1>6. ASSUME NEW s \in Submitters, SubmitSend(s), UNCHANGED outstanding
      PROVE  outstanding'[r] = Unfinished(r)'
  <2> DEFINE j == [call[s] EXCEPT !.number = accepted + 1]
  <2>1. /\ call[s] \in Job /\ jobs' = Append(jobs, j) /\ UNCHANGED current
        /\ call' = [call EXCEPT ![s] = NoJob] /\ accepted + 1 \in Nat
    BY <1>6 DEF SubmitSend, Typed
  <2>2. j \in Job /\ j.run = call[s].run
    BY <2>1 DEF Job
  <2> HIDE DEF j
  <2>3. Cardinality(Queued(r)') = IF call[s].run = r THEN q + 1 ELSE q
    BY <2>1, <2>2, QueuedSent
  <2>4. Working(r)' = Working(r)
    BY <2>1 DEF Working
  <2>5. CASE s = TickerId
    <3>1. Pending(r)' = 0 /\ Pending(r) = IF call[s].run = r THEN 1 ELSE 0
      BY <1>6, <2>1, <2>5 DEF Pending, SubmitSend, Typed
    <3> QED BY <1>1, <1>2, <1>6, <2>3, <2>4, <3>1
  <2>6. CASE s # TickerId
    <3>1. call[s].run # r
      BY <1>3, <1>6, <2>6 DEF CallsTyped, SubmitSend
    <3>2. Pending(r)' = Pending(r)
      BY <2>1, <2>6 DEF Pending, Typed
    <3> QED BY <1>1, <1>2, <1>6, <2>3, <2>4, <3>1, <3>2
  <2> QED BY <2>5, <2>6
<1>7. CASE RunDropped
  <2>1. /\ call[TickerId] # NoJob /\ call'[TickerId] = NoJob /\ UNCHANGED <<jobs, current>>
    BY <1>7 DEF RunDropped, SubmitFull, Typed
  <2>2. call[TickerId].run = run
    BY <2>1 DEF CallsTyped
  <2>3. Queued(r)' = Queued(r) /\ Working(r)' = Working(r) /\ Pending(r)' = 0
    BY <2>1 DEF Queued, Working, Pending
  <2>4. Pending(r) = IF r = run THEN 1 ELSE 0
    BY <2>1, <2>2 DEF Pending
  <2>5. outstanding'[r] = IF r = run THEN outstanding[r] - 1 ELSE outstanding[r]
    BY <1>3, <1>7 DEF RunDropped
  <2> QED BY <1>1, <1>2, <2>3, <2>4, <2>5
<1>8. ASSUME NEW w \in Workers, WorkerTake(w), UNCHANGED outstanding
      PROVE  outstanding'[r] = Unfinished(r)'
  <2>1. /\ current[w] = NoJob /\ jobs # <<>> /\ jobs' = Tail(jobs) /\ UNCHANGED call
        /\ current' = [current EXCEPT ![w] = Head(jobs)]
    BY <1>8 DEF WorkerTake, Typed
  <2>2. Head(jobs) \in Job
    BY <2>1 DEF Typed
  <2>3. Cardinality(Queued(r)') = IF Head(jobs).run = r THEN q - 1 ELSE q
    BY <2>1, QueuedTaken
  <2>4. Pending(r)' = Pending(r)
    BY <2>1 DEF Pending
  <2>5. CASE Head(jobs).run = r
    <3>1. Working(r)' = Working(r) \cup {w} /\ w \notin Working(r)
      BY <2>1, <2>2, <2>5, NoJobAssumption DEF Working, Typed
    <3>2. Cardinality(Working(r)') = b + 1
      BY <1>1, <3>1, FS_AddElement
    <3> QED BY <1>1, <1>2, <1>8, <2>3, <2>4, <2>5, <3>2
  <2>6. CASE Head(jobs).run # r
    <3>1. Working(r)' = Working(r)
      BY <2>1, <2>6 DEF Working, Typed
    <3> QED BY <1>1, <1>2, <1>8, <2>3, <2>4, <2>6, <3>1
  <2> QED BY <2>5, <2>6
<1>9. ASSUME NEW w \in Workers, Finish(w)
      PROVE  outstanding'[r] = Unfinished(r)'
  <2>1. /\ current[w] # NoJob /\ UNCHANGED <<jobs, call>>
        /\ current' = [current EXCEPT ![w] = NoJob]
    BY <1>9 DEF Finish, WorkerFinish, Typed
  <2>2. Queued(r)' = Queued(r) /\ Pending(r)' = Pending(r)
    BY <2>1 DEF Queued, Pending
  <2>3. CASE current[w].run = r
    <3>1. Working(r)' = Working(r) \ {w} /\ w \in Working(r)
      BY <2>1, <2>3 DEF Working, Typed
    <3>2. Cardinality(Working(r)') = b - 1
      BY <1>1, <3>1, FS_RemoveElement
    <3>3. outstanding'[r] = outstanding[r] - 1
      BY <1>3, <1>9, <2>3 DEF Finish
    <3> QED BY <1>1, <1>2, <2>2, <3>2, <3>3
  <2>4. CASE current[w].run # r
    <3>1. Working(r)' = Working(r)
      BY <2>1, <2>4 DEF Working, Typed
    <3>2. outstanding'[r] = outstanding[r]
      BY <1>3, <1>9, <2>4 DEF Finish
    <3> QED BY <1>1, <1>2, <2>2, <3>1, <3>2
  <2> QED BY <2>3, <2>4
<1>10. ASSUME NEW s \in Handlers, Enqueue(s), UNCHANGED outstanding
       PROVE  outstanding'[r] = Unfinished(r)'
  <2>1. CASE SubmitSend(s)
    BY <1>6, <1>10, <2>1
  <2>2. ASSUME ~SubmitSend(s)
        PROVE  UNCHANGED <<jobs, current>> /\ call'[TickerId] = call[TickerId]
    BY <1>10, <2>2
    DEF Enqueue, SubmitCheck, SubmitClosed, SubmitFull, Typed, runnerVars
  <2> QED BY <1>4, <1>10, <2>1, <2>2
<1>11. ASSUME NEW w \in Workers, WorkerStep(w), UNCHANGED outstanding
       PROVE  outstanding'[r] = Unfinished(r)'
  BY <1>4, <1>8, <1>11 DEF WorkerStep, WorkerCheck, WorkerExit
<1>12. CASE PoolStep
  BY <1>9, <1>11, <1>12 DEF PoolStep, tickerVars
<1>13. CASE RunSubmitted
  BY <1>6, <1>13 DEF RunSubmitted, tickerVars
<1>14. CASE ((\E s \in Handlers : Enqueue(s)) \/ ShutdownBegin \/ ShutdownStep)
            /\ UNCHANGED tickerVars
  BY <1>4, <1>10, <1>14
  DEF ShutdownBegin, ShutdownStep, ShutdownTimeout, ShutdownReturn, tickerVars
<1>15. CASE TickFires \/ RunBegin \/ RunNothing \/ RunList \/ RunSubmitClosed \/ RunWait
            \/ RunEnd \/ DropPendingTick \/ TickerExit \/ StopTicker
  BY <1>4, <1>15
  DEF TickFires, RunBegin, RunNothing, RunList, RunSubmitClosed, SubmitClosed, RunWait,
      RunEnd, DropPendingTick, TickerExit, StopTicker, runnerVars
<1>16. CASE UNCHANGED allVars
  BY <1>4, <1>16 DEF allVars, runnerVars, tickerVars
<1> QED
  BY <1>5, <1>7, <1>12, <1>13, <1>14, <1>15, <1>16
  DEF TickerNext, TickerStep

-----------------------------------------------------------------------------
(* Runs follow one another.                                                   *)

\* No job of a run that has not begun, and none of a run that is over unless the
\* loop has left waitBatch because of stop.
OneAtATime ==
    \A r \in 1..MaxRuns :
        /\ r > run => outstanding[r] = 0
        /\ stop = FALSE =>
              (r < run \/ (r = run /\ ticker \notin {"submitting", "waiting"})
               => outstanding[r] = 0)

\* A WaitGroup at zero moves only when runOnce submits a job of its own run: a
\* worker or a refused Submit can only take off what BatchCounted says is there.
LEMMA StaysZero ==
    ASSUME Typed, TickerTyped, CallsTyped, BatchCounted, [TickerNext]_allVars,
           NEW r \in 1..MaxRuns, outstanding[r] = 0, RunSubmit => r # run
    PROVE  outstanding'[r] = 0
<1> USE TickerAssumption
<1>1. /\ Cardinality(Queued(r)) = 0 /\ Cardinality(Working(r)) = 0 /\ Pending(r) = 0
      /\ IsFiniteSet(Working(r))
  <2>1. /\ outstanding[r] = Cardinality(Queued(r)) + Cardinality(Working(r)) + Pending(r)
        /\ Cardinality(Queued(r)) \in Nat /\ Cardinality(Working(r)) \in Nat
        /\ Pending(r) \in {0, 1} /\ IsFiniteSet(Working(r))
    BY UnfinishedParts, PartsFinite DEF BatchCounted
  <2> QED BY <2>1
<1>2. r \in Nat /\ run \in Nat /\ outstanding \in [1..MaxRuns -> Int]
  BY DEF TickerTyped
<1>3. CASE RunSubmit
  BY <1>2, <1>3 DEF RunSubmit
<1>4. CASE RunDropped
  <2>1. run # r
    <3>1. call[TickerId] # NoJob /\ call[TickerId].run = run
      BY <1>4 DEF RunDropped, SubmitFull, CallsTyped
    <3> QED BY <1>1, <3>1 DEF Pending
  <2> QED BY <1>2, <1>4, <2>1 DEF RunDropped
<1>5. ASSUME NEW w \in Workers, Finish(w)
      PROVE  outstanding'[r] = 0
  <2>1. Working(r) = {}
    BY <1>1, FS_EmptySet
  <2>2. current[w].run # r
    BY <1>5, <2>1 DEF Finish, WorkerFinish, Typed, Working
  <2> QED BY <1>2, <1>5, <2>2 DEF Finish
<1>6. CASE UNCHANGED outstanding
  BY <1>6
<1> QED
  BY <1>3, <1>4, <1>5, <1>6
  DEF TickerNext, TickerStep, PoolStep, TickFires, RunBegin, RunNothing, RunList,
      RunSubmitClosed, RunSubmitted, RunWait, RunEnd, DropPendingTick, TickerExit,
      StopTicker, allVars, tickerVars

LEMMA LoopMoves ==
    ASSUME Typed, TickerTyped, [TickerNext]_allVars
    PROVE  \/ UNCHANGED <<run, ticker, stop>>
           \/ RunBegin
           \/ RunEnd
           \/ run' = run /\ stop' = stop
              /\ (ticker \in {"submitting", "waiting"} => ticker' \in {"submitting", "waiting"})
           \/ run' = run /\ stop' = TRUE /\ ticker' = ticker
  BY DEF TickerNext, TickerStep, PoolStep, Finish, TickFires, RunNothing, RunList, RunSubmit,
      RunSubmitClosed, RunSubmitted, RunDropped, RunWait, DropPendingTick, TickerExit,
      StopTicker, allVars, tickerVars

LEMMA OneAtATimeStep ==
    Typed /\ TickerTyped /\ CallsTyped /\ BatchCounted /\ OneAtATime /\ [TickerNext]_allVars
    => OneAtATime'
<1> SUFFICES ASSUME Typed, TickerTyped, CallsTyped, BatchCounted, OneAtATime,
                    [TickerNext]_allVars, NEW r \in 1..MaxRuns
             PROVE  /\ r > run' => outstanding'[r] = 0
                    /\ stop' = FALSE =>
                          (r < run' \/ (r = run' /\ ticker' \notin {"submitting", "waiting"})
                           => outstanding'[r] = 0)
  BY DEF OneAtATime
<1> USE TickerAssumption
<1>1. r \in Nat /\ run \in Nat
  BY DEF TickerTyped
<1>2. /\ r > run => outstanding[r] = 0
      /\ stop = FALSE =>
            (r < run \/ (r = run /\ ticker \notin {"submitting", "waiting"})
             => outstanding[r] = 0)
  BY DEF OneAtATime
<1>3. CASE RunSubmit
  <2>1. run' = run /\ ticker' = "submitting" /\ stop' = stop
    BY <1>3 DEF RunSubmit
  <2>2. r # run /\ outstanding[r] = 0 => outstanding'[r] = 0
    BY StaysZero
  <2> QED BY <1>1, <1>2, <2>1, <2>2
<1>4. CASE ~RunSubmit
  <2>1. outstanding[r] = 0 => outstanding'[r] = 0
    BY <1>4, StaysZero
  <2>2. CASE RunBegin
    <3>1. run' = run + 1 /\ stop' = stop /\ ticker = "select"
      BY <2>2 DEF RunBegin
    <3> QED BY <1>1, <1>2, <2>1, <3>1
  <2>3. CASE RunEnd
    <3>1. run' = run /\ stop' = stop /\ (outstanding[run] = 0 \/ stop)
      BY <2>3 DEF RunEnd
    <3>2. outstanding[run] = 0 \/ stop = TRUE
      BY <3>1 DEF TickerTyped
    <3> QED BY <1>1, <1>2, <2>1, <3>1, <3>2
  <2>4. CASE UNCHANGED <<run, ticker, stop>>
    BY <1>2, <2>1, <2>4
  <2>5. CASE run' = run /\ stop' = stop
             /\ (ticker \in {"submitting", "waiting"} => ticker' \in {"submitting", "waiting"})
    BY <1>2, <2>1, <2>5
  <2>6. CASE run' = run /\ stop' = TRUE /\ ticker' = ticker
    BY <1>2, <2>1, <2>6
  <2> QED BY <2>2, <2>3, <2>4, <2>5, <2>6, LoopMoves
<1> QED BY <1>3, <1>4

-----------------------------------------------------------------------------
(* The whole invariant and the theorems.                                      *)

TickerInv ==
    /\ Inv
    /\ TickerTyped /\ CallsTyped /\ BatchCounted /\ OneAtATime

LEMMA TickerInvStart == TickerStart => TickerInv
<1> SUFFICES ASSUME TickerStart
             PROVE  TickerInv
  OBVIOUS
<1> USE TickerAssumption
<1>1. Inv
  BY InvInit DEF TickerStart
<1>2. TickerTyped
  <2>1. tick = FALSE /\ stop = FALSE /\ fresh = FALSE /\ ticker \in {"select", "off"}
    BY Zenon DEF TickerStart
  <2>2. run \in 0..MaxRuns /\ outstanding \in [1..MaxRuns -> Int]
    BY DEF TickerStart
  <2>3. toSubmit \subseteq Puuids
    BY Zenon DEF TickerStart
  <2> QED BY <2>1, <2>2, <2>3 DEF TickerTyped
<1>3. CallsTyped
  BY DEF TickerStart, RunnerInit, CallsTyped, Handlers
<1>4. OneAtATime
  BY DEF TickerStart, OneAtATime
<1>5. BatchCounted
  <2> SUFFICES ASSUME NEW r \in 1..MaxRuns
               PROVE  outstanding[r] = Unfinished(r)
    BY DEF BatchCounted
  <2>1. Queued(r) = {}
    BY DEF TickerStart, RunnerInit, Queued
  <2>2. Working(r) = {} /\ Pending(r) = 0
    BY DEF TickerStart, RunnerInit, Working, Pending
  <2>3. Cardinality(Queued(r)) = 0 /\ Cardinality(Working(r)) = 0
    BY <2>1, <2>2, FS_EmptySet
  <2>4. outstanding[r] = 0
    BY DEF TickerStart
  <2>5. Unfinished(r) = Cardinality(Queued(r)) + Cardinality(Working(r)) + Pending(r)
    BY UnfinishedParts
  <2> QED BY <2>2, <2>3, <2>4, <2>5
<1> QED BY <1>1, <1>2, <1>3, <1>4, <1>5 DEF TickerInv

LEMMA TickerInvStep == TickerInv /\ [TickerNext]_allVars => TickerInv'
<1> SUFFICES ASSUME TickerInv, [TickerNext]_allVars
             PROVE  TickerInv'
  OBVIOUS
<1>1. Inv'
  BY TickerMoves, InvMove DEF TickerInv, Inv
<1>2. TickerTyped' /\ CallsTyped' /\ BatchCounted' /\ OneAtATime'
  BY TickerTypedStep, CallsTypedStep, CountedStep, OneAtATimeStep DEF TickerInv, Inv
<1> QED BY <1>1, <1>2 DEF TickerInv

LEMMA TickerInvImplies == TickerInv => TickerTypeOK /\ RunsDoNotOverlap
<1> SUFFICES ASSUME TickerInv
             PROVE  TickerTypeOK /\ RunsDoNotOverlap
  OBVIOUS
<1>1. RunnerTypeOK
  BY TypedImplies DEF TickerInv, Inv
<1>2. \A r \in 1..MaxRuns : outstanding[r] \in Nat
  <2> SUFFICES ASSUME NEW r \in 1..MaxRuns
               PROVE  outstanding[r] \in Nat
    OBVIOUS
  <2>1. outstanding[r] = Cardinality(Queued(r)) + Cardinality(Working(r)) + Pending(r)
    BY UnfinishedParts DEF TickerInv, BatchCounted
  <2>2. /\ Cardinality(Queued(r)) \in Nat /\ Cardinality(Working(r)) \in Nat
        /\ Pending(r) \in {0, 1}
    BY PartsFinite DEF TickerInv, Inv
  <2> QED BY <2>1, <2>2
<1>3. TickerTypeOK
  BY <1>1, <1>2 DEF TickerInv, TickerTyped, TickerTypeOK
<1>4. RunsDoNotOverlap
  BY DEF TickerInv, TickerTyped, BatchCounted, OneAtATime, RunsDoNotOverlap
<1> QED BY <1>3, <1>4

LEMMA TickerInvAlways == TickerSpec => []TickerInv
<1>1. TickerInit => TickerInv
  BY TickerInvStart DEF TickerInit, TickerStart
<1> QED BY <1>1, TickerInvStep, PTL DEF TickerSpec

\* Types of the ticker and of the pool below it; no WaitGroup goes below zero,
\* which would panic.
THEOREM TickerTypeCorrect == TickerSpec => []TickerTypeOK
  BY TickerInvAlways, TickerInvImplies, PTL

\* A run's WaitGroup counts its unfinished jobs, whatever the workers, the
\* handlers, Shutdown and Stop do meanwhile: done is called once per accepted job
\* (run's defer) and once per refused one (runOnce).
THEOREM BatchesCounted == TickerSpec => []BatchCounted
<1>1. TickerInv => BatchCounted
  BY DEF TickerInv
<1> QED BY <1>1, TickerInvAlways, PTL

\* Until Stop, no job of an earlier run is left when the next run has begun.
THEOREM RunsFollowOneAnother == TickerSpec => []RunsDoNotOverlap
  BY TickerInvAlways, TickerInvImplies, PTL

\* A tick that the loop can read came while no run was going on.
TickFresh == tick = TRUE /\ ticker = "select" => fresh = TRUE

\* A tick that came during a run is skipped: no step of the loop, of the pool or
\* of Stop lets a run start from it.
THEOREM TicksNotQueued == TickerSpec => NoQueuedTick
<1>1. TickerInit => TickFresh
  BY DEF TickerInit, TickFresh
<1>2. TickFresh /\ [TickerNext]_allVars => TickFresh'
  <2> SUFFICES ASSUME TickFresh, [TickerNext]_allVars
               PROVE  TickFresh'
    OBVIOUS
  <2>1. CASE TickFires
    BY <2>1, Zenon DEF TickFires, TickFresh
  <2>2. CASE DropPendingTick \/ RunBegin
    BY <2>2, Zenon DEF DropPendingTick, RunBegin, TickFresh
  <2>3. CASE UNCHANGED <<tick, fresh>> /\ (ticker' = ticker \/ ticker' # "select")
    BY <2>3 DEF TickFresh
  <2> QED
    BY <2>1, <2>2, <2>3
    DEF TickerNext, TickerStep, PoolStep, Finish, RunNothing, RunList, RunSubmit,
        RunSubmitClosed, RunSubmitted, RunDropped, RunWait, RunEnd, TickerExit, StopTicker,
        allVars, tickerVars
<1>3. TickerInv /\ TickFresh /\ [TickerNext]_allVars => [run' # run => fresh]_allVars
  <2> SUFFICES ASSUME TickerInv, TickFresh, [TickerNext]_allVars, run' # run
               PROVE  fresh = TRUE
    BY DEF TickerInv, TickerTyped
  <2>1. RunBegin
    BY DEF TickerNext, TickerStep, PoolStep, Finish, TickFires, RunNothing, RunList, RunSubmit,
      RunSubmitClosed, RunSubmitted, RunDropped, RunWait, RunEnd, DropPendingTick, TickerExit,
      StopTicker, allVars, tickerVars
  <2>2. tick = TRUE /\ ticker = "select"
    BY <2>1 DEF RunBegin, TickerInv, TickerTyped
  <2> QED BY <2>2 DEF TickFresh
<1> QED BY <1>1, <1>2, <1>3, TickerInvAlways, PTL DEF TickerSpec, NoQueuedTick

-----------------------------------------------------------------------------
(* The process: requests, the ticker, the pool and the order of the deferred  *)
(* calls.                                                                     *)

\* Every step of the process is a step of the ticker's module or leaves it alone.
LEMMA ServerMoves ==
    ASSUME [ServerNext]_systemVars
    PROVE  [TickerNext]_allVars
<1>1. ASSUME NEW s \in Handlers, RequestEnqueues(s)
      PROVE  TickerNext
  BY <1>1 DEF RequestEnqueues, TickerNext
<1>2. CASE TickerStop \/ RunnerStop \/ RunnerStops
  BY <1>2 DEF TickerStop, RunnerStop, RunnerStops, TickerNext
<1>3. CASE (TickFires \/ TickerStep \/ PoolStep) /\ UNCHANGED serverVars
  BY <1>3 DEF TickerNext
<1>4. CASE UNCHANGED allVars
  BY <1>4
<1> QED
  BY <1>1, <1>2, <1>3, <1>4
  DEF ServerNext, systemVars, RequestArrives, RequestEnds, Signal, ListenFails, MainStep,
      Drained, DrainTimeout, TickerStopped, Close

\* What main knows of the loop and of the pool at each of its places.
Ordered ==
    /\ phase \in Phases /\ handling \subseteq Handlers /\ drained \in BOOLEAN
    /\ phase \in {"stopRunner", "runnerWait", "closed"} => ticker \in {"exited", "off"}
    /\ phase = "closed" => shutdown = "returned"
    /\ quit = TRUE => phase \in {"runnerWait", "closed"}

\* A job between the two selects of Enqueue belongs to a request; a drained
\* server has none.
Drains ==
    /\ \A s \in Handlers : call[s] # NoJob => s \in handling
    /\ drained = TRUE => handling = {} /\ phase \notin {"serving", "draining"}

ServerInv == TickerInv /\ Ordered /\ Drains

LEMMA OrderedStep == TickerInv /\ Ordered /\ [ServerNext]_systemVars => Ordered'
<1> SUFFICES ASSUME TickerInv, Ordered, [ServerNext]_systemVars
             PROVE  Ordered'
  OBVIOUS
<1> USE DEF Ordered, Phases, GoTo
<1>1. quit \in BOOLEAN
  BY DEF TickerInv, Inv, Typed
<1>2. ASSUME NEW s \in Handlers, RequestArrives(s) \/ RequestEnds(s)
      PROVE  Ordered'
  BY <1>2 DEF RequestArrives, RequestEnds, allVars, runnerVars, tickerVars
<1>3. ASSUME NEW s \in Handlers, RequestEnqueues(s)
      PROVE  Ordered'
  <2>1. UNCHANGED <<quit, shutdown>>
    BY <1>3 DEF RequestEnqueues, Enqueue, SubmitCheck, SubmitClosed, SubmitSend, SubmitFull, runnerVars
  <2> QED BY <1>3, <2>1 DEF RequestEnqueues, tickerVars, serverVars
<1>4. CASE Signal \/ ListenFails \/ Drained \/ DrainTimeout
  BY <1>4 DEF Signal, ListenFails, Drained, DrainTimeout, allVars, runnerVars, tickerVars
<1>5. CASE TickerStop
  BY <1>5 DEF TickerStop, StopTicker, allVars, runnerVars, tickerVars
<1>6. CASE TickerStopped \/ Close
  BY <1>6 DEF TickerStopped, Close, allVars, runnerVars, tickerVars
<1>7. CASE RunnerStop
  BY <1>7 DEF RunnerStop, ShutdownBegin, tickerVars
<1>8. CASE RunnerStops
  BY <1>8 DEF RunnerStops, ShutdownStep, ShutdownTimeout, ShutdownReturn, tickerVars, serverVars
<1>9. CASE (TickFires \/ TickerStep \/ PoolStep) /\ UNCHANGED serverVars
  <2>1. UNCHANGED <<quit, shutdown>>
    BY <1>9
    DEF TickFires, TickerStep, PoolStep, RunBegin, RunNothing, RunList, RunSubmit, RunSubmitClosed,
        RunSubmitted, RunDropped, RunWait, RunEnd, DropPendingTick, TickerExit, SubmitCheck,
        SubmitClosed, SubmitSend, SubmitFull, Finish, WorkerStep, WorkerCheck, WorkerExit,
        WorkerTake, WorkerFinish, runnerVars
  <2>2. ticker \in {"exited", "off"} => ticker' = ticker
    BY <1>9
    DEF TickFires, TickerStep, PoolStep, RunBegin, RunNothing, RunList, RunSubmit, RunSubmitClosed,
        RunSubmitted, RunDropped, RunWait, RunEnd, DropPendingTick, TickerExit, Finish, tickerVars
  <2> QED BY <1>9, <2>1, <2>2 DEF serverVars
<1>10. CASE UNCHANGED systemVars
  BY <1>10 DEF systemVars, serverVars, allVars, runnerVars, tickerVars
<1> QED
  BY <1>2, <1>3, <1>4, <1>5, <1>6, <1>7, <1>8, <1>9, <1>10 DEF ServerNext, MainStep

LEMMA DrainsStep == TickerInv /\ Ordered /\ Drains /\ [ServerNext]_systemVars => Drains'
<1> SUFFICES ASSUME TickerInv, Ordered, Drains, [ServerNext]_systemVars
             PROVE  Drains'
  OBVIOUS
<1> USE TickerAssumption DEF Drains, GoTo
<1>1. call \in [Submitters -> Job \cup {NoJob}] /\ Handlers = Submitters \ {TickerId}
  BY DEF TickerInv, Inv, Typed, Handlers
<1>2. ASSUME NEW s \in Handlers, RequestArrives(s)
      PROVE  Drains'
  BY <1>2 DEF RequestArrives, allVars, runnerVars
<1>3. ASSUME NEW s \in Handlers, RequestEnds(s)
      PROVE  Drains'
  BY <1>3 DEF RequestEnds, allVars, runnerVars
<1>4. ASSUME NEW s \in Handlers, RequestEnqueues(s)
      PROVE  Drains'
  <2>1. \A t \in Handlers : t # s => call'[t] = call[t]
    BY <1>1, <1>4
    DEF RequestEnqueues, Enqueue, SubmitCheck, SubmitClosed, SubmitSend, SubmitFull, runnerVars
  <2> QED BY <1>4, <2>1 DEF RequestEnqueues, serverVars
<1>5. CASE Signal \/ ListenFails \/ Drained \/ DrainTimeout \/ TickerStopped \/ Close
  BY <1>5 DEF Signal, ListenFails, Drained, DrainTimeout, TickerStopped, Close, allVars, runnerVars
<1>6. CASE TickerStop
  BY <1>6 DEF TickerStop, StopTicker, allVars, runnerVars
<1>7. CASE RunnerStop \/ RunnerStops
  BY <1>7
  DEF RunnerStop, RunnerStops, ShutdownBegin, ShutdownStep, ShutdownTimeout, ShutdownReturn,
      serverVars
<1>8. CASE (TickFires \/ TickerStep \/ PoolStep) /\ UNCHANGED serverVars
  <2>1. \A t \in Handlers : call'[t] = call[t]
    BY <1>1, <1>8
    DEF TickFires, TickerStep, PoolStep, RunBegin, RunNothing, RunList, RunSubmit, RunSubmitClosed,
        RunSubmitted, RunDropped, RunWait, RunEnd, DropPendingTick, TickerExit, SubmitCheck,
        SubmitClosed, SubmitSend, SubmitFull, Finish, WorkerStep, WorkerCheck, WorkerExit,
        WorkerTake, WorkerFinish, runnerVars
  <2> QED BY <1>8, <2>1 DEF serverVars
<1>9. CASE UNCHANGED systemVars
  BY <1>9 DEF systemVars, serverVars, allVars, runnerVars
<1> QED
  BY <1>2, <1>3, <1>4, <1>5, <1>6, <1>7, <1>8, <1>9 DEF ServerNext, MainStep

LEMMA ServerInvInit == ServerInit => ServerInv
<1> SUFFICES ASSUME ServerInit
             PROVE  ServerInv
  OBVIOUS
<1>1. TickerStart
  BY DEF ServerInit, TickerInit, TickerStart
<1>2. RunnerInit /\ phase = "serving" /\ handling = {} /\ drained = FALSE
  BY <1>1, Zenon DEF ServerInit, TickerStart
<1>3. quit = FALSE /\ \A s \in Handlers : call[s] = NoJob
  BY <1>2 DEF RunnerInit, Handlers
<1> QED BY <1>1, <1>2, <1>3, TickerInvStart DEF ServerInv, Ordered, Drains, Phases

LEMMA ServerInvAlways == ServerSpec => []ServerInv
<1>1. ServerInv /\ [ServerNext]_systemVars => ServerInv'
  BY ServerMoves, TickerInvStep, OrderedStep, DrainsStep DEF ServerInv
<1> QED BY <1>1, ServerInvInit, PTL DEF ServerSpec

-----------------------------------------------------------------------------

\* Types of the whole process, on every path through run().
THEOREM ServerTypeCorrect == ServerSpec => []ServerTypeOK
<1>1. ServerInv => ServerTypeOK
  BY TickerInvImplies DEF ServerInv, Ordered, ServerTypeOK
<1> QED BY <1>1, ServerInvAlways, PTL

\* The deferred calls of run(): when cache and database pool are closed, no
\* worker and no ticker is left, whether run() ended by a signal, by a failed
\* ListenAndServe or by a server.Shutdown that gave up.
THEOREM ClosesLast == ServerSpec => []PoolClosedLast
<1>1. ServerInv => PoolClosedLast
  BY DEF ServerInv, Ordered, TickerInv, Inv, NoneOutlivesShutdown, PoolClosedLast
<1> QED BY <1>1, ServerInvAlways, PTL

\* Once server.Shutdown has returned nil, nothing is sent to a pool whose quit
\* is closed: the two selects of Submit are apart, but no sender is left.
THEOREM NoneAcceptedLate == ServerSpec => NothingAcceptedLate
<1>1. ServerInv /\ [ServerNext]_systemVars => [quit /\ accepted' # accepted => ~drained]_systemVars
  <2> SUFFICES ASSUME ServerInv, [ServerNext]_systemVars, quit = TRUE, drained = TRUE
               PROVE  accepted' = accepted
    BY DEF ServerInv, Ordered, TickerInv, Inv, Typed
  <2>1. call[TickerId] = NoJob
    BY DEF ServerInv, Ordered, TickerInv, CallsTyped
  <2>2. \A s \in Handlers : call[s] = NoJob /\ s \notin handling
    BY DEF ServerInv, Drains
  <2> QED
    BY <2>1, <2>2
    DEF ServerNext, MainStep, RequestArrives, RequestEnqueues, RequestEnds, Signal, ListenFails,
        Drained, DrainTimeout, TickerStop, TickerStopped, RunnerStop, RunnerStops, Close,
        StopTicker, ShutdownBegin, ShutdownStep, ShutdownTimeout, ShutdownReturn,
        TickFires, TickerStep, PoolStep, RunBegin, RunNothing, RunList, RunSubmit, RunSubmitClosed,
        RunSubmitted, RunDropped, RunWait, RunEnd, DropPendingTick, TickerExit, SubmitCheck,
        SubmitClosed, SubmitSend, SubmitFull, Finish, WorkerStep, WorkerCheck, WorkerExit,
        WorkerTake, WorkerFinish, systemVars, allVars, runnerVars, history
<1> QED BY <1>1, ServerInvAlways, PTL DEF ServerSpec, NothingAcceptedLate

\* The pool keeps its promise inside the process too, with the ticker and the
\* handlers as its callers and run() as the one that shuts it down.
THEOREM ServerImplementsPool == ServerSpec => KeepsPromise
<1>1. ServerInv => Inv
  BY DEF ServerInv, TickerInv
<1>2. ServerInit => Pool!Init
  BY MovesStart DEF ServerInit, TickerInit
<1>3. ServerInv /\ [ServerNext]_systemVars => [Pool!Next]_(Pool!poolVars)
  BY ServerMoves, TickerMoves, MoveRefines DEF ServerInv, TickerInv, Inv
<1> QED BY <1>2, <1>3, ServerInvAlways, PTL DEF ServerSpec, KeepsPromise, Pool!Spec

\* Inside the process, too, no accepted job is lost or run twice, and a worker
\* takes at most one after quit is closed.
THEOREM ServerKeepsJobs == ServerSpec => [](JobsAccounted /\ LateAtMostOne)
<1>1. ServerInv => JobsAccounted /\ LateAtMostOne
  BY Accounted DEF ServerInv, TickerInv, Inv, LateOnce, LateAtMostOne
<1> QED BY <1>1, ServerInvAlways, PTL

\* Inside the process, too, each worker is a bounded number of steps from its exit
\* once stopRunner has closed quit, though handlers that server.Shutdown has given
\* up on may still submit jobs.
THEOREM ServerWindsDown == ServerSpec => WindsDown
<1>1. ServerInv /\ [ServerNext]_systemVars =>
        [quit => \A w \in Workers :
           worker'[w] = worker[w] \/ Remaining(worker'[w]) < Remaining(worker[w])]_runnerVars
  <2> SUFFICES ASSUME ServerInv, [ServerNext]_systemVars, quit, NEW w \in Workers
               PROVE  worker'[w] = worker[w] \/ Remaining(worker'[w]) < Remaining(worker[w])
    OBVIOUS
  <2>1. Typed /\ [RunnerMove]_runnerVars
    BY ServerMoves, TickerMoves DEF ServerInv, TickerInv, Inv
  <2> QED BY <2>1, WindDownStep
<1> QED BY <1>1, ServerInvAlways, PTL DEF ServerSpec, WindsDown

\* While the loop waits for its batch, each job it waits for is with a worker or
\* in the channel, and all workers are there to take it: the pool is not shut down
\* before the ticker has ended (what RunEnds needs besides fairness).
RunAttended ==
    ticker = "waiting" =>
        /\ ~quit /\ ~cancelled /\ \A w \in Workers : worker[w] # "exited"
        /\ outstanding[run] = 0 \/ Working(run) # {} \/ Queued(run) # {}

\* waitBatch never waits for a job that nobody can take up: runOnce has called done
\* for the refused ones itself, and main stops the ticker before the pool.
THEOREM RunsAttended == ServerSpec => []RunAttended
<1>1. ASSUME ServerInv, ticker = "waiting"
      PROVE  /\ ~quit /\ ~cancelled /\ \A w \in Workers : worker[w] # "exited"
             /\ outstanding[run] = 0 \/ Working(run) # {} \/ Queued(run) # {}
  <2>1. TickerInv /\ Ordered /\ Typed /\ ClosedFirst
    BY <1>1 DEF ServerInv, TickerInv, Inv
  <2>2. quit = FALSE
    BY <1>1, <2>1 DEF Ordered, Typed
  <2>3. cancelled = FALSE /\ \A w \in Workers : worker[w] # "exited"
    BY <2>1, <2>2 DEF ClosedFirst, Typed
  <2>4. run \in 1..MaxRuns /\ call[TickerId] = NoJob
    BY <1>1, <2>1 DEF TickerInv, TickerTyped, CallsTyped
  <2>5. outstanding[run] = Cardinality(Queued(run)) + Cardinality(Working(run)) + Pending(run)
    BY <2>1, <2>4, UnfinishedParts DEF TickerInv, BatchCounted
  <2>6. Pending(run) = 0
    BY <2>4 DEF Pending
  <2>7. Working(run) = {} /\ Queued(run) = {} => outstanding[run] = 0
    BY <2>5, <2>6, FS_EmptySet
  <2> QED BY <2>2, <2>3, <2>7
<1>2. ServerInv => RunAttended
  BY <1>1 DEF RunAttended
<1> QED BY <1>2, ServerInvAlways, PTL

\* A job is cut short only when the loop of the ticker has ended and quit is closed,
\* and, if server.Shutdown has returned nil, when no request is left and nobody is
\* in the middle of Submit.  (After a failed ListenAndServe or a drain that ran out
\* of time requests go on meanwhile.)
CutShortLast ==
    cancelled =>
        /\ phase \in {"runnerWait", "closed"}
        /\ ticker \in {"exited", "off"}
        /\ quit
        /\ drained => handling = {} /\ \A s \in Submitters : call[s] = NoJob

\* The pool cancels the context of its jobs only in Shutdown, which main calls when
\* it has waited for everybody else it waits for: on each path for the ticker, and
\* on the one of a complete drain for the requests.
THEOREM JobsCutShortLast == ServerSpec => []CutShortLast
<1>1. ASSUME ServerInv, cancelled
      PROVE  /\ phase \in {"runnerWait", "closed"} /\ ticker \in {"exited", "off"} /\ quit
             /\ drained => handling = {} /\ \A s \in Submitters : call[s] = NoJob
  <2>1. /\ phase \in {"runnerWait", "closed"} /\ ticker \in {"exited", "off"} /\ quit = TRUE
    BY <1>1 DEF ServerInv, TickerInv, Inv, Typed, ClosedFirst, Ordered
  <2>2. call[TickerId] = NoJob
    BY <1>1, <2>1 DEF ServerInv, TickerInv, TickerTyped, CallsTyped
  <2>3. drained = TRUE => handling = {} /\ \A s \in Handlers : call[s] = NoJob
    BY <1>1 DEF ServerInv, Drains
  <2> QED BY <2>1, <2>2, <2>3 DEF Handlers
<1>2. ServerInv => CutShortLast
  BY <1>1 DEF CutShortLast
<1> QED BY <1>2, ServerInvAlways, PTL

\* When the database pool is closed, every accepted job is over or was never
\* begun, and a WaitGroup is short of the jobs of the second kind alone.
NoneHalfDone ==
    phase = "closed" =>
        /\ finished \cup Waiting = 1..accepted /\ finished \cap Waiting = {}
        /\ \A r \in 1..MaxRuns : outstanding[r] = Cardinality(Queued(r))

\* No synchronisation is under way when the database pool is closed, after a
\* Shutdown that ran out of time too.
THEOREM NothingHalfDone == ServerSpec => []NoneHalfDone
<1>1. ASSUME ServerInv, phase = "closed"
      PROVE  /\ finished \cup Waiting = 1..accepted /\ finished \cap Waiting = {}
             /\ \A r \in 1..MaxRuns : outstanding[r] = Cardinality(Queued(r))
  <2>1. /\ TickerInv /\ Ordered /\ Typed /\ Numbered /\ JobsAccounted
        /\ NoneOutlivesShutdown
    BY <1>1, Accounted DEF ServerInv, TickerInv, Inv
  <2>2. \A w \in Workers : worker[w] = "exited"
    BY <1>1, <2>1 DEF Ordered, NoneOutlivesShutdown, Exited
  <2>3. \A w \in Workers : worker[w] # "running" /\ current[w] = NoJob
    BY <2>1, <2>2 DEF Typed
  <2>4. Held = {}
    BY <2>3 DEF Held
  <2>5. finished \cup Waiting = 1..accepted
    BY <2>1, <2>4 DEF JobsAccounted
  <2>6. finished \cap Waiting = {}
    <3> SUFFICES ASSUME NEW n \in finished, n \in Waiting
                 PROVE  FALSE
      OBVIOUS
    <3>1. n \in 1..accepted /\ n < n
      BY <2>1, <2>5 DEF JobsAccounted
    <3> QED BY <3>1
  <2>7. ASSUME NEW r \in 1..MaxRuns
        PROVE  outstanding[r] = Cardinality(Queued(r))
    <3>1. Working(r) = {}
      BY <2>3 DEF Working
    <3>2. Pending(r) = 0
      <4>1. call[TickerId] = NoJob
        BY <1>1, <2>1 DEF Ordered, TickerInv, CallsTyped
      <4> QED BY <4>1 DEF Pending
    <3>3. outstanding[r] = Cardinality(Queued(r)) + Cardinality(Working(r)) + Pending(r)
      BY <2>1, UnfinishedParts DEF TickerInv, BatchCounted
    <3>4. Cardinality(Queued(r)) \in Nat
      BY <2>1, PartsFinite
    <3> QED BY <3>1, <3>2, <3>3, <3>4, FS_EmptySet
  <2> QED BY <2>5, <2>6, <2>7
<1>2. ServerInv => NoneHalfDone
  BY <1>1 DEF NoneHalfDone
<1> QED BY <1>2, ServerInvAlways, PTL

=============================================================================
