-------------------------- MODULE SyncRunnerProofs ---------------------------
(***************************************************************************)
(* Proofs about syncer.Runner for any number of workers and submitters, any *)
(* capacity of the queue and any number of jobs.  The main one is that the  *)
(* pool of goroutines and its two selects implement JobPool.                *)
(***************************************************************************)
EXTENDS SyncRunner, TLAPS, SequenceTheorems, FiniteSetTheorems

-----------------------------------------------------------------------------
(* The inductive invariant. *)

\* Jobs up to this number have started.
Started == accepted - Len(jobs)

Typed ==
    /\ jobs \in Seq(Job) /\ Len(jobs) <= QueueSize
    /\ quit \in BOOLEAN /\ cancelled \in BOOLEAN
    /\ worker \in [Workers -> {"loop", "select", "running", "exited"}]
    /\ current \in [Workers -> Job \cup {NoJob}]
    /\ \A w \in Workers : worker[w] = "running" <=> current[w] # NoJob
    /\ call \in [Submitters -> Job \cup {NoJob}]
    /\ shutdown \in {"idle", "waiting", "cancelling", "returned"}
    /\ calls \in Nat /\ accepted \in Nat
    /\ late \in [Workers -> Nat]

\* The channel holds the accepted jobs that have not started, in order; the
\* started ones that have not ended are those of the workers, one each.
Numbered ==
    /\ Started \in Nat
    /\ \A k \in 1..Len(jobs) : jobs[k].number = Started + k
    /\ finished \subseteq 1..Started
    /\ \A w \in Workers : worker[w] = "running" =>
          current[w].number \in (1..Started) \ finished
    /\ \A v, w \in Workers :
          /\ worker[v] = "running" /\ worker[w] = "running"
          /\ current[v].number = current[w].number
          => v = w
    /\ \A n \in (1..Started) \ finished :
          \E w \in Workers : worker[w] = "running" /\ current[w].number = n

\* A worker that may still take a job after quit is closed has not done so yet.
LateOnce ==
    /\ ~quit => \A w \in Workers : late[w] = 0
    /\ \A w \in Workers : worker[w] = "select" => late[w] = 0
    /\ \A w \in Workers : late[w] <= 1

\* quit is closed before anybody is cancelled and before anybody leaves.
ClosedFirst ==
    /\ shutdown = "idle" <=> quit = FALSE
    /\ cancelled = TRUE => quit = TRUE
    /\ shutdown = "cancelling" => cancelled = TRUE
    /\ \A w \in Workers : worker[w] = "exited" => quit = TRUE

LEMMA TypedImplies == Typed /\ Numbered => RunnerTypeOK
<1> SUFFICES ASSUME Typed, Numbered
             PROVE  RunnerTypeOK
  OBVIOUS
<1>1. Len(jobs) \in Nat /\ accepted \in Nat
  BY LenProperties DEF Typed
<1>2. finished \subseteq 1..accepted
  BY <1>1 DEF Numbered, Started
<1> QED BY <1>2 DEF Typed, RunnerTypeOK

LEMMA InitInv ==
    RunnerInit => Typed /\ Numbered /\ LateOnce /\ ClosedFirst /\ NoneOutlivesShutdown
<1> SUFFICES ASSUME RunnerInit
             PROVE  Typed /\ Numbered /\ LateOnce /\ ClosedFirst /\ NoneOutlivesShutdown
  OBVIOUS
<1>1. jobs = <<>> /\ jobs \in Seq(Job) /\ Len(jobs) = 0
  BY DEF RunnerInit
<1>2. Typed
  <2>1. 0 <= QueueSize
    BY QueueAssumption
  <2>2. \A w \in Workers : worker[w] # "running" /\ current[w] = NoJob
    BY DEF RunnerInit
  <2> QED BY <1>1, <2>1, <2>2 DEF RunnerInit, Typed
<1>3. Numbered
  BY <1>1 DEF RunnerInit, Numbered, Started
<1>4. LateOnce /\ ClosedFirst
  BY DEF RunnerInit, LateOnce, ClosedFirst
<1> QED BY <1>2, <1>3, <1>4 DEF RunnerInit, NoneOutlivesShutdown

-----------------------------------------------------------------------------
(* What the two ends of the channel do to it. *)

LEMMA Renumbered ==
    ASSUME NEW c \in Job, NEW n \in Nat
    PROVE  [c EXCEPT !.number = n] \in Job /\ [c EXCEPT !.number = n].number = n
  BY DEF Job

LEMMA Sent ==
    ASSUME Typed, NEW j \in Job, jobs' = Append(jobs, j)
    PROVE  /\ jobs' \in Seq(Job) /\ Len(jobs) \in Nat /\ Len(jobs') = Len(jobs) + 1
           /\ \A k \in 1..Len(jobs') :
                 \/ k \in 1..Len(jobs) /\ jobs'[k] = jobs[k]
                 \/ k = Len(jobs) + 1 /\ jobs'[k] = j
<1>1. jobs \in Seq(Job) /\ Len(jobs) \in Nat
  BY LenProperties DEF Typed
<1>2. /\ jobs' \in Seq(Job) /\ Len(jobs') = Len(jobs) + 1
      /\ \A k \in 1..Len(jobs) : jobs'[k] = jobs[k]
      /\ jobs'[Len(jobs) + 1] = j
  BY <1>1, AppendProperties
<1> QED BY <1>1, <1>2

LEMMA Taken ==
    ASSUME Typed, jobs # <<>>, jobs' = Tail(jobs)
    PROVE  /\ jobs' \in Seq(Job) /\ Len(jobs) \in Nat /\ Len(jobs') = Len(jobs) - 1
           /\ 1 \in 1..Len(jobs) /\ Head(jobs) \in Job /\ Head(jobs) = jobs[1]
           /\ \A k \in 1..Len(jobs') : k + 1 \in 1..Len(jobs) /\ jobs'[k] = jobs[k + 1]
<1>1. jobs \in Seq(Job) /\ Len(jobs) \in Nat /\ Len(jobs) >= 1
  BY LenProperties, EmptySeq DEF Typed
<1>2. /\ jobs' \in Seq(Job) /\ Len(jobs') = Len(jobs) - 1
      /\ Head(jobs) \in Job /\ Head(jobs) = jobs[1]
      /\ \A k \in 1..Len(jobs') : jobs'[k] = jobs[k + 1]
  BY <1>1, HeadTailProperties
<1> QED BY <1>1, <1>2

-----------------------------------------------------------------------------
(* The invariant is inductive, whoever submits: it is shown for the steps of  *)
(* the pool in any program, so that the ticker and the server may rely on it. *)

RunnerMove ==
    \/ \E s \in Submitters : \/ \E p \in Puuids, r \in Nat : SubmitCheck(s, p, r) /\ calls' \in Nat
                            \/ SubmitSend(s)
                            \/ SubmitFull(s)
    \/ \E w \in Workers : WorkerStep(w) \/ WorkerFinish(w)
    \/ ShutdownBegin
    \/ ShutdownStep

LEMMA NextMoves == Typed /\ [RunnerNext]_runnerVars => [RunnerMove]_runnerVars
  BY DEF Typed, RunnerNext, RunnerMove, Enqueue, SubmitClosed

\* The steps of Submit, Shutdown and the workers' first select.
Bystander ==
    UNCHANGED <<jobs, accepted, finished, current>>

LEMMA TypedStep == Typed /\ [RunnerMove]_runnerVars => Typed'
<1> SUFFICES ASSUME Typed, [RunnerMove]_runnerVars
             PROVE  Typed'
  OBVIOUS
<1> USE DEF history
<1>1. ASSUME NEW s \in Submitters, NEW p \in Puuids, NEW r \in Nat, SubmitCheck(s, p, r),
             calls' \in Nat
      PROVE  Typed'
  <2>1. [puuid |-> p, run |-> r, number |-> 0] \in Job
    BY DEF Job
  <2> QED BY <1>1, <2>1 DEF SubmitCheck, Typed
<1>2. ASSUME NEW s \in Submitters, SubmitSend(s)
      PROVE  Typed'
  <2>1. [call[s] EXCEPT !.number = accepted + 1] \in Job
    <3>1. call[s] \in Job /\ accepted + 1 \in Nat
      BY <1>2 DEF SubmitSend, Typed
    <3> QED BY <3>1, Renumbered
  <2>2. jobs' \in Seq(Job) /\ Len(jobs') <= QueueSize
    BY <1>2, <2>1, Sent, QueueAssumption DEF SubmitSend
  <2> QED BY <1>2, <2>2 DEF SubmitSend, Typed
<1>3. ASSUME NEW s \in Submitters, SubmitFull(s)
      PROVE  Typed'
  BY <1>3 DEF SubmitFull, Typed
<1>4. ASSUME NEW w \in Workers, WorkerCheck(w) \/ WorkerExit(w)
      PROVE  Typed'
  BY <1>4 DEF WorkerCheck, WorkerExit, Typed
<1>5. ASSUME NEW w \in Workers, WorkerTake(w)
      PROVE  Typed'
  <2>1. jobs' \in Seq(Job) /\ Len(jobs') <= QueueSize /\ Head(jobs) \in Job
    BY <1>5, Taken, QueueAssumption DEF WorkerTake, Typed
  <2>2. Head(jobs) # NoJob
    BY <2>1, NoJobAssumption
  <2>3. late' \in [Workers -> Nat]
    BY <1>5 DEF WorkerTake, Typed
  <2> QED BY <1>5, <2>1, <2>2, <2>3 DEF WorkerTake, Typed
<1>6. ASSUME NEW w \in Workers, WorkerFinish(w)
      PROVE  Typed'
  BY <1>6 DEF WorkerFinish, Typed
<1>7. CASE ShutdownBegin \/ ShutdownTimeout \/ ShutdownReturn
  BY <1>7 DEF ShutdownBegin, ShutdownTimeout, ShutdownReturn, Typed
<1>8. CASE UNCHANGED runnerVars
  BY <1>8 DEF runnerVars, Typed
<1> QED
  BY <1>1, <1>2, <1>3, <1>4, <1>5, <1>6, <1>7, <1>8
  DEF RunnerMove, WorkerStep, ShutdownStep

LEMMA NumberedStep == Typed /\ Numbered /\ [RunnerMove]_runnerVars => Numbered'
<1> SUFFICES ASSUME Typed, Numbered, [RunnerMove]_runnerVars
             PROVE  Numbered'
  OBVIOUS
<1> USE DEF history
<1>0. Len(jobs) \in Nat /\ accepted \in Nat
  BY LenProperties DEF Typed
<1>1. ASSUME Bystander, \A w \in Workers : worker'[w] = "running" <=> worker[w] = "running"
      PROVE  Numbered'
  <2>1. Started' = Started
    BY <1>1 DEF Bystander, Started
  <2> QED BY <1>1, <2>1 DEF Bystander, Numbered
<1>2. ASSUME NEW s \in Submitters, NEW p \in Puuids, NEW r \in Nat, SubmitCheck(s, p, r)
      PROVE  Numbered'
  BY <1>1, <1>2 DEF SubmitCheck, Bystander
<1>3. ASSUME NEW s \in Submitters, SubmitFull(s)
      PROVE  Numbered'
  BY <1>1, <1>3 DEF SubmitFull, Bystander
<1>4. ASSUME NEW s \in Submitters, SubmitSend(s)
      PROVE  Numbered'
  <2> DEFINE j == [call[s] EXCEPT !.number = accepted + 1]
  <2>1. j \in Job /\ j.number = accepted + 1 /\ jobs' = Append(jobs, j)
    <3>1. call[s] \in Job /\ accepted + 1 \in Nat
      BY <1>4 DEF SubmitSend, Typed
    <3> QED BY <1>4, <3>1, Renumbered DEF SubmitSend
  <2> HIDE DEF j
  <2>2. /\ Len(jobs') = Len(jobs) + 1
        /\ \A k \in 1..Len(jobs') :
              \/ k \in 1..Len(jobs) /\ jobs'[k] = jobs[k]
              \/ k = Len(jobs) + 1 /\ jobs'[k] = j
    BY <2>1, Sent
  <2>3. Started' = Started /\ accepted = Started + Len(jobs)
    BY <1>0, <1>4, <2>2 DEF SubmitSend, Started
  <2>4. ASSUME NEW k \in 1..Len(jobs')
        PROVE  jobs'[k].number = Started + k
    <3>1. CASE k \in 1..Len(jobs) /\ jobs'[k] = jobs[k]
      BY <3>1 DEF Numbered
    <3>2. CASE k = Len(jobs) + 1 /\ jobs'[k] = j
      <4>1. Started \in Nat /\ accepted + 1 = Started + (Len(jobs) + 1)
        BY <1>0, <2>3 DEF Numbered
      <4> QED BY <2>1, <3>2, <4>1
    <3> QED BY <2>2, <3>1, <3>2
  <2> QED BY <1>4, <2>3, <2>4 DEF SubmitSend, Numbered
<1>5. ASSUME NEW w \in Workers, WorkerCheck(w) \/ WorkerExit(w)
      PROVE  Numbered'
  <2>1. \A v \in Workers : worker'[v] = "running" <=> worker[v] = "running"
    BY <1>5 DEF WorkerCheck, WorkerExit, Typed
  <2> QED BY <1>1, <1>5, <2>1 DEF WorkerCheck, WorkerExit, Bystander
<1>6. ASSUME NEW w \in Workers, WorkerTake(w)
      PROVE  Numbered'
  <2>1. /\ Len(jobs') = Len(jobs) - 1 /\ 1 \in 1..Len(jobs) /\ Head(jobs) = jobs[1]
        /\ \A k \in 1..Len(jobs') : k + 1 \in 1..Len(jobs) /\ jobs'[k] = jobs[k + 1]
    BY <1>6, Taken DEF WorkerTake
  <2>2. Started' = Started + 1 /\ Started \in Nat /\ finished' = finished
    BY <1>0, <1>6, <2>1 DEF WorkerTake, Started, Numbered
  <2>3. Head(jobs).number = Started + 1
    BY <2>1 DEF Numbered
  <2>4. \A k \in 1..Len(jobs') : jobs'[k].number = Started' + k
    <3>1. \A k \in 1..Len(jobs') : jobs'[k].number = Started + (k + 1)
      BY <2>1 DEF Numbered
    <3> QED BY <2>2, <3>1
  <2>5. /\ worker[w] # "running" /\ worker'[w] = "running"
        /\ current'[w] = Head(jobs)
        /\ \A v \in Workers \ {w} : worker'[v] = worker[v] /\ current'[v] = current[v]
    BY <1>6 DEF WorkerTake, Typed
  <2>6. (1..Started') \ finished' = ((1..Started) \ finished) \cup {Started + 1}
    BY <2>2 DEF Numbered
  <2>7. \A v \in Workers : worker'[v] = "running" =>
           current'[v].number \in (1..Started') \ finished'
    BY <2>3, <2>5, <2>6 DEF Numbered
  <2>8. \A v \in Workers \ {w} : worker'[v] = "running" => current'[v].number # Started + 1
    BY <2>2, <2>5 DEF Numbered
  <2>9. \A u, v \in Workers :
           /\ worker'[u] = "running" /\ worker'[v] = "running"
           /\ current'[u].number = current'[v].number
           => u = v
    BY <2>3, <2>5, <2>8 DEF Numbered
  <2>10. \A n \in (1..Started') \ finished' :
            \E v \in Workers : worker'[v] = "running" /\ current'[v].number = n
    BY <2>3, <2>5, <2>6 DEF Numbered
  <2>11. Started' \in Nat /\ finished' \subseteq 1..Started'
    BY <2>2 DEF Numbered
  <2> QED BY <2>4, <2>7, <2>9, <2>10, <2>11 DEF Numbered
<1>7. ASSUME NEW w \in Workers, WorkerFinish(w)
      PROVE  Numbered'
  <2>1. /\ worker[w] = "running" /\ worker'[w] # "running"
        /\ finished' = finished \cup {current[w].number}
        /\ \A v \in Workers \ {w} : worker'[v] = worker[v] /\ current'[v] = current[v]
        /\ Started' = Started /\ jobs' = jobs
    BY <1>7 DEF WorkerFinish, Typed, Started
  <2>2. \A v \in Workers : worker'[v] = "running" => v # w /\ worker[v] = "running"
                                                     /\ current'[v] = current[v]
    BY <2>1
  <2>3. (1..Started') \ finished' = ((1..Started) \ finished) \ {current[w].number}
    BY <2>1
  <2>4. \A v \in Workers : worker'[v] = "running" =>
           current'[v].number \in (1..Started') \ finished'
    BY <2>1, <2>2, <2>3 DEF Numbered
  <2>5. \A n \in (1..Started') \ finished' :
           \E v \in Workers : worker'[v] = "running" /\ current'[v].number = n
    BY <2>1, <2>3 DEF Numbered
  <2>6. finished' \subseteq 1..Started' /\ Started' \in Nat
    BY <2>1 DEF Numbered
  <2>7. \A u, v \in Workers :
           /\ worker'[u] = "running" /\ worker'[v] = "running"
           /\ current'[u].number = current'[v].number
           => u = v
    BY <2>2 DEF Numbered
  <2> QED BY <2>1, <2>4, <2>5, <2>6, <2>7 DEF Numbered
<1>8. CASE ShutdownBegin \/ ShutdownTimeout \/ ShutdownReturn
  BY <1>1, <1>8 DEF ShutdownBegin, ShutdownTimeout, ShutdownReturn, Bystander
<1>9. CASE UNCHANGED runnerVars
  BY <1>1, <1>9 DEF runnerVars, Bystander
<1> QED
  BY <1>2, <1>3, <1>4, <1>5, <1>6, <1>7, <1>8, <1>9
  DEF RunnerMove, WorkerStep, ShutdownStep

LEMMA LateOnceStep == Typed /\ LateOnce /\ [RunnerMove]_runnerVars => LateOnce'
<1> SUFFICES ASSUME Typed, LateOnce, [RunnerMove]_runnerVars
             PROVE  LateOnce'
  OBVIOUS
<1> USE DEF history
<1>1. ASSUME UNCHANGED late, ~quit' => ~quit,
             \A w \in Workers : worker'[w] = "select" => worker[w] = "select" \/ ~quit
      PROVE  LateOnce'
  BY <1>1 DEF LateOnce, Typed
<1>2. ASSUME NEW w \in Workers, WorkerStep(w) \/ WorkerFinish(w)
      PROVE  LateOnce'
  <2>1. CASE WorkerCheck(w)
    BY <1>1, <2>1 DEF WorkerCheck, Typed
  <2>2. CASE WorkerExit(w)
    BY <1>1, <2>2 DEF WorkerExit, Typed
  <2>3. CASE WorkerTake(w)
    BY <2>3 DEF WorkerTake, Typed, LateOnce
  <2>4. CASE WorkerFinish(w)
    BY <1>1, <2>4 DEF WorkerFinish, Typed
  <2> QED BY <1>2, <2>1, <2>2, <2>3, <2>4 DEF WorkerStep
<1>3. CASE ShutdownBegin
  BY <1>3 DEF ShutdownBegin, LateOnce
<1>4. CASE UNCHANGED <<late, quit, worker>>
  BY <1>4 DEF LateOnce
<1> QED
  BY <1>2, <1>3, <1>4
  DEF RunnerMove, runnerVars, SubmitCheck, SubmitSend, SubmitFull,
      ShutdownStep, ShutdownTimeout, ShutdownReturn

LEMMA ClosedFirstStep == Typed /\ ClosedFirst /\ [RunnerMove]_runnerVars => ClosedFirst'
<1> SUFFICES ASSUME Typed, ClosedFirst, [RunnerMove]_runnerVars
             PROVE  ClosedFirst'
  OBVIOUS
<1> USE DEF history
<1>1. ASSUME NEW w \in Workers, WorkerStep(w) \/ WorkerFinish(w)
      PROVE  ClosedFirst'
  <2>1. /\ UNCHANGED <<quit, cancelled, shutdown>>
        /\ \A v \in Workers : worker'[v] = "exited" => worker[v] = "exited" \/ quit \/ cancelled
    BY <1>1 DEF WorkerStep, WorkerCheck, WorkerExit, WorkerTake, WorkerFinish, Typed
  <2> QED BY <2>1 DEF ClosedFirst, Typed
<1>2. CASE ShutdownBegin \/ ShutdownTimeout \/ ShutdownReturn
  BY <1>2 DEF ShutdownBegin, ShutdownTimeout, ShutdownReturn, ClosedFirst, Typed
<1>3. CASE UNCHANGED <<quit, cancelled, worker, shutdown>>
  BY <1>3 DEF ClosedFirst
<1> QED
  BY <1>1, <1>2, <1>3
  DEF RunnerMove, runnerVars, SubmitCheck, SubmitSend, SubmitFull, ShutdownStep

LEMMA NoneOutlivesStep ==
    Typed /\ NoneOutlivesShutdown /\ [RunnerMove]_runnerVars => NoneOutlivesShutdown'
<1> SUFFICES ASSUME Typed, NoneOutlivesShutdown, [RunnerMove]_runnerVars
             PROVE  NoneOutlivesShutdown'
  OBVIOUS
<1> USE DEF history
<1>1. ASSUME NEW w \in Workers, WorkerStep(w) \/ WorkerFinish(w)
      PROVE  NoneOutlivesShutdown'
  <2>1. worker[w] # "exited" /\ shutdown' = shutdown
    BY <1>1 DEF WorkerStep, WorkerCheck, WorkerExit, WorkerTake, WorkerFinish
  <2> QED BY <2>1 DEF NoneOutlivesShutdown, Exited
<1>2. CASE UNCHANGED worker /\ (shutdown' = "returned" => shutdown = "returned" \/ Exited)
  BY <1>2 DEF NoneOutlivesShutdown, Exited
<1> QED
  BY <1>1, <1>2
  DEF RunnerMove, runnerVars, SubmitCheck, SubmitSend, SubmitFull,
      ShutdownBegin, ShutdownStep, ShutdownTimeout, ShutdownReturn

Inv == Typed /\ Numbered /\ LateOnce /\ ClosedFirst /\ NoneOutlivesShutdown

LEMMA InvInit == RunnerInit => Inv
  BY InitInv DEF Inv

LEMMA InvMove == Inv /\ [RunnerMove]_runnerVars => Inv'
  BY TypedStep, NumberedStep, LateOnceStep, ClosedFirstStep, NoneOutlivesStep DEF Inv

LEMMA Invariance == RunnerSpec => []Inv
<1>1. Inv /\ [RunnerNext]_runnerVars => Inv'
  BY NextMoves, InvMove DEF Inv
<1> QED BY <1>1, InvInit, PTL DEF RunnerSpec

\* The state of the pool keeps its types, the numbers of jobs among them.
THEOREM RunnerTypeCorrect == RunnerSpec => []RunnerTypeOK
<1>1. Inv => RunnerTypeOK
  BY TypedImplies DEF Inv
<1> QED BY <1>1, Invariance, PTL

\* When Shutdown returns all workers have exited, however many there are, whether
\* its time was up or not.
THEOREM NoneOutlives == RunnerSpec => []NoneOutlivesShutdown
<1>1. Inv => NoneOutlivesShutdown
  BY DEF Inv
<1> QED BY <1>1, Invariance, PTL

-----------------------------------------------------------------------------
(* Where a job is, and how the pool comes to its end.                         *)

Held == {current[w].number : w \in {v \in Workers : worker[v] = "running"}}
Waiting == {jobs[k].number : k \in DOMAIN jobs}

LEMMA WaitingRange == Typed /\ Numbered => Waiting = (Started + 1)..accepted
<1> SUFFICES ASSUME Typed, Numbered
             PROVE  Waiting = (Started + 1)..accepted
  OBVIOUS
<1>1. /\ Len(jobs) \in Nat /\ DOMAIN jobs = 1..Len(jobs) /\ Started \in Nat
      /\ accepted = Started + Len(jobs)
  BY LenProperties DEF Typed, Numbered, Started
<1>2. \A k \in 1..Len(jobs) : jobs[k].number = Started + k
  BY DEF Numbered
<1>3. Waiting = {Started + k : k \in 1..Len(jobs)}
  BY <1>1, <1>2 DEF Waiting
<1>4. ASSUME NEW n \in (Started + 1)..accepted
      PROVE  n - Started \in 1..Len(jobs) /\ n = Started + (n - Started)
  BY <1>1
<1>5. \A k \in 1..Len(jobs) : Started + k \in (Started + 1)..accepted
  BY <1>1
<1> QED BY <1>3, <1>4, <1>5

\* A job that was accepted is over, with one worker, or at one place of the channel,
\* and what waits there was accepted after all the others.
JobsAccounted ==
    /\ finished \cup Held \cup Waiting = 1..accepted
    /\ finished \cap Held = {}
    /\ \A v, w \in Workers :
          /\ worker[v] = "running" /\ worker[w] = "running"
          /\ current[v].number = current[w].number
          => v = w
    /\ \A i, k \in DOMAIN jobs : jobs[i].number = jobs[k].number => i = k
    /\ \A m \in finished \cup Held, n \in Waiting : m < n

LEMMA Accounted == Typed /\ Numbered => JobsAccounted
<1> SUFFICES ASSUME Typed, Numbered
             PROVE  JobsAccounted
  OBVIOUS
<1>1. Waiting = (Started + 1)..accepted
  BY WaitingRange
<1>2. Held = (1..Started) \ finished
  BY DEF Held, Numbered
<1>3. finished \subseteq 1..Started /\ Started \in Nat
  BY DEF Numbered
<1>4. /\ Len(jobs) \in Nat /\ DOMAIN jobs = 1..Len(jobs) /\ accepted \in Nat
      /\ accepted >= Started
  BY LenProperties DEF Typed, Numbered, Started
<1>5. finished \cup Held \cup Waiting = 1..accepted
  <2>1. finished \cup Held = 1..Started
    BY <1>2, <1>3
  <2>2. (1..Started) \cup ((Started + 1)..accepted) = 1..accepted
    BY <1>3, <1>4
  <2> QED BY <1>1, <2>1, <2>2
<1>6. \A i, k \in DOMAIN jobs : jobs[i].number = jobs[k].number => i = k
  <2>1. \A k \in 1..Len(jobs) : jobs[k].number = Started + k
    BY DEF Numbered
  <2> QED BY <1>3, <1>4, <2>1
<1>7. \A m \in finished \cup Held, n \in Waiting : m < n
  BY <1>1, <1>2, <1>3, <1>4
<1>8. \A v, w \in Workers :
         /\ worker[v] = "running" /\ worker[w] = "running"
         /\ current[v].number = current[w].number
         => v = w
  BY DEF Numbered
<1> QED BY <1>2, <1>5, <1>6, <1>7, <1>8 DEF JobsAccounted

\* No job is lost or run twice between Submit, the channel and the workers,
\* Shutdown or not (what AcceptedRuns needs besides fairness).
THEOREM JobsKept == RunnerSpec => []JobsAccounted
<1>1. Inv => JobsAccounted
  BY Accounted DEF Inv
<1> QED BY <1>1, Invariance, PTL

\* The select of a worker may prefer jobs to quit, but only once: after that the
\* check before it sees that quit is closed.
LateAtMostOne == \A w \in Workers : late[w] <= 1

\* No worker runs a second job after Shutdown has closed quit.
THEOREM OneLateJob == RunnerSpec => []LateAtMostOne
<1>1. Inv => LateAtMostOne
  BY DEF Inv, LateOnce, LateAtMostOne
<1> QED BY <1>1, Invariance, PTL

\* The steps a worker can still take once quit is closed.
Remaining(place) ==
    CASE place = "select"  -> 3
      [] place = "running" -> 2
      [] place = "loop"    -> 1
      [] OTHER             -> 0

\* Once quit is closed every step of a worker brings it nearer to its exit: it
\* takes at most three of them, so Shutdown waits for jobs and for nothing else.
WindsDown ==
    [][quit => \A w \in Workers :
          worker'[w] = worker[w] \/ Remaining(worker'[w]) < Remaining(worker[w])]_runnerVars

LEMMA WindDownStep ==
    ASSUME Typed, [RunnerMove]_runnerVars, quit, NEW w \in Workers
    PROVE  worker'[w] = worker[w] \/ Remaining(worker'[w]) < Remaining(worker[w])
<1> USE DEF history
<1>1. ASSUME NEW v \in Workers, WorkerStep(v) \/ WorkerFinish(v)
      PROVE  worker'[w] = worker[w] \/ Remaining(worker'[w]) < Remaining(worker[w])
  <2>1. CASE v # w
    BY <1>1, <2>1 DEF WorkerStep, WorkerCheck, WorkerExit, WorkerTake, WorkerFinish, Typed
  <2>2. CASE v = w
    <3>1. \/ worker[w] \in {"loop", "select"} /\ worker'[w] = "exited"
          \/ worker[w] = "select" /\ worker'[w] = "running"
          \/ worker[w] = "running" /\ worker'[w] = "loop"
      BY <1>1, <2>2 DEF WorkerStep, WorkerCheck, WorkerExit, WorkerTake, WorkerFinish, Typed
    <3> QED BY <3>1 DEF Remaining
  <2> QED BY <2>1, <2>2
<1>2. CASE UNCHANGED worker
  BY <1>2
<1> QED
  BY <1>1, <1>2
  DEF RunnerMove, runnerVars, SubmitCheck, SubmitSend, SubmitFull,
      ShutdownBegin, ShutdownStep, ShutdownTimeout, ShutdownReturn

\* Workers do not linger after quit is closed, with however many jobs in the
\* channel.
THEOREM WorkersWindDown == RunnerSpec => WindsDown
<1>1. Inv /\ [RunnerNext]_runnerVars =>
        [quit => \A w \in Workers :
           worker'[w] = worker[w] \/ Remaining(worker'[w]) < Remaining(worker[w])]_runnerVars
  <2> SUFFICES ASSUME Inv, [RunnerNext]_runnerVars, quit, NEW w \in Workers
               PROVE  worker'[w] = worker[w] \/ Remaining(worker'[w]) < Remaining(worker[w])
    OBVIOUS
  <2>1. Typed /\ [RunnerMove]_runnerVars
    BY NextMoves DEF Inv
  <2> QED BY <2>1, WindDownStep
<1> QED BY <1>1, Invariance, PTL DEF RunnerSpec, WindsDown

-----------------------------------------------------------------------------
(* The refinement. *)

\* Fewer jobs run than there are workers while one of them is free.
LEMMA SlotFree ==
    ASSUME Typed, Numbered, NEW w \in Workers, worker[w] # "running"
    PROVE  Started - Cardinality(finished) < Cardinality(Workers)
<1> DEFINE Busy == {v \in Workers : worker[v] = "running"}
           Running == (1..Started) \ finished
           num == [v \in Busy |-> current[v].number]
<1>1. Started \in Nat /\ IsFiniteSet(1..Started) /\ Cardinality(1..Started) = Started
  BY FS_Interval DEF Numbered
<1>2. IsFiniteSet(finished) /\ finished \subseteq 1..Started
  BY <1>1, FS_Subset DEF Numbered
<1>3. IsFiniteSet(Running)
  BY <1>1, FS_Subset
<1>4. Cardinality(1..Started) = Cardinality(finished) + Cardinality(Running)
  <2>1. (1..Started) \cap finished = finished
    BY <1>2
  <2>2. Cardinality(Running) = Cardinality(1..Started) - Cardinality((1..Started) \cap finished)
    BY <1>1, FS_Difference
  <2>3. Cardinality(finished) \in Nat /\ Cardinality(Running) \in Nat
    BY <1>2, <1>3, FS_CardinalityType
  <2>4. Cardinality((1..Started) \cap finished) = Cardinality(finished)
    BY <2>1
  <2>5. Cardinality(1..Started) \in Nat
    BY <1>1, FS_CardinalityType
  <2> HIDE DEF Running
  <2> QED BY <2>2, <2>3, <2>4, <2>5
<1>5. IsFiniteSet(Busy) /\ Cardinality(Busy) <= Cardinality(Workers \ {w})
  BY WorkersAssumption, FS_Subset, FS_RemoveElement
<1>6. Cardinality(Running) <= Cardinality(Busy)
  <2>1. num \in Surjection(Busy, Running)
    BY DEF Numbered, Surjection
  <2> QED BY <1>5, <2>1, FS_Surjection
<1>7. Cardinality(Workers \ {w}) = Cardinality(Workers) - 1
  BY WorkersAssumption, FS_RemoveElement
<1>8. /\ Cardinality(finished) \in Nat /\ Cardinality(Running) \in Nat
      /\ Cardinality(Busy) \in Nat /\ Cardinality(Workers) \in Nat
  BY <1>2, <1>3, <1>5, WorkersAssumption, FS_CardinalityType
<1> HIDE DEF Busy, Running, num
<1> QED BY <1>1, <1>4, <1>5, <1>6, <1>7, <1>8

\* The abstract module counts as this one does.
LEMMA PoolCardinality == \A S : Pool!Cardinality(S) = Cardinality(S)
  BY DEF Pool!Cardinality, Cardinality, Pool!IsFiniteSet, IsFiniteSet

\* Every step of the goroutines is a step of the abstract pool or none.
LEMMA MoveRefines == Inv /\ [RunnerMove]_runnerVars => [Pool!Next]_(Pool!poolVars)
<1> SUFFICES ASSUME Typed, Numbered, LateOnce, [RunnerMove]_runnerVars
             PROVE  [Pool!Next]_(Pool!poolVars)
  BY DEF Inv
<1> USE DEF history, Started
<1>0. Len(jobs) \in Nat /\ accepted \in Nat /\ Started \in Nat
  BY LenProperties DEF Typed, Numbered
<1>1. ASSUME UNCHANGED <<jobs, accepted, finished, quit, late>>
      PROVE  UNCHANGED Pool!poolVars
  <2>1. Latecomers' = Latecomers
    BY <1>1 DEF Latecomers
  <2> QED BY <1>1, <2>1 DEF Pool!poolVars
<1>2. ASSUME NEW s \in Submitters, SubmitSend(s)
      PROVE  Pool!Accept
  <2>1. [call[s] EXCEPT !.number = accepted + 1] \in Job
    <3>1. call[s] \in Job /\ accepted + 1 \in Nat
      BY <1>2 DEF SubmitSend, Typed
    <3> QED BY <3>1, Renumbered
  <2>2. Len(jobs') = Len(jobs) + 1
    BY <1>2, <2>1, Sent DEF SubmitSend
  <2>3. Latecomers' = Latecomers /\ UNCHANGED <<finished, quit>>
    BY <1>2 DEF SubmitSend, Latecomers
  <2>4. /\ accepted - Started < QueueSize /\ accepted' = accepted + 1
        /\ accepted' - Len(jobs') = Started
    BY <1>0, <1>2, <2>2, QueueAssumption DEF SubmitSend
  <2> QED BY <2>3, <2>4 DEF Pool!Accept
<1>3. ASSUME NEW w \in Workers, WorkerTake(w)
      PROVE  Pool!Start
  <2>1. Len(jobs') = Len(jobs) - 1 /\ Len(jobs) >= 1
    BY <1>0, <1>3, Taken DEF WorkerTake
  <2>2. Started - Cardinality(finished) < Cardinality(Workers)
    BY <1>3, SlotFree DEF WorkerTake
  <2>3. late[w] = 0
    BY <1>3 DEF WorkerTake, LateOnce
  <2>4. IsFiniteSet(Latecomers) /\ Cardinality(Latecomers) < Cardinality(Workers)
    <3>1. Latecomers \subseteq Workers /\ Latecomers # Workers
      BY <2>3 DEF Latecomers
    <3> QED BY <3>1, WorkersAssumption, FS_Subset, FS_CardinalityType
  <2>5. Cardinality(Latecomers') =
           IF quit THEN Cardinality(Latecomers) + 1 ELSE Cardinality(Latecomers)
    <3>1. CASE quit
      <4>1. Latecomers' = Latecomers \cup {w} /\ w \notin Latecomers
        BY <1>3, <2>3, <3>1 DEF WorkerTake, Typed, Latecomers
      <4> QED BY <2>4, <3>1, <4>1, FS_AddElement
    <3>2. CASE ~quit
      <4>1. Latecomers' = Latecomers
        BY <1>3, <3>2 DEF WorkerTake, Typed, Latecomers
      <4> QED BY <3>2, <4>1
    <3> QED BY <3>1, <3>2
  <2>6. accepted' = accepted /\ finished' = finished /\ quit' = quit
    BY <1>3 DEF WorkerTake
  <2>7. Started < accepted /\ accepted' - Len(jobs') = Started + 1
    BY <1>0, <2>1, <2>6
  <2> QED BY <2>2, <2>4, <2>5, <2>6, <2>7, PoolCardinality DEF Pool!Start
<1>4. ASSUME NEW w \in Workers, WorkerFinish(w)
      PROVE  \E n \in 1..Started : Pool!End(n)
  <2>1. current[w].number \in (1..Started) \ finished
    BY <1>4 DEF WorkerFinish, Numbered
  <2>2. Latecomers' = Latecomers /\ UNCHANGED <<jobs, accepted, quit>>
        /\ finished' = finished \cup {current[w].number}
    BY <1>4 DEF WorkerFinish, Latecomers
  <2> QED BY <2>1, <2>2 DEF Pool!End
<1>5. CASE ShutdownBegin
  <2>1. CASE quit
    BY <1>1, <1>5, <2>1 DEF ShutdownBegin, Typed
  <2>2. CASE ~quit
    <3>1. Latecomers' = Latecomers /\ UNCHANGED <<jobs, accepted, finished>> /\ quit' = TRUE
      BY <1>5 DEF ShutdownBegin, Latecomers
    <3> QED BY <2>2, <3>1 DEF Pool!Next, Pool!Close
  <2> QED BY <2>1, <2>2
<1> QED
  BY <1>1, <1>2, <1>3, <1>4, <1>5
  DEF Pool!Next, RunnerMove, runnerVars, SubmitCheck, SubmitFull,
      WorkerStep, WorkerCheck, WorkerExit, ShutdownStep, ShutdownTimeout, ShutdownReturn

LEMMA MovesStart == RunnerInit => Pool!Init
<1> SUFFICES ASSUME RunnerInit
             PROVE  Pool!Init
  OBVIOUS
<1>1. Latecomers = {}
  BY DEF RunnerInit, Latecomers
<1>2. Cardinality(Latecomers) = 0
  BY <1>1, FS_EmptySet
<1>3. accepted = 0 /\ accepted - Len(jobs) = 0 /\ finished = {} /\ quit = FALSE
  <2>1. accepted = 0 /\ finished = {} /\ quit = FALSE
    BY DEF RunnerInit
  <2>2. Len(jobs) = 0
    BY EmptySeq DEF RunnerInit
  <2> QED BY <2>1, <2>2
<1> QED BY <1>2, <1>3 DEF Pool!Init

\* The pool of goroutines keeps the promise of JobPool: jobs start in the order
\* of acceptance, each once, at most QueueSize wait, at most one a worker runs,
\* and at most one a worker starts after quit is closed.
THEOREM RunnerImplementsPool == RunnerSpec => KeepsPromise
<1>1. RunnerInit => Pool!Init
  BY MovesStart
<1>2. Inv /\ [RunnerNext]_runnerVars => [Pool!Next]_(Pool!poolVars)
  BY NextMoves, MoveRefines DEF Inv
<1> QED BY <1>1, <1>2, Invariance, PTL DEF RunnerSpec, KeepsPromise, Pool!Spec

=============================================================================
