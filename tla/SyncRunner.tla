----------------------------- MODULE SyncRunner ------------------------------
(***************************************************************************)
(* internal/syncer/runner.go: the pool of workers that runs background      *)
(* synchronisations.  Submit looks at quit and sends to the buffered        *)
(* channel jobs in two selects; a worker looks at quit and the context, and *)
(* then selects among quit, the context and jobs; Shutdown closes quit,     *)
(* waits for the workers and, when its time is up, cancels them and goes on *)
(* waiting.  Between any two of these anybody else may move.                *)
(***************************************************************************)
EXTENDS Integers, Sequences, FiniteSets

CONSTANTS
    Workers,     \* goroutines started by Start
    Submitters,  \* goroutines that call Submit or Enqueue
    Puuids,      \* summoners a job can be about
    QueueSize,   \* capacity of the channel jobs
    NoJob,       \* no job in hand
    MaxJobs      \* bound: calls of Submit by the environment

ASSUME WorkersAssumption == IsFiniteSet(Workers) /\ Workers # {}
ASSUME QueueAssumption == QueueSize \in Nat \ {0}
ASSUME MaxJobsAssumption == MaxJobs \in Nat

VARIABLES
    jobs,       \* Runner.jobs: the buffered channel
    quit,       \* Runner.quit has been closed
    cancelled,  \* the context of the workers has been cancelled
    worker,     \* where each worker is: "loop", "select", "running", "exited"
    current,    \* the job each worker runs
    call,       \* the job each submitter holds between the two selects of Submit
    shutdown,   \* where Shutdown is: "idle", "waiting", "cancelling", "returned"
    calls,      \* calls of Submit so far, for MaxJobs
    (* History, read only by the properties. *)
    accepted,   \* number of jobs accepted
    finished,   \* numbers of the jobs whose run has returned
    late        \* jobs each worker has taken since quit was closed

history == <<accepted, finished, late>>
runnerVars ==
    <<jobs, quit, cancelled, worker, current, call, shutdown, calls, history>>

\* A job knows its summoner and the ticker run whose done it calls (0: done is
\* nil); number is its place among the accepted jobs.
Job == [puuid : Puuids, run : Nat, number : Nat]

ASSUME NoJobAssumption == NoJob \notin Job

RunnerInit ==
    /\ jobs = <<>>
    /\ quit = FALSE
    /\ cancelled = FALSE
    /\ worker = [w \in Workers |-> "loop"]
    /\ current = [w \in Workers |-> NoJob]
    /\ call = [s \in Submitters |-> NoJob]
    /\ shutdown = "idle"
    /\ calls = 0
    /\ accepted = 0
    /\ finished = {}
    /\ late = [w \in Workers |-> 0]

-----------------------------------------------------------------------------
(* Submit *)

\* The first select: quit is open.
SubmitCheck(s, p, r) ==
    /\ call[s] = NoJob
    /\ ~quit
    /\ call' = [call EXCEPT ![s] = [puuid |-> p, run |-> r, number |-> 0]]
    /\ UNCHANGED <<jobs, quit, cancelled, worker, current, shutdown, history>>

\* The first select: quit is closed, Submit returns false.
SubmitClosed(s) ==
    /\ call[s] = NoJob
    /\ quit
    /\ UNCHANGED runnerVars

\* The second select: there is room, Submit returns true.
SubmitSend(s) ==
    /\ call[s] # NoJob
    /\ Len(jobs) < QueueSize
    /\ jobs' = Append(jobs, [call[s] EXCEPT !.number = accepted + 1])
    /\ accepted' = accepted + 1
    /\ call' = [call EXCEPT ![s] = NoJob]
    /\ UNCHANGED <<quit, cancelled, worker, current, shutdown, calls, finished, late>>

\* The second select: the buffer is full, Submit returns false.
SubmitFull(s) ==
    /\ call[s] # NoJob
    /\ Len(jobs) = QueueSize
    /\ call' = [call EXCEPT ![s] = NoJob]
    /\ UNCHANGED <<jobs, quit, cancelled, worker, current, shutdown, calls, history>>

-----------------------------------------------------------------------------
(* worker and run *)

\* Without the check of its own, a worker goes straight to the select, which
\* picks at random among what is ready.
WorkerCheckBug(w) ==
    /\ worker[w] = "loop"
    /\ worker' = [worker EXCEPT ![w] = "select"]
    /\ UNCHANGED <<jobs, quit, cancelled, current, call, shutdown, calls, history>>

\* The select with a default: neither quit nor the context is done.
WorkerCheck(w) ==
    /\ worker[w] = "loop"
    /\ ~quit /\ ~cancelled
    /\ worker' = [worker EXCEPT ![w] = "select"]
    /\ UNCHANGED <<jobs, quit, cancelled, current, call, shutdown, calls, history>>

\* Either select sees quit or the context.
WorkerExit(w) ==
    /\ worker[w] \in {"loop", "select"}
    /\ quit \/ cancelled
    /\ worker' = [worker EXCEPT ![w] = "exited"]
    /\ UNCHANGED <<jobs, quit, cancelled, current, call, shutdown, calls, history>>

\* The main select takes a job, also when quit is closed by then.
WorkerTake(w) ==
    /\ worker[w] = "select"
    /\ jobs # <<>>
    /\ worker' = [worker EXCEPT ![w] = "running"]
    /\ current' = [current EXCEPT ![w] = Head(jobs)]
    /\ jobs' = Tail(jobs)
    /\ late' = [late EXCEPT ![w] = IF quit THEN @ + 1 ELSE @]
    /\ UNCHANGED <<quit, cancelled, call, shutdown, calls, accepted, finished>>

\* A worker that leaves after its job instead of going back to its loop.
WorkerFinishBug(w) ==
    /\ worker[w] = "running"
    /\ worker' = [worker EXCEPT ![w] = "exited"]
    /\ UNCHANGED <<jobs, quit, cancelled, current, call, shutdown, calls, history>>

\* run returns: the job is over, with a result, an error or a panic.
WorkerFinish(w) ==
    /\ worker[w] = "running"
    /\ worker' = [worker EXCEPT ![w] = "loop"]
    /\ finished' = finished \cup {current[w].number}
    /\ current' = [current EXCEPT ![w] = NoJob]
    /\ UNCHANGED <<jobs, quit, cancelled, call, shutdown, calls, accepted, late>>

-----------------------------------------------------------------------------
(* Shutdown *)

Exited == \A w \in Workers : worker[w] = "exited"

ShutdownBegin ==
    /\ shutdown = "idle"
    /\ quit' = TRUE
    /\ shutdown' = "waiting"
    /\ UNCHANGED <<jobs, cancelled, worker, current, call, calls, history>>

\* Time is up: the workers are told, but Shutdown does not wait for them.
ShutdownTimeoutBug ==
    /\ shutdown = "waiting"
    /\ cancelled' = TRUE
    /\ shutdown' = "returned"
    /\ UNCHANGED <<jobs, quit, worker, current, call, calls, history>>

\* Time is up and nobody tells the workers.
ShutdownNoCancelBug ==
    /\ shutdown = "waiting"
    /\ shutdown' = "cancelling"
    /\ UNCHANGED <<jobs, quit, cancelled, worker, current, call, calls, history>>

\* The time of Shutdown is up: r.cancel(), then it waits again.
ShutdownTimeout ==
    /\ shutdown = "waiting"
    /\ cancelled' = TRUE
    /\ shutdown' = "cancelling"
    /\ UNCHANGED <<jobs, quit, worker, current, call, calls, history>>

\* wg.Wait is over.
ShutdownReturn ==
    /\ shutdown \in {"waiting", "cancelling"}
    /\ Exited
    /\ shutdown' = "returned"
    /\ UNCHANGED <<jobs, quit, cancelled, worker, current, call, calls, history>>

-----------------------------------------------------------------------------

\* A caller of Enqueue (done is nil).
Enqueue(s) ==
    \/ /\ calls < MaxJobs
       /\ calls' = calls + 1
       /\ \E p \in Puuids : SubmitCheck(s, p, 0)
    \/ SubmitClosed(s)
    \/ SubmitSend(s)
    \/ SubmitFull(s)

WorkerStep(w) == WorkerCheck(w) \/ WorkerExit(w) \/ WorkerTake(w)

ShutdownStep == ShutdownTimeout \/ ShutdownReturn

RunnerNext ==
    \/ \E s \in Submitters : Enqueue(s)
    \/ \E w \in Workers : WorkerStep(w) \/ WorkerFinish(w)
    \/ ShutdownBegin
    \/ ShutdownStep

RunnerSpec == RunnerInit /\ [][RunnerNext]_runnerVars

\* Goroutines that can run do run.
WorkersFair == \A w \in Workers : WF_runnerVars(WorkerStep(w))

\* A job comes to its end within jobTimeout; AcceptedRuns alone assumes it.
JobsEnd == \A w \in Workers : WF_runnerVars(WorkerFinish(w))

\* jobTimeout is ten minutes and the time of Shutdown eight seconds: Shutdown
\* may only count on a job to end once its context is cancelled.
CancelledJobsEnd ==
    \A w \in Workers : WF_runnerVars(cancelled /\ WorkerFinish(w))

RunnerFairSpec ==
    RunnerSpec /\ WorkersFair /\ CancelledJobsEnd /\ WF_runnerVars(ShutdownStep)

-----------------------------------------------------------------------------
(* Properties. *)

\* Types; a worker has a job exactly when it runs one.
RunnerTypeOK ==
    /\ jobs \in Seq(Job) /\ Len(jobs) <= QueueSize
    /\ quit \in BOOLEAN /\ cancelled \in BOOLEAN
    /\ worker \in [Workers -> {"loop", "select", "running", "exited"}]
    /\ current \in [Workers -> Job \cup {NoJob}]
    /\ \A w \in Workers : worker[w] = "running" <=> current[w] # NoJob
    /\ call \in [Submitters -> Job \cup {NoJob}]
    /\ shutdown \in {"idle", "waiting", "cancelling", "returned"}
    /\ calls \in Nat /\ accepted \in Nat
    /\ finished \subseteq 1..accepted
    /\ late \in [Workers -> Nat]

\* When Shutdown has returned, no goroutine of the pool is left: what main
\* closes next (cache, database pool) is out of the workers' reach.
NoneOutlivesShutdown == shutdown = "returned" => Exited

\* The workers that have started a job since quit was closed.
Latecomers == {w \in Workers : late[w] > 0}

\* The pool keeps the promise of JobPool: jobs start in the order of
\* acceptance, each once, in bounded numbers.
Pool == INSTANCE JobPool WITH
    Capacity <- QueueSize,
    Slots <- Cardinality(Workers),
    started <- accepted - Len(jobs),
    ended <- finished,
    closed <- quit,
    startedLate <- Cardinality(Latecomers)

KeepsPromise == Pool!Spec

\* If jobs end at all, one that was accepted is run, unless the pool is shut down: a job accepted
\* while Shutdown closes quit may be left in the channel.
AcceptedRuns ==
    JobsEnd =>
        \A n \in 1..MaxJobs : (accepted >= n) ~> (n \in finished \/ quit)
==============================================================================
