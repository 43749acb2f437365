----------------------------- MODULE SyncTicker ------------------------------
(***************************************************************************)
(* internal/syncer/ticker.go on top of the pool of SyncRunner: each tick    *)
(* submits one job per tracked summoner and waits until all of them are     *)
(* over, or until Stop.  time.Ticker keeps at most one tick for a reader    *)
(* that is late; dropPendingTick throws it away after a run.                *)
(***************************************************************************)
EXTENDS SyncRunner

CONSTANTS
    TickerId,   \* the submitter that is the ticker's goroutine
    MaxRuns     \* bound: runs of the ticker

ASSUME TickerAssumption == TickerId \in Submitters /\ MaxRuns \in Nat

VARIABLES
    tick,         \* ticker.C holds a tick
    ticker,       \* where the loop is: "select", "listing", "submitting",
                  \* "waiting", "dropping", "exited", or "off": never started
    toSubmit,     \* summoners of this run not yet submitted
    run,          \* runs begun so far; the current run is the last of them
    outstanding,  \* the WaitGroup of each run
    stop,         \* Ticker.stop has been closed
    fresh         \* history: the tick in ticker.C came while no run was going on

tickerVars == <<tick, ticker, toSubmit, run, outstanding, stop, fresh>>
allVars == <<runnerVars, tickerVars>>

TickerInit ==
    /\ RunnerInit
    /\ tick = FALSE
    /\ ticker = "select"
    /\ toSubmit = {}
    /\ run = 0
    /\ outstanding = [r \in 1..MaxRuns |-> 0]
    /\ stop = FALSE
    /\ fresh = FALSE

-----------------------------------------------------------------------------
(* The loop. *)

\* The interval has passed; a tick that is not read yet swallows this one.
TickFires ==
    /\ ~tick
    /\ ticker \notin {"exited", "off"}
    /\ run < MaxRuns
    /\ tick' = TRUE
    /\ fresh' = (ticker = "select")
    /\ UNCHANGED <<runnerVars, ticker, toSubmit, run, outstanding, stop>>

\* loop reads a tick and calls runOnce, which is not running: only loop calls it.
RunBegin ==
    /\ ticker = "select"
    /\ tick
    /\ tick' = FALSE
    /\ run' = run + 1
    /\ ticker' = "listing"
    /\ UNCHANGED <<runnerVars, toSubmit, outstanding, stop, fresh>>

\* TrackedPUUIDs fails, or nobody is tracked: the run is over.
RunNothing ==
    /\ ticker = "listing"
    /\ ticker' = "dropping"
    /\ UNCHANGED <<runnerVars, tick, toSubmit, run, outstanding, stop, fresh>>

RunList ==
    /\ ticker = "listing"
    /\ \E tracked \in (SUBSET Puuids) \ {{}} : toSubmit' = tracked
    /\ ticker' = "submitting"
    /\ UNCHANGED <<runnerVars, tick, run, outstanding, stop, fresh>>

\* wg.Add(1) and the first select of Submit.
RunSubmit ==
    /\ ticker = "submitting"
    /\ \E p \in toSubmit :
          /\ SubmitCheck(TickerId, p, run)
          /\ toSubmit' = toSubmit \ {p}
    /\ outstanding' = [outstanding EXCEPT ![run] = @ + 1]
    /\ UNCHANGED <<calls, tick, ticker, run, stop, fresh>>

\* wg.Add(1) only after a Submit that returned true, wg.Done() as before.
RunSubmitClosedBug ==
    /\ ticker = "submitting"
    /\ SubmitClosed(TickerId)
    /\ \E p \in toSubmit : toSubmit' = toSubmit \ {p}
    /\ outstanding' = [outstanding EXCEPT ![run] = @ - 1]
    /\ UNCHANGED <<tick, ticker, run, stop, fresh>>

\* The pool is closed: wg.Add(1), Submit returns false, wg.Done().
RunSubmitClosed ==
    /\ ticker = "submitting"
    /\ SubmitClosed(TickerId)
    /\ \E p \in toSubmit : toSubmit' = toSubmit \ {p}
    /\ UNCHANGED <<tick, ticker, run, outstanding, stop, fresh>>

RunSubmitted ==
    /\ SubmitSend(TickerId)
    /\ UNCHANGED tickerVars

\* The caller of a Submit that returned false forgets wg.Done.
RunDroppedBug ==
    /\ SubmitFull(TickerId)
    /\ UNCHANGED tickerVars

\* Submit returns false: nobody will call done, so runOnce does.
RunDropped ==
    /\ SubmitFull(TickerId)
    /\ outstanding' = [outstanding EXCEPT ![run] = @ - 1]
    /\ UNCHANGED <<tick, ticker, toSubmit, run, stop, fresh>>

RunWait ==
    /\ ticker = "submitting"
    /\ toSubmit = {} /\ call[TickerId] = NoJob
    /\ ticker' = "waiting"
    /\ UNCHANGED <<runnerVars, tick, toSubmit, run, outstanding, stop, fresh>>

\* The run ends as soon as its jobs are in the channel.
RunEndBug ==
    /\ ticker = "waiting"
    /\ ticker' = "dropping"
    /\ UNCHANGED <<runnerVars, tick, toSubmit, run, outstanding, stop, fresh>>

\* waitBatch deaf to stop.
RunEndDeafBug ==
    /\ ticker = "waiting"
    /\ outstanding[run] = 0
    /\ ticker' = "dropping"
    /\ UNCHANGED <<runnerVars, tick, toSubmit, run, outstanding, stop, fresh>>

\* waitBatch: the batch is over, or the ticker is being stopped.
RunEnd ==
    /\ ticker = "waiting"
    /\ outstanding[run] = 0 \/ stop
    /\ ticker' = "dropping"
    /\ UNCHANGED <<runnerVars, tick, toSubmit, run, outstanding, stop, fresh>>

\* The tick that came during the run is kept for the next turn of the loop.
DropPendingTickBug ==
    /\ ticker = "dropping"
    /\ ticker' = "select"
    /\ UNCHANGED <<runnerVars, tick, toSubmit, run, outstanding, stop, fresh>>

\* dropPendingTick
DropPendingTick ==
    /\ ticker = "dropping"
    /\ tick' = FALSE
    /\ ticker' = "select"
    /\ UNCHANGED <<runnerVars, toSubmit, run, outstanding, stop, fresh>>

\* The loop sees stop; the select may also have preferred a tick.
TickerExit ==
    /\ ticker = "select"
    /\ stop
    /\ ticker' = "exited"
    /\ UNCHANGED <<runnerVars, tick, toSubmit, run, outstanding, stop, fresh>>

\* Ticker.Stop closes stop (and then waits for ticker = "exited").
StopTicker ==
    /\ ~stop
    /\ stop' = TRUE
    /\ UNCHANGED <<runnerVars, tick, ticker, toSubmit, run, outstanding, fresh>>

-----------------------------------------------------------------------------
(* The pool, with the callback of a job. *)

\* A panic in SyncSummoner skips what follows it in run, done included.
FinishBug(w) ==
    /\ WorkerFinish(w)
    /\ \/ UNCHANGED outstanding
       \/ /\ current[w].run # 0
          /\ outstanding' = [outstanding EXCEPT ![current[w].run] = @ - 1]
    /\ UNCHANGED <<tick, ticker, toSubmit, run, stop, fresh>>

\* run's deferred done: it fires whatever way the job ended.
Finish(w) ==
    /\ WorkerFinish(w)
    /\ outstanding' =
          IF current[w].run = 0 THEN outstanding
          ELSE [outstanding EXCEPT ![current[w].run] = @ - 1]
    /\ UNCHANGED <<tick, ticker, toSubmit, run, stop, fresh>>

PoolStep ==
    \E w \in Workers : \/ WorkerStep(w) /\ UNCHANGED tickerVars
                       \/ Finish(w)

TickerStep ==
    \/ RunBegin \/ RunNothing \/ RunList \/ RunSubmit \/ RunSubmitClosed
    \/ RunSubmitted \/ RunDropped \/ RunWait \/ RunEnd \/ DropPendingTick
    \/ TickerExit

Handlers == Submitters \ {TickerId}

TickerNext ==
    \/ TickFires
    \/ TickerStep
    \/ StopTicker
    \/ PoolStep
    \/ /\ (\E s \in Handlers : Enqueue(s)) \/ ShutdownBegin \/ ShutdownStep
       /\ UNCHANGED tickerVars

TickerSpec == TickerInit /\ [][TickerNext]_allVars

PoolFair ==
    \A w \in Workers : WF_allVars(WorkerStep(w) /\ UNCHANGED tickerVars)

\* Jobs end within jobTimeout; RunEnds alone assumes it.
BatchesEnd == \A w \in Workers : WF_allVars(Finish(w))

\* Goroutines that can run do run; the select of loop picks at random, so it
\* cannot prefer a tick to stop for ever.
TickerFairSpec ==
    TickerSpec /\ PoolFair /\ WF_allVars(TickerStep) /\ SF_allVars(TickerExit)

-----------------------------------------------------------------------------
(* Properties. *)

\* Types of the ticker's state; no WaitGroup goes below zero.
TickerTypeOK ==
    /\ RunnerTypeOK
    /\ tick \in BOOLEAN /\ stop \in BOOLEAN /\ fresh \in BOOLEAN
    /\ ticker \in {"select", "listing", "submitting", "waiting", "dropping",
                   "exited", "off"}
    /\ toSubmit \subseteq Puuids
    /\ run \in 0..MaxRuns
    /\ outstanding \in [1..MaxRuns -> Nat]

\* The unfinished jobs of run r: in the channel, on a worker, or between the
\* two selects of Submit.
Unfinished(r) ==
    Cardinality({i \in DOMAIN jobs : jobs[i].run = r})
        + Cardinality({w \in Workers : current[w] # NoJob /\ current[w].run = r})
        + (IF call[TickerId] # NoJob /\ call[TickerId].run = r THEN 1 ELSE 0)

\* The WaitGroup of a run counts its unfinished jobs, neither more (waitBatch
\* would hang) nor fewer (the next run would start over this one, and a
\* WaitGroup below zero panics): done fires once per accepted job and runOnce
\* calls it itself for each job that was refused.
BatchCounted == \A r \in 1..MaxRuns : outstanding[r] = Unfinished(r)

\* While the ticker is not being stopped, a run begins only after every job of
\* the runs before it is over: a summoner never has two periodic jobs.
RunsDoNotOverlap ==
    stop \/ \A r \in 1..MaxRuns : r < run => Unfinished(r) = 0

\* A tick that comes while a run is going on is skipped, not queued
\* (DECISIONS.md, deviation 4): a run starts from a tick that came after the
\* previous one was over.
NoQueuedTick == [][run' # run => fresh]_allVars

\* If jobs end and the pool is up, a run comes to an end: the ticker is not stuck in
\* "a run is going on".
RunEnds ==
    BatchesEnd => ((ticker = "waiting") ~> (ticker # "waiting" \/ quit))

\* Stop returns, however long the jobs of the current run take.
StopReturns == stop ~> (ticker = "exited")
==============================================================================
