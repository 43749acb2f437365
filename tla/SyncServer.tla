----------------------------- MODULE SyncServer ------------------------------
(***************************************************************************)
(* run() and stopRunner of cmd/server/main.go: one process with the HTTP    *)
(* server, the ticker and the pool of workers, from the moment it serves    *)
(* until the database pool is closed.  The deferred calls run in reverse    *)
(* order: ticker.Stop, stopRunner, the cache, the pool.                     *)
(***************************************************************************)
EXTENDS SyncTicker

VARIABLES
    phase,     \* where run() is
    handling,  \* handlers in the middle of a request
    drained    \* server.Shutdown has returned nil

serverVars == <<phase, handling, drained>>
systemVars == <<allVars, serverVars>>

Phases ==
    {"serving",      \* waiting for a signal or for the server to fail
     "draining",     \* in server.Shutdown
     "stopTicker",   \* at the deferred ticker.Stop
     "tickerWait",   \* in ticker.Stop, waiting for the loop
     "stopRunner",   \* at the deferred stopRunner
     "runnerWait",   \* in runner.Shutdown
     "closed"}       \* cache and database pool closed

\* SYNC_INTERVAL=0 switches the ticker off.
ServerInit ==
    /\ TickerInit \/ (/\ RunnerInit /\ tick = FALSE /\ ticker = "off"
                      /\ toSubmit = {} /\ run = 0 /\ stop = FALSE
                      /\ outstanding = [r \in 1..MaxRuns |-> 0] /\ fresh = FALSE)
    /\ phase = "serving"
    /\ handling = {}
    /\ drained = FALSE

-----------------------------------------------------------------------------
(* Requests: createSummoner and forceSync call Enqueue. *)

\* Connections that were accepted go on being served while server.Shutdown waits
\* for them, after it has given up, and after ListenAndServe has failed; once it
\* has returned nil there is none.
RequestArrives(s) ==
    /\ ~drained
    /\ s \notin handling
    /\ handling' = handling \cup {s}
    /\ UNCHANGED <<allVars, phase, drained>>

RequestEnqueues(s) ==
    /\ s \in handling
    /\ Enqueue(s)
    /\ UNCHANGED <<tickerVars, serverVars>>

RequestEnds(s) ==
    /\ s \in handling
    /\ call[s] = NoJob
    /\ handling' = handling \ {s}
    /\ UNCHANGED <<allVars, phase, drained>>

-----------------------------------------------------------------------------
(* The main goroutine. *)

GoTo(from, to) == phase = from /\ phase' = to

\* SIGTERM or an interrupt: server.Shutdown closes the listener and idle connections.
Signal ==
    /\ GoTo("serving", "draining")
    /\ UNCHANGED <<allVars, handling, drained>>

\* ListenAndServe failed: run returns its error without server.Shutdown.
ListenFails ==
    /\ GoTo("serving", "stopTicker")
    /\ UNCHANGED <<allVars, handling, drained>>

\* No request is left.
Drained ==
    /\ GoTo("draining", "stopTicker")
    /\ handling = {}
    /\ drained' = TRUE
    /\ UNCHANGED <<allVars, handling>>

\* shutdownTimeout is up; run returns the error.
DrainTimeout ==
    /\ GoTo("draining", "stopTicker")
    /\ UNCHANGED <<allVars, handling, drained>>

TickerStop ==
    \/ /\ ticker # "off"
       /\ GoTo("stopTicker", "tickerWait")
       /\ StopTicker
       /\ UNCHANGED <<handling, drained>>
    \/ /\ ticker = "off"
       /\ GoTo("stopTicker", "stopRunner")
       /\ UNCHANGED <<allVars, handling, drained>>

\* Stop does not wait for the loop to end.
TickerStoppedBug ==
    /\ GoTo("tickerWait", "stopRunner")
    /\ UNCHANGED <<allVars, handling, drained>>

TickerStopped ==
    /\ GoTo("tickerWait", "stopRunner")
    /\ ticker = "exited"
    /\ UNCHANGED <<allVars, handling, drained>>

RunnerStop ==
    /\ GoTo("stopRunner", "runnerWait")
    /\ ShutdownBegin
    /\ UNCHANGED <<tickerVars, handling, drained>>

RunnerStops ==
    /\ phase = "runnerWait"
    /\ ShutdownStep
    /\ UNCHANGED <<tickerVars, serverVars>>

\* The defers in the order of the code without the one of stopRunner.
CloseBug ==
    /\ GoTo("runnerWait", "closed")
    /\ UNCHANGED <<allVars, handling, drained>>

\* responseCache.Close and pool.Close.
Close ==
    /\ GoTo("runnerWait", "closed")
    /\ shutdown = "returned"
    /\ UNCHANGED <<allVars, handling, drained>>

MainStep ==
    \/ Drained \/ DrainTimeout \/ TickerStop \/ TickerStopped \/ RunnerStop
    \/ RunnerStops \/ Close

ServerNext ==
    \/ \E s \in Handlers : RequestArrives(s) \/ RequestEnqueues(s) \/ RequestEnds(s)
    \/ Signal \/ ListenFails \/ MainStep
    \/ (TickFires \/ TickerStep \/ PoolStep) /\ UNCHANGED serverVars

ServerSpec == ServerInit /\ [][ServerNext]_systemVars

\* The main goroutine, the loop and the workers move when they can, timers
\* fire, and a job whose context is cancelled ends.  A request may last for
\* ever; so may a job by itself.
ServerFairSpec ==
    /\ ServerSpec
    /\ WF_systemVars(MainStep)
    /\ WF_systemVars(TickerStep /\ UNCHANGED serverVars)
    /\ SF_systemVars(TickerExit /\ UNCHANGED serverVars)
    /\ \A w \in Workers :
          /\ WF_systemVars(WorkerStep(w) /\ UNCHANGED <<tickerVars, serverVars>>)
          /\ WF_systemVars(cancelled /\ Finish(w) /\ UNCHANGED serverVars)

-----------------------------------------------------------------------------
(* Properties. *)

\* Types of main's state.
ServerTypeOK ==
    /\ TickerTypeOK
    /\ phase \in Phases
    /\ handling \subseteq Handlers
    /\ drained \in BOOLEAN

\* "The workers must not touch a pool that is already closed" (main.go), and
\* neither must the ticker, which reads the tracked summoners from it: when it
\* is closed, all of their goroutines are gone, whichever way run() got there.
PoolClosedLast ==
    phase = "closed" => Exited /\ ticker \in {"exited", "off"}

\* After the requests have been drained nothing is accepted by a pool that is
\* shutting down: no 202 and no batch is lost because a sender passed the check
\* of quit before quit was closed and sent after it.
NothingAcceptedLate ==
    [][quit /\ accepted' # accepted => ~drained]_systemVars

\* The process ends once it has been told to, although neither the requests
\* nor the jobs need to end by themselves.
Terminates == (phase # "serving") ~> (phase = "closed")

==============================================================================
