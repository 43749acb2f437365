---------------------------- MODULE LimiterSends ----------------------------
(***************************************************************************)
(* When the requests go out that the limiter of internal/ratelimit lets     *)
(* through: the moments at which its calls return nil, which the tests of   *)
(* the limiter measure, beside the moments it reserves, which are the       *)
(* subject of RateLimiter.                                                  *)
(***************************************************************************)
EXTENDS RateLimiter

VARIABLE sent  \* history: the real times at which calls of Wait returned nil

sendVars == <<vars, sent>>

SendInit == Init /\ sent = <<>>

\* Wait returns nil, at once or when the sleep is over, and never looks at the
\* clock again: the request goes out at whatever time it is by then.
Send(c) ==
    /\ Grant(c) \/ Wake(c)
    /\ sent' = Append(sent, clock)

\* Everything else that happens in a call, or between calls.
Hold ==
    /\ \/ Tick
       \/ \E c \in Callers : Enter(c) \/ ReadClock(c) \/ Sleep(c) \/ Refuse(c) \/ Cancel(c)
    /\ UNCHANGED sent

SendNext == Hold \/ \E c \in Callers : Send(c)

SendSpec == SendInit /\ [][SendNext]_sendVars

-----------------------------------------------------------------------------

\* PROGRESS.md: "no more than N in any window Per", an "exact guarantee",
\* which a limiter that lets a 21st request out within a second does not give.
\* Limit[w]+1 requests in a row span at least Per[w] (when no context has
\* ended in one of the moments named at RespectsLimits).
SendsRespectLimits ==
    ~lapsed =>
        \A w \in Windows : \A i \in 1..(Len(sent) - Limit[w]) :
            sent[i + Limit[w]] - sent[i] >= Per[w]
==============================================================================
