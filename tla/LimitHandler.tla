---------------------------- MODULE LimitHandler ----------------------------
(***************************************************************************)
(* The request limits of the exporter (xpu-exporter/common/limiter/        *)
(* limit_handler.go). A request takes a token from a channel that was      *)
(* filled at the start. ServeHTTP puts it back if the handler took less    *)
(* than httpMaxWaitTime; if not, the goroutine of returnToken has done so  *)
(* when that time was over. Which of the two it is depends on two clocks.  *)
(***************************************************************************)
EXTENDS Integers, FiniteSets

CONSTANTS
  Request,          \* requests
  Client,           \* client addresses
  TotalConCurrency, \* capacity of the channel
  MaxPerMinute      \* MaxIPRequestsPerMinute

ASSUME LimitHandlerAssumption ==
  /\ TotalConCurrency \in Nat \ {0} /\ MaxPerMinute \in Nat \ {0}
  /\ IsFiniteSet(Request)

VARIABLES
  tokens,    \* the tokens in the channel
  counter,   \* counter[i]: requests of client i in its minute, -1 without a counter
  req,       \* req[r]: how far ServeHTTP is
  late,      \* late[r]: httpMaxWaitTime has passed since start
  finished,  \* finished[r]: what "stop" was compared to: "fast", "slow" or "none"
  cancelled, \* cancelled[r]: cancelFunc was called
  waiter,    \* waiter[r]: the goroutine of returnToken
  returned   \* history: returned[r] is how often the token of r was put back

handlerVars == <<tokens, counter, req, late, finished, cancelled, waiter, returned>>

HandlerInit ==
  /\ tokens = TotalConCurrency
  /\ counter = [i \in Client |-> -1]
  /\ req = [r \in Request |-> "none"]
  /\ late = [r \in Request |-> FALSE]
  /\ finished = [r \in Request |-> "none"]
  /\ cancelled = [r \in Request |-> FALSE]
  /\ waiter = [r \in Request |-> "none"]
  /\ returned = [r \in Request |-> 0]

Goto(r, l) == req' = [req EXCEPT ![r] = l]

\* checkIPRequestLimit: the first request of a client starts its minute.
CheckIPRequestLimit(r, i) ==
  /\ req[r] = "none"
  /\ LET n == IF counter[i] = -1 THEN 0 ELSE counter[i] IN
       IF n >= MaxPerMinute
       THEN Goto(r, "refused") /\ UNCHANGED counter
       ELSE Goto(r, "admitted") /\ counter' = [counter EXCEPT ![i] = n + 1]
  /\ UNCHANGED <<tokens, late, finished, cancelled, waiter, returned>>

\* AfterFunc deletes the counter.
MinuteEnds(i) ==
  /\ counter[i] # -1
  /\ counter' = [counter EXCEPT ![i] = -1]
  /\ UNCHANGED <<tokens, req, late, finished, cancelled, waiter, returned>>

TooBusy(r) ==
  /\ req[r] = "admitted" /\ tokens = 0
  /\ Goto(r, "refused")
  /\ UNCHANGED <<tokens, counter, late, finished, cancelled, waiter, returned>>

\* A token, but a method that is not h.method.
NotFound(r) ==
  /\ req[r] = "admitted" /\ tokens > 0
  /\ tokens' = tokens - 1
  /\ Goto(r, "returning")
  /\ UNCHANGED <<counter, late, finished, cancelled, waiter, returned>>

\* Mutant of Serve: the goroutine of returnToken is not started.
ServeAlone(r) ==
  /\ req[r] = "admitted" /\ tokens > 0
  /\ tokens' = tokens - 1
  /\ Goto(r, "running")
  /\ UNCHANGED <<counter, late, finished, cancelled, waiter, returned>>

\* A token, and the goroutine that watches over it.
Serve(r) ==
  /\ req[r] = "admitted" /\ tokens > 0
  /\ tokens' = tokens - 1
  /\ Goto(r, "running")
  /\ waiter' = [waiter EXCEPT ![r] = "waiting"]
  /\ UNCHANGED <<counter, late, finished, cancelled, returned>>

\* httpMaxWaitTime passes. The timer of returnToken was started after "start"
\* was taken and runs out no earlier.
WaitTimePasses(r) ==
  /\ ~late[r] /\ req[r] \notin {"none", "admitted"} /\ waiter[r] = "waiting"
  /\ late' = [late EXCEPT ![r] = TRUE]
  /\ UNCHANGED <<tokens, counter, req, finished, cancelled, waiter, returned>>

\* The handler of the request returns and "stop" is measured.
Handled(r) ==
  /\ req[r] = "running"
  /\ Goto(r, "handled")
  /\ finished' = [finished EXCEPT ![r] = IF late[r] THEN "slow" ELSE "fast"]
  /\ UNCHANGED <<tokens, counter, late, cancelled, waiter, returned>>

\* The handler panics: net/http recovers, nothing is cancelled.
HandlerPanics(r) ==
  /\ req[r] = "running"
  /\ Goto(r, "done")
  /\ UNCHANGED <<tokens, counter, late, finished, cancelled, waiter, returned>>

\* Mutant of Cancel: the token is put back whatever the time.
CancelAlwaysReturns(r) ==
  /\ req[r] = "handled"
  /\ cancelled' = [cancelled EXCEPT ![r] = TRUE]
  /\ Goto(r, "returning")
  /\ UNCHANGED <<tokens, counter, late, finished, waiter, returned>>

\* cancelFunc, and the comparison of stop.
Cancel(r) ==
  /\ req[r] = "handled"
  /\ cancelled' = [cancelled EXCEPT ![r] = TRUE]
  /\ Goto(r, IF finished[r] = "fast" THEN "returning" ELSE "done")
  /\ UNCHANGED <<tokens, counter, late, finished, waiter, returned>>

\* A send to the channel waits while it is full.
PutBack(r) ==
  /\ tokens < TotalConCurrency
  /\ tokens' = tokens + 1
  /\ returned' = [returned EXCEPT ![r] = @ + 1]

ServeReturn(r) ==
  /\ req[r] = "returning"
  /\ PutBack(r)
  /\ Goto(r, "done")
  /\ UNCHANGED <<counter, late, finished, cancelled, waiter>>

\* returnToken: its select takes either of two cases that are ready.
WaiterTimeout(r) ==
  /\ waiter[r] = "waiting" /\ late[r]
  /\ waiter' = [waiter EXCEPT ![r] = "sending"]
  /\ UNCHANGED <<tokens, counter, req, late, finished, cancelled, returned>>
WaiterDone(r) ==
  /\ waiter[r] = "waiting" /\ cancelled[r]
  /\ waiter' = [waiter EXCEPT ![r] = "ended"]
  /\ UNCHANGED <<tokens, counter, req, late, finished, cancelled, returned>>
WaiterReturns(r) ==
  /\ waiter[r] = "sending"
  /\ PutBack(r)
  /\ waiter' = [waiter EXCEPT ![r] = "ended"]
  /\ UNCHANGED <<counter, req, late, finished, cancelled>>

Progress(r) == Cancel(r) \/ ServeReturn(r)
Wait(r) == WaitTimePasses(r) \/ WaiterTimeout(r) \/ WaiterDone(r) \/ WaiterReturns(r)

HandlerNext ==
  \/ \E r \in Request, i \in Client : CheckIPRequestLimit(r, i)
  \/ \E r \in Request : TooBusy(r) \/ NotFound(r) \/ Serve(r)
  \/ \E r \in Request : Handled(r) \/ HandlerPanics(r)
  \/ \E r \in Request : Progress(r) \/ Wait(r)
  \/ \E i \in Client : MinuteEnds(i)

\* Go runs what can run and timers run out. The handler itself need not return.
HandlerSpec ==
  /\ HandlerInit /\ [][HandlerNext]_handlerVars
  /\ \A r \in Request : WF_handlerVars(Progress(r)) /\ WF_handlerVars(Wait(r))

-----------------------------------------------------------------------------
(* Properties                                                              *)

HandlerTypeOK ==
  /\ tokens \in 0..TotalConCurrency
  /\ counter \in [Client -> -1..MaxPerMinute]
  /\ req \in [Request ->
       {"none", "admitted", "refused", "running", "handled", "returning", "done"}]
  /\ late \in [Request -> BOOLEAN] /\ cancelled \in [Request -> BOOLEAN]
  /\ finished \in [Request -> {"none", "fast", "slow"}]
  /\ waiter \in [Request -> {"none", "waiting", "sending", "ended"}]
  /\ returned \in [Request -> 0..2]

\* The two windows in which the clocks disagree: the handler was just faster
\* than httpMaxWaitTime and the timer ran out before cancelFunc was seen; it was
\* just slower, and cancelFunc was seen before the timer.
Twice(r) == finished[r] = "fast" /\ late[r]
Missed(r) == finished[r] = "slow" /\ waiter[r] = "ended" /\ returned[r] = 0

Holding == {r \in Request : req[r] \in {"running", "handled", "returning"} /\ returned[r] = 0}

\* Outside the first window no token is put back twice: the tokens in the
\* channel and the requests that hold one are never more than the limit
\* (returnToken, ServeHTTP), so no more requests are served at a time,
\* those of more than httpMaxWaitTime not counted.
Bounded == (\A r \in Request : ~Twice(r)) => tokens + Cardinality(Holding) <= TotalConCurrency

\* A token that was taken is put back, also when the handler panics or never
\* returns, unless it was lost in the second window or another one was
\* put back twice in the first, and then fills the channel.
TokenComesBack ==
  \A r \in Request :
    r \in Holding ~> (returned[r] > 0 \/ Missed(r) \/ \E q \in Request : Twice(q))

\* "the token must be returned to prevent the HTTP service from being
\* unavailable" (limit_handler.go:171-172). False: it is lost when the handler
\* ends at that moment and the goroutine sees the cancelled context first.
AlwaysReturned == \A r \in Request :
  r \in Holding ~> (returned[r] > 0 \/ \E q \in Request : Twice(q))
=============================================================================
