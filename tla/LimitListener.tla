---------------------------- MODULE LimitListener ----------------------------
(***************************************************************************)
(* The listener of the exporter (xpu-exporter/common/limiter/              *)
(* limit_listener.go), which counts connections per address in the cache   *)
(* of LruCache and in all by the places of a channel. One goroutine of     *)
(* http.Server accepts; each connection is closed by a goroutine of its    *)
(* own, and once more by Shutdown or after a plain request to a TLS port.  *)
(***************************************************************************)
EXTENDS LruCache, FiniteSets

CONSTANTS
  Conn,           \* connections
  IpOf,           \* their addresses, keys of the cache
  TotalConnLimit, \* capacity of buckets
  IpConnLimit,    \* ipConnLimit
  Hour            \* expiry time of a counter after a connection is closed

ASSUME LimitListenerAssumption ==
  /\ IpOf \in [Conn -> Key] /\ Hour \in Nat \ {0}
  /\ TotalConnLimit \in Nat \ {0} /\ IpConnLimit \in Nat \ {0}
  /\ IsFiniteSet(Conn) /\ Cardinality(Conn) <= MaxCount \* fewer than 2^63

VARIABLES
  conn,      \* conn[c]: how far connection c is
  buckets,   \* how many places of the channel are taken
  closed,    \* Close of the listener has closed the channel
  panicked,  \* a send on the closed channel has ended the process
  again,     \* connections whose Close was called a second time
  forgotten  \* history: a counter has expired or been evicted under open connections

listenerVars == <<conn, buckets, closed, panicked, again, forgotten>>
allVars == <<vars, listenerVars>>

\* The connections that are in the count of address ip.
Counted(ip) == {c \in Conn : IpOf[c] = ip /\ conn[c] \in {"counted", "slot", "over", "closing"}}

\* What IncreaseOne and DecreaseOne go on from.
Counter(ip) ==
  LET c == cache[SegmentOf[ip]] IN IF Has(c, ip) /\ Alive(c.elem[ip]) THEN c.elem[ip].data ELSE 0
Gone(ip) ==
  LET c == cache[SegmentOf[ip]] IN Counted(ip) # {} /\ ~(Has(c, ip) /\ Alive(c.elem[ip]))

Note == forgotten' = (forgotten \/ \E ip \in Key : Gone(ip)')

ListenerInit ==
  /\ Init
  /\ conn = [c \in Conn |-> "none"]
  /\ buckets = 0 /\ closed = FALSE /\ panicked = FALSE /\ again = {} /\ forgotten = FALSE

\* Accept, up to the limit of the address.
AcceptCount(c) ==
  /\ ~panicked /\ ~closed /\ conn[c] = "none"
  /\ \A d \in Conn : conn[d] # "counted"
  /\ IncreaseOne(IpOf[c], Never)
  /\ conn' = [conn EXCEPT ![c] = IF reply'.ok /\ reply'.val > IpConnLimit THEN "over" ELSE "counted"]
  /\ UNCHANGED <<buckets, closed, panicked, again>>
  /\ Note

\* Accept, the rest: acquire, and closeImmediately, which closes nothing.
AcceptAcquire(c) ==
  /\ ~panicked /\ ~closed /\ conn[c] = "counted"
  /\ IF buckets < TotalConnLimit
     THEN conn' = [conn EXCEPT ![c] = "slot"] /\ buckets' = buckets + 1
     ELSE conn' = [conn EXCEPT ![c] = "over"] /\ UNCHANGED buckets
  /\ UNCHANGED <<vars, closed, panicked, again, forgotten>>

\* The same after Close of the listener: select on a closed channel panics.
AcquirePanics(c) ==
  /\ ~panicked /\ closed /\ conn[c] = "counted"
  /\ panicked' = TRUE
  /\ UNCHANGED <<vars, conn, buckets, closed, again, forgotten>>

\* Close of the listener, by Shutdown.
CloseListener ==
  /\ ~panicked /\ ~closed
  /\ closed' = TRUE
  /\ UNCHANGED <<vars, conn, buckets, panicked, again, forgotten>>

\* Mutant of CloseRelease: a refused connection is counted down here already.
CloseReleaseCounts(c) ==
  /\ ~panicked /\ conn[c] = "over"
  /\ conn' = [conn EXCEPT ![c] = "closing"]
  /\ DecreaseOne(IpOf[c], Hour)
  /\ UNCHANGED <<buckets, closed, panicked, again, forgotten>>

\* Close of a connection: the connection, then releaseOnce. A receive from the
\* open channel waits for a token.
CloseRelease(c) ==
  /\ ~panicked /\ conn[c] \in {"slot", "over"}
  /\ conn' = [conn EXCEPT ![c] = "closing"]
  /\ IF conn[c] = "over" \/ (closed /\ buckets = 0) THEN UNCHANGED buckets
     ELSE buckets > 0 /\ buckets' = buckets - 1
  /\ UNCHANGED <<vars, closed, panicked, again, forgotten>>

\* Mutant of CloseCount: an error of the connection returns early.
CloseCountNever(c) ==
  /\ ~panicked /\ conn[c] = "closing"
  /\ conn' = [conn EXCEPT ![c] = "closed"]
  /\ UNCHANGED <<vars, buckets, closed, panicked, again>>
  /\ Note

\* Close of a connection, the rest: DecreaseOne.
CloseCount(c) ==
  /\ ~panicked /\ conn[c] = "closing"
  /\ DecreaseOne(IpOf[c], Hour)
  /\ conn' = [conn EXCEPT ![c] = "closed"]
  /\ UNCHANGED <<buckets, closed, panicked, again>>
  /\ Note

\* Mutant of CloseAgain: no releaseOnce.
CloseAgainReleases(c) ==
  /\ ~panicked /\ conn[c] \in {"closing", "closed"} /\ c \notin again
  /\ DecreaseOne(IpOf[c], Hour)
  /\ again' = again \cup {c}
  /\ buckets > 0 /\ buckets' = buckets - 1
  /\ UNCHANGED <<conn, closed, panicked>>
  /\ Note

\* Close called a second time: the place is released once, the address is
\* counted down again.
CloseAgain(c) ==
  /\ ~panicked /\ conn[c] \in {"closing", "closed"} /\ c \notin again
  /\ DecreaseOne(IpOf[c], Hour)
  /\ again' = again \cup {c}
  /\ UNCHANGED <<conn, buckets, closed, panicked>>
  /\ Note

Clock == ~panicked /\ Tick /\ UNCHANGED <<conn, buckets, closed, panicked, again>> /\ Note

Accept(c) == AcceptCount(c) \/ AcceptAcquire(c) \/ AcquirePanics(c)
CloseConn(c) == CloseRelease(c) \/ CloseCount(c)

ListenerNext ==
  \/ \E c \in Conn : Accept(c) \/ CloseConn(c) \/ CloseAgain(c)
  \/ CloseListener
  \/ Clock

ListenerSpec == ListenerInit /\ [][ListenerNext]_allVars

-----------------------------------------------------------------------------
(* Properties                                                              *)

ListenerTypeOK ==
  /\ conn \in [Conn -> {"none", "counted", "slot", "over", "closing", "closed"}]
  /\ buckets \in 0..TotalConnLimit
  /\ closed \in BOOLEAN /\ panicked \in BOOLEAN /\ forgotten \in BOOLEAN
  /\ again \subseteq Conn

\* The places taken are those of the connections that hold one, whatever is
\* closed twice (acquire, release): none is lost, none is given back for another.
PlacesMatch ==
  /\ buckets = Cardinality({c \in Conn : conn[c] = "slot"})
  /\ buckets <= TotalConnLimit

\* The count of an address may be too low, and then lets more in than the
\* limit; it is never too high, which would shut the address out for ever
\* although its connections are gone.
NeverTooHigh == \A ip \in Key : Counter(ip) <= Cardinality(Counted(ip))

\* It is too low only if Close was called twice, or if the counter of an
\* address with open connections has expired an hour after one of them was
\* closed, or was evicted by another address of its segment.
ExactUnlessForgotten ==
  ~forgotten /\ again = {} => \A ip \in Key : Counter(ip) = Cardinality(Counted(ip))

\* "LimitListener returns a Listener that accepts at most n connections at the
\* same time" (limit_listener.go:23). False: closeImmediately returns the
\* connection to the server, which serves it.
AtMostTotal == Cardinality({c \in Conn : conn[c] \in {"slot", "over"}}) <= TotalConnLimit
=============================================================================
