------------------------------ MODULE Lifecycle -----------------------------
(***************************************************************************)
(* The process: main of cmd/app/main.go from reading its configuration to  *)
(* the exit, the goroutine that serves, and the requests that are served   *)
(* meanwhile, with every timeout that main sets up.  What a request does   *)
(* is here only how long its steps may take and which of them hold a       *)
(* connection of the pool.                                                 *)
(***************************************************************************)
EXTENDS Integers, FiniteSets

CONSTANTS
  Request,
  ForkTimeout,   \* SimulationTimeoutSeconds
  Margin,        \* what WriteTimeout adds to it, 10 s
  ReadTimeout,   \* for the header and the body of a request, 15 s
  LookupTimeout, \* one lookup of token metadata, 3 s
  Grace,         \* what Shutdown waits for, 30 s
  Fresh,         \* how long Shutdown spares a connection that has sent nothing
  QueryTime,     \* assumed: Postgres answers within this time
  RedisTime,     \* assumed: so does Redis, or go-redis gives up retrying
  MaxTokens,     \* bound: tokens one simulation looks up
  MaxSignals     \* bound: SIGINT and SIGTERM

ASSUME TimeAssumption ==
  /\ {ForkTimeout, LookupTimeout, QueryTime, Grace, Fresh} \subseteq Nat \ {0}
  /\ {Margin, ReadTimeout, RedisTime, MaxTokens, MaxSignals} \subseteq Nat

VARIABLES
  main,     \* where main is
  server,   \* the goroutine of ListenAndServe
  pool,     \* the connection pool: it is open
  redis,    \* the Redis client: it is open
  quit,     \* signals in the channel
  signals,  \* signals sent so far
  elapsed,  \* time since Shutdown was called
  exit,     \* how the process has ended
  stage,    \* [Request -> where it is]
  tokens,   \* [Request -> tokens that its simulation looks up]
  left,     \* [Request -> lookups to come]
  spent,    \* [Request -> time in this stage]
  forked,   \* [Request -> time in the fork]
  outside   \* [Request -> time since its header was read, but for that]

vars == <<main, server, pool, redis, quit, signals, elapsed, exit, stage, tokens,
          left, spent, forked, outside>>

process  == <<server, pool, redis, quit, signals, elapsed, exit>>
requests == <<stage, tokens, left, spent, forked, outside>>
times    == <<forked, outside>>

Main   == {"config", "postgres", "redis", "node", "serve", "notify", "notified",
           "wait", "drain", "drain_again", "close_redis", "close_pool",
           "pool_wait", "ended"}
Stage  == {"idle", "accepted", "auth", "body", "get", "fork", "set", "lookup",
           "query", "answered", "timed_out", "dropped", "killed"}
Serving == {"auth", "body", "get", "fork", "set", "lookup", "query"}
Orderly == "orderly"

Active   == {r \in Request : stage[r] \in Serving}
Querying == {r \in Request : stage[r] \in {"auth", "query"}}

\* Bug: the write timeout is the simulation's.
WriteTimeoutTight == ForkTimeout

\* Which net/http counts from the end of the header.
WriteTimeout == ForkTimeout + Margin
-----------------------------------------------------------------------------
\* The end of the process is the end of all that it serves.
Exit(how) ==
  /\ main' = "ended"
  /\ exit' = how
  /\ stage' = [r \in Request |->
                 IF stage[r] \in Serving \cup {"accepted"} THEN "killed" ELSE stage[r]]
  /\ UNCHANGED <<server, pool, redis, quit, signals, elapsed, tokens, left, spent, times>>

\* must: os.Exit runs no deferred call.
Must == Exit("failed")

Advance(from, to) == main = from /\ main' = to

\* config.New: .env and the environment, or else the environment alone.
LoadConfig ==
  \/ /\ Advance("config", "postgres")
     /\ UNCHANGED <<process, requests>>
  \/ main = "config" /\ Must

ConnectPostgres ==
  \/ /\ Advance("postgres", "redis")
     /\ pool' = TRUE
     /\ UNCHANGED <<server, redis, quit, signals, elapsed, exit, requests>>
  \/ main = "postgres" /\ Must

ConnectRedis ==
  \/ /\ Advance("redis", "node")
     /\ redis' = TRUE
     /\ UNCHANGED <<server, pool, quit, signals, elapsed, exit, requests>>
  \/ main = "redis" /\ Must

DialNode ==
  \/ /\ Advance("node", "serve")
     /\ UNCHANGED <<process, requests>>
  \/ main = "node" /\ Must

\* go func() { ListenAndServe }, and on without waiting for it.
StartServer ==
  /\ Advance("serve", "notify")
  /\ server' = "starting"
  /\ UNCHANGED <<pool, redis, quit, signals, elapsed, exit, requests>>

Notify == Advance("notify", "notified") /\ UNCHANGED <<process, requests>>
Wait   == Advance("notified", "wait") /\ UNCHANGED <<process, requests>>

Listen ==
  /\ server = "starting" /\ main # "ended"
  /\ server' = "listening"
  /\ UNCHANGED <<main, pool, redis, quit, signals, elapsed, exit, requests>>

\* ListenAndServe returns an error that is not ErrServerClosed: log.Fatal.
ListenFails ==
  /\ server \in {"starting", "listening"} /\ main # "ended"
  /\ Exit("failed")

Notified == main \in Main \ {"config", "postgres", "redis", "node", "serve", "notify"}

\* Bug: quit is made without a buffer, and a signal that finds nobody at the
\* channel is dropped.
SignalUnbuffered ==
  /\ signals < MaxSignals /\ main # "ended"
  /\ \/ ~Notified /\ Exit("killed")
     \/ /\ Notified
        /\ signals' = signals + 1
        /\ quit' = IF main = "wait" THEN 1 ELSE quit
        /\ UNCHANGED <<main, server, pool, redis, elapsed, exit, requests>>

\* Until Notify a signal kills the process, afterwards it goes to the channel,
\* which has room for one.
Signal ==
  /\ signals < MaxSignals /\ main # "ended"
  /\ \/ ~Notified /\ Exit("killed")
     \/ /\ Notified
        /\ signals' = signals + 1
        /\ quit' = 1
        /\ UNCHANGED <<main, server, pool, redis, elapsed, exit, requests>>

\* Shutdown begins by closing the listener.
Receive ==
  /\ Advance("wait", "drain")
  /\ quit = 1 /\ quit' = 0
  /\ server' = "closed"
  /\ UNCHANGED <<pool, redis, signals, elapsed, exit, requests>>

\* closeIdleConns: a connection that has sent nothing for long is idle.
Sparing == {r \in Request : stage[r] = "accepted" /\ spent[r] < Fresh}
Drained == Active = {} /\ Sparing = {}

CloseIdleConns ==
  stage' = [r \in Request |->
              IF stage[r] = "accepted" /\ r \notin Sparing THEN "dropped" ELSE stage[r]]

\* Bug: the server is told to stop, and is not waited for.
DrainAtOnce ==
  /\ main \in {"drain", "drain_again"}
  /\ main' = "close_redis"
  /\ CloseIdleConns
  /\ UNCHANGED <<process, tokens, left, spent, times>>

\* Shutdown looks again and again until all is served, or fails when its
\* context is over; the second call has that same context and looks once.
\* Either way main goes on to its end.
Drain ==
  /\ \/ main = "drain" /\ main' = IF Drained THEN "close_redis" ELSE main
     \/ Advance("drain", "drain_again") /\ elapsed = Grace
     \/ Advance("drain_again", "close_redis")
  /\ CloseIdleConns
  /\ UNCHANGED <<process, tokens, left, spent, times>>

\* The deferred calls, last one first.
CloseRedis ==
  /\ Advance("close_redis", "close_pool")
  /\ redis' = FALSE
  /\ UNCHANGED <<server, pool, quit, signals, elapsed, exit, requests>>

\* No more connections are given out, and those in use are waited for.
ClosePool ==
  /\ Advance("close_pool", "pool_wait")
  /\ pool' = FALSE
  /\ UNCHANGED <<server, redis, quit, signals, elapsed, exit, requests>>

\* Bug: the pool is taken to wait for handlers, whatever they do.
HandlersIdle == Active = {}

\* Every connection of the pool has been given back.
PoolIdle == Querying = {}

Return ==
  /\ main = "pool_wait" /\ PoolIdle
  /\ Exit(Orderly)
-----------------------------------------------------------------------------
Enter(r, s) ==
  /\ stage' = [stage EXCEPT ![r] = s]
  /\ spent' = [spent EXCEPT ![r] = 0]
  /\ UNCHANGED <<main, process>>

\* The answer is written when the handler returns: too late, it is lost.
Write(r) ==
  Enter(r, IF outside[r] + forked[r] < WriteTimeout THEN "answered" ELSE "timed_out")

Accept(r) ==
  /\ server = "listening" /\ main # "ended"
  /\ stage[r] = "idle"
  /\ Enter(r, "accepted")
  /\ UNCHANGED <<tokens, left, times>>

\* The client goes away, or ReadTimeout passes.
Abandon(r) ==
  /\ stage[r] = "accepted" /\ main # "ended"
  /\ Enter(r, "dropped")
  /\ UNCHANGED <<tokens, left, times>>

\* The header is read, also of a connection that Shutdown still spares.  What
\* the limiter refuses is answered at once; so is everything when the pool is
\* closed, since no key can be validated.
Begin(r) ==
  /\ stage[r] = "accepted" /\ main # "ended"
  /\ \/ pool /\ Enter(r, "auth")
     \/ Write(r)
  /\ UNCHANGED <<tokens, left, times>>

\* A simulation reads its body, the other two handlers go to their SELECT.
Authenticated(r) ==
  /\ stage[r] = "auth"
  /\ \/ Enter(r, "body")
     \/ pool /\ Enter(r, "query")
     \/ Write(r)
  /\ UNCHANGED <<tokens, left, times>>

\* ShouldBindJSON has the body, and the cache is asked; a closed client fails at
\* once.  A body that is late or no request is answered here.
ReadBody(r) ==
  /\ stage[r] = "body"
  /\ \/ Enter(r, IF redis THEN "get" ELSE "fork")
     \/ Write(r)
  /\ UNCHANGED <<tokens, left, times>>

\* The result is there, and with it the tokens to look up.
Decode(r) ==
  /\ \E n \in 0..MaxTokens : tokens' = [tokens EXCEPT ![r] = n]
                            /\ left' = [left EXCEPT ![r] = n]
  /\ Enter(r, "lookup")
  /\ UNCHANGED times

\* A hit goes around the fork.
CacheGet(r) ==
  /\ stage[r] = "get"
  /\ \/ Decode(r)
     \/ Enter(r, "fork") /\ UNCHANGED <<tokens, left, times>>

\* The result is stored before it is used; an error of the fork is answered.
ForkAnswers(r) ==
  /\ stage[r] = "fork"
  /\ \/ redis /\ Enter(r, "set") /\ UNCHANGED <<tokens, left, times>>
     \/ ~redis /\ Decode(r)
     \/ Write(r) /\ UNCHANGED <<tokens, left, times>>

CacheSet(r) == stage[r] = "set" /\ Decode(r)

\* One lookup after the other; then Save, whose error nobody minds.
LookUp(r) ==
  /\ stage[r] = "lookup"
  /\ \/ /\ left[r] > 0
        /\ left' = [left EXCEPT ![r] = @ - 1]
        /\ Enter(r, "lookup")
     \/ /\ left[r] = 0
        /\ IF pool THEN Enter(r, "query") ELSE Write(r)
        /\ UNCHANGED left
  /\ UNCHANGED <<tokens, times>>

QueryAnswers(r) ==
  /\ stage[r] = "query"
  /\ Write(r)
  /\ UNCHANGED <<tokens, left, times>>

\* Bug: symbol() and decimals() get a timeout each.
LimitPerCall(r) ==
  CASE stage[r] \in {"auth", "query"} -> QueryTime
    [] stage[r] \in {"get", "set"}    -> RedisTime
    [] stage[r] = "fork"             -> ForkTimeout
    [] stage[r] = "lookup"           -> IF left[r] = 0 THEN 0 ELSE 2 * LookupTimeout

\* How long a stage may last.  Redis is asked outside the fork's timeout.
Limit(r) ==
  CASE stage[r] \in {"auth", "query"} -> QueryTime
    [] stage[r] \in {"get", "set"}    -> RedisTime
    [] stage[r] = "fork"             -> ForkTimeout
    [] stage[r] = "lookup"           -> IF left[r] = 0 THEN 0 ELSE LookupTimeout

\* It may last no longer.  The deadline of the body was set when the request
\* began, and may be over before anybody reads.
Over(r) ==
  IF stage[r] = "body" THEN outside[r] >= ReadTimeout ELSE spent[r] >= Limit(r)

\* main has something to do in its shutdown.
Due ==
  \/ main \in {"drain_again", "close_redis", "close_pool"}
  \/ main = "drain" /\ (Drained \/ elapsed = Grace)
  \/ main = "pool_wait" /\ PoolIdle

\* Time goes by where nothing is due.  Connections that have sent nothing do
\* not age beyond what Shutdown asks of them.
Tick ==
  /\ main # "ended" /\ ~Due
  /\ \A r \in Active : ~Over(r)
  /\ spent' = [r \in Request |->
                 IF r \in Active \cup Sparing THEN spent[r] + 1 ELSE spent[r]]
  /\ forked' = [r \in Request |->
                  IF stage[r] = "fork" THEN forked[r] + 1 ELSE forked[r]]
  /\ outside' = [r \in Request |->
                   IF r \in Active /\ stage[r] # "fork" THEN outside[r] + 1
                   ELSE outside[r]]
  /\ elapsed' = IF server = "closed" THEN elapsed + 1 ELSE elapsed
  /\ UNCHANGED <<main, server, pool, redis, quit, signals, exit, stage, tokens, left>>

Init ==
  /\ main = "config" /\ server = "off"
  /\ pool = FALSE /\ redis = FALSE
  /\ quit = 0 /\ signals = 0 /\ elapsed = 0 /\ exit = "none"
  /\ stage = [r \in Request |-> "idle"]
  /\ tokens = [r \in Request |-> 0]
  /\ left = [r \in Request |-> 0]
  /\ spent = [r \in Request |-> 0]
  /\ forked = [r \in Request |-> 0]
  /\ outside = [r \in Request |-> 0]

Startup  == LoadConfig \/ ConnectPostgres \/ ConnectRedis \/ DialNode \/ StartServer
Shutdown == Notify \/ Wait \/ Receive \/ Drain \/ CloseRedis \/ ClosePool \/ Return
Handle(r) ==
  \/ Authenticated(r) \/ ReadBody(r)
  \/ CacheGet(r) \/ ForkAnswers(r) \/ CacheSet(r)
  \/ LookUp(r) \/ QueryAnswers(r)

Next ==
  \/ Startup \/ Shutdown
  \/ Listen \/ ListenFails \/ Signal \/ Tick
  \/ \E r \in Request : Accept(r) \/ Abandon(r) \/ Begin(r) \/ Handle(r)

Spec == Init /\ [][Next]_vars

\* main and the handlers go on when they can, and time passes.  Nobody need
\* connect, send a header or a signal, and startup need not succeed.
FairSpec ==
  /\ Spec
  /\ WF_vars(Shutdown) /\ WF_vars(Tick)
  /\ \A r \in Request : WF_vars(Handle(r))
-----------------------------------------------------------------------------
\* Every variable keeps its type.
TypeOK ==
  /\ main \in Main
  /\ server \in {"off", "starting", "listening", "closed"}
  /\ pool \in BOOLEAN /\ redis \in BOOLEAN
  /\ quit \in {0, 1} /\ signals \in 0..MaxSignals /\ elapsed \in Nat
  /\ exit \in {"none", "failed", "killed", Orderly}
  /\ stage \in [Request -> Stage]
  /\ tokens \in [Request -> 0..MaxTokens] /\ left \in [Request -> 0..MaxTokens]
  /\ spent \in [Request -> Nat]
  /\ forked \in [Request -> Nat] /\ outside \in [Request -> Nat]

\* In an orderly end, Redis and the pool are closed under a handler, or a
\* handler is cut off, only after Shutdown has waited for the whole of its
\* time (main.go:127-144, 57 and 73).
HandlersHaveTheirGrace ==
  main \in {"close_redis", "close_pool", "pool_wait"} \/ exit = Orderly =>
    \/ Active = {} /\ \A r \in Request : stage[r] # "killed"
    \/ elapsed >= Grace

\* The process is gone after Shutdown's time and one more query, which
\* pool.Close waits for, however long a simulation may still take
\* (main.go:57, 133).
StopsInTime == elapsed <= Grace + QueryTime

\* Reading the key and the body is over by then.
Arrival == IF QueryTime < ReadTimeout THEN ReadTimeout ELSE QueryTime

\* What is not under the simulation's timeout and counts for the WriteTimeout all
\* the same: the key, the body, GET and SET, the lookups, the INSERT.
Overhead(r) == Arrival + 2 * RedisTime + tokens[r] * LookupTimeout + QueryTime

\* The 10 seconds that the WriteTimeout adds are for all that is outside the
\* simulation's timeout: an answer is lost only when a request has really spent
\* them there, in the steps and within the bounds of Overhead, and never since
\* the node was slow (main.go:115-116, simulation.go:38,
\* simulation_cache.go:52 and 72, token_decoder.go:212).
AnswersInTime ==
  \A r \in Request :
    stage[r] = "timed_out" => Margin <= outside[r] /\ outside[r] <= Overhead(r)

(***************************************************************************)
(* The inductive invariant behind the three.  For a request: how long its  *)
(* earlier stages can have taken, that no stage outlasts its limit, and    *)
(* that it is served for no longer than its steps may take together        *)
(* (main.go:112-118, simulation_cache.go:49-81, token_decoder.go:212).     *)
(***************************************************************************)
Before(r) ==
  CASE stage[r] = "auth"          -> 0
    [] stage[r] = "get"           -> Arrival
    [] stage[r] \in {"fork", "set"} -> Arrival + RedisTime
    [] stage[r] = "lookup"        -> Arrival + 2 * RedisTime
                                       + (tokens[r] - left[r]) * LookupTimeout
    [] stage[r] = "query"         -> Arrival + 2 * RedisTime + tokens[r] * LookupTimeout

TimeInv(r) ==
  /\ outside[r] <= Overhead(r) /\ forked[r] <= ForkTimeout
  /\ stage[r] \in {"idle", "accepted"} => outside[r] = 0
  /\ stage[r] \in {"idle", "accepted", "auth", "body", "get"} => forked[r] = 0
  /\ stage[r] \in {"idle", "accepted", "auth", "body", "get", "fork", "set"} =>
       tokens[r] = 0
  /\ left[r] <= tokens[r]
  /\ stage[r] = "body" => outside[r] <= Arrival
  /\ stage[r] = "fork" => outside[r] <= Before(r) /\ forked[r] = spent[r]
  /\ stage[r] \in Serving \ {"body", "fork"} => outside[r] <= Before(r) + spent[r]
  /\ stage[r] \in Serving \ {"body"} => spent[r] <= Limit(r)
  /\ stage[r] = "timed_out" => Margin <= outside[r]

(***************************************************************************)
(* For main: the listener is closed from the signal on, the time of        *)
(* Shutdown is spent in "drain" alone and the time after it in queries     *)
(* that were running when the pool was closed; what is left by a Shutdown  *)
(* that was in time can bring nothing more.                                *)
(***************************************************************************)
Closing == {"close_redis", "close_pool", "pool_wait"}
Served  == Active = {} /\ \A r \in Request : stage[r] \notin {"accepted", "killed"}

ShutdownInv ==
  /\ server = "closed" => main \in Closing \cup {"drain", "drain_again", "ended"}
  /\ main \in Closing \cup {"drain", "drain_again"} => server = "closed"
  /\ server # "closed" => elapsed = 0
  /\ main \notin {"pool_wait", "ended"} => elapsed <= Grace
  /\ main = "drain_again" => elapsed = Grace
  /\ main # "ended" => exit = "none" /\ \A r \in Request : stage[r] # "killed"
  /\ main = "ended" => Active = {} /\ \A r \in Request : stage[r] # "accepted"
  /\ main \in Closing \/ exit = Orderly => Served \/ elapsed >= Grace
  /\ main = "pool_wait" => ~pool /\ \A r \in Querying : elapsed <= Grace + spent[r]
  /\ StopsInTime

LifecycleInv ==
  /\ TypeOK
  /\ \A r \in Request : TimeInv(r)
  /\ ShutdownInv

\* A signal that comes after Notify ends the process, also if main is not at
\* the channel yet (main.go:128-130).
SignalEndsProcess == (signals > 0) ~> (main = "ended")
=============================================================================
