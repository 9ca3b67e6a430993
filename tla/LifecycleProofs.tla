--------------------------- MODULE LifecycleProofs ---------------------------
(***************************************************************************)
(* Theorems about Lifecycle for every set of requests and every choice of  *)
(* the timeouts.                                                           *)
(***************************************************************************)
EXTENDS Lifecycle, TLAPS

\* What TimeAssumption says of each constant.
LEMMA Times ==
  /\ ForkTimeout \in Nat /\ LookupTimeout \in Nat /\ QueryTime \in Nat
  /\ Grace \in Nat /\ Fresh \in Nat /\ Margin \in Nat
  /\ MaxTokens \in Nat /\ MaxSignals \in Nat
  /\ ReadTimeout \in Nat /\ RedisTime \in Nat
  /\ QueryTime > 0
  BY TimeAssumption

\* Arrival is the later of two times.
LEMMA ArrivalIs == Arrival \in Nat /\ QueryTime <= Arrival /\ ReadTimeout <= Arrival
  BY Times DEF Arrival

\* The time that n lookups may take.
LEMMA LookupsTake ==
  /\ \A n \in Nat : n * LookupTimeout \in Nat
  /\ 0 * LookupTimeout = 0
  /\ \A n \in Int : (n + 1) * LookupTimeout = n * LookupTimeout + LookupTimeout
  BY Times

\* The steps that lead up to the wait for a signal, or announce one: main goes on
\* by one place or stays, and no request and no clock is touched.
Prepare ==
  /\ UNCHANGED <<requests, elapsed, exit>>
  /\ \/ /\ main \in Main \ (Closing \cup {"drain", "drain_again", "ended"})
        /\ main' \in Main \ (Closing \cup {"drain", "drain_again", "ended"})
        /\ server' = server \/ server' = "starting"
        /\ UNCHANGED pool \/ pool' = TRUE
        /\ UNCHANGED redis \/ redis' = TRUE
        /\ UNCHANGED <<quit, signals>>
     \/ /\ server = "starting" /\ server' = "listening"
        /\ UNCHANGED <<main, pool, redis, quit, signals>>
     \/ /\ signals < MaxSignals /\ signals' = signals + 1 /\ quit' = 1
        /\ UNCHANGED <<main, server, pool, redis>>

\* The steps of one request.
Move(r) == Accept(r) \/ Abandon(r) \/ Begin(r) \/ Handle(r)

\* What a step can be.
LEMMA Steps ==
  ASSUME [Next]_vars
  PROVE  \/ \E how \in {"failed", "killed"} : main # "ended" /\ Exit(how)
         \/ Prepare
         \/ Receive \/ Drain \/ CloseRedis \/ ClosePool \/ Return
         \/ Tick
         \/ \E r \in Request : Move(r)
         \/ UNCHANGED vars
<1> USE DEF Must, Advance, Prepare, Main, Closing, process
<1>1. CASE LoadConfig
  BY <1>1 DEF LoadConfig
<1>2. CASE ConnectPostgres
  BY <1>2 DEF ConnectPostgres
<1>3. CASE ConnectRedis
  BY <1>3 DEF ConnectRedis
<1>4. CASE DialNode
  BY <1>4 DEF DialNode
<1>5. CASE StartServer \/ Notify \/ Wait
  BY <1>5 DEF StartServer, Notify, Wait
<1>6. CASE Listen \/ ListenFails
  BY <1>6 DEF Listen, ListenFails
<1>7. CASE Signal
  BY <1>7 DEF Signal
<1> QED
  BY <1>1, <1>2, <1>3, <1>4, <1>5, <1>6, <1>7 DEF Next, Startup, Shutdown, Move

\* Each of them enters a stage, and leaves the times and the tokens of the others.
LEMMA MoveEnters ==
  ASSUME NEW r \in Request, Move(r)
  PROVE  /\ \E s \in Stage : Enter(r, s)
         /\ UNCHANGED times
         /\ \/ UNCHANGED <<tokens, left>> \/ Decode(r)
            \/ UNCHANGED tokens /\ left' = [left EXCEPT ![r] = @ - 1] /\ left[r] > 0
<1>1. \A s \in {"answered", "timed_out", "accepted", "dropped", "auth", "body", "query",
                "get", "fork", "set", "lookup"} :
        Enter(r, s) => \E e \in Stage : Enter(r, e)
  BY DEF Stage
<1>2. Write(r) => \E e \in Stage : Enter(r, e)
  BY <1>1 DEF Write
<1>3. \E s \in Stage : Enter(r, s)
  <2>1. CASE Accept(r) \/ Abandon(r) \/ Begin(r)
    BY <1>1, <1>2, <2>1, Zenon DEF Accept, Abandon, Begin
  <2>2. CASE Authenticated(r) \/ QueryAnswers(r)
    BY <1>1, <1>2, <2>2, Zenon DEF Authenticated, QueryAnswers
  <2>3. CASE ReadBody(r)
    BY <1>1, <1>2, <2>3 DEF ReadBody
  <2>4. CASE CacheGet(r) \/ ForkAnswers(r) \/ CacheSet(r)
    BY <1>1, <1>2, <2>4, Zenon DEF CacheGet, ForkAnswers, CacheSet, Decode
  <2>5. CASE LookUp(r)
    BY <1>1, <1>2, <2>5 DEF LookUp
  <2> QED
    BY <2>1, <2>2, <2>3, <2>4, <2>5 DEF Move, Handle
<1>4. /\ UNCHANGED times
      /\ \/ UNCHANGED <<tokens, left>> \/ Decode(r)
         \/ UNCHANGED tokens /\ left' = [left EXCEPT ![r] = @ - 1] /\ left[r] > 0
  <2>1. CASE Accept(r) \/ Abandon(r) \/ Begin(r)
    BY <2>1 DEF times, Accept, Abandon, Begin
  <2>2. CASE Authenticated(r) \/ QueryAnswers(r) \/ ReadBody(r)
    BY <2>2 DEF times, Authenticated, QueryAnswers, ReadBody
  <2>3. CASE CacheGet(r)
    BY <2>3 DEF times, CacheGet, Decode
  <2>4. CASE ForkAnswers(r) \/ CacheSet(r)
    BY <2>4 DEF times, ForkAnswers, CacheSet, Decode
  <2>5. CASE LookUp(r)
    BY <2>5 DEF times, LookUp
  <2> QED
    BY <2>1, <2>2, <2>3, <2>4, <2>5 DEF Move, Handle
<1> QED
  BY <1>3, <1>4

-----------------------------------------------------------------------------
(***************************************************************************)
(* Types.                                                                  *)
(***************************************************************************)
\* The first state has the types.
LEMMA TypeInit == Init => TypeOK
<1> SUFFICES ASSUME Init PROVE TypeOK
  OBVIOUS
<1>1. pool \in BOOLEAN /\ redis \in BOOLEAN
  BY Zenon DEF Init
<1>2. /\ main \in Main /\ server \in {"off", "starting", "listening", "closed"}
      /\ quit \in {0, 1} /\ signals \in 0..MaxSignals /\ elapsed \in Nat
      /\ exit \in {"none", "failed", "killed", Orderly}
  BY Times DEF Init, Main
<1>3. /\ stage \in [Request -> Stage]
      /\ tokens \in [Request -> 0..MaxTokens] /\ left \in [Request -> 0..MaxTokens]
      /\ spent \in [Request -> Nat]
      /\ forked \in [Request -> Nat] /\ outside \in [Request -> Nat]
  BY Times DEF Init, Stage
<1> QED
  BY <1>1, <1>2, <1>3 DEF TypeOK

\* Every step keeps them.
LEMMA TypeNext == TypeOK /\ [Next]_vars => TypeOK'
<1> SUFFICES ASSUME TypeOK, [Next]_vars PROVE TypeOK'
  OBVIOUS
<1> USE Times DEF TypeOK, process, requests, times, Orderly
<1>1. ASSUME NEW how \in {"failed", "killed", Orderly}, Exit(how) PROVE TypeOK'
  BY <1>1 DEF Exit, Main, Stage
<1>2. CASE Prepare
  <2>1. pool' \in BOOLEAN /\ redis' \in BOOLEAN
    BY <1>2, Zenon DEF Prepare
  <2>2. /\ main' \in Main /\ server' \in {"off", "starting", "listening", "closed"}
        /\ quit' \in {0, 1} /\ signals' \in 0..MaxSignals
        /\ UNCHANGED <<requests, elapsed, exit>>
    <3>1. UNCHANGED <<requests, elapsed, exit>> /\ main' \in Main
      BY <1>2 DEF Prepare
    <3>2. server' \in {"off", "starting", "listening", "closed"}
      BY <1>2 DEF Prepare
    <3>3. \/ UNCHANGED <<quit, signals>>
          \/ signals < MaxSignals /\ signals' = signals + 1 /\ quit' = 1
      BY <1>2, Zenon DEF Prepare
    <3>4. quit' \in {0, 1} /\ signals' \in 0..MaxSignals
      BY <3>3
    <3> QED
      BY <3>1, <3>2, <3>4
  <2> QED
    BY <2>1, <2>2
<1>3. CASE Receive \/ CloseRedis \/ ClosePool
  BY <1>3 DEF Receive, CloseRedis, ClosePool, Advance, Main
<1>4. CASE Return
  BY <1>1, <1>4 DEF Return
<1>5. CASE Drain
  BY <1>5 DEF Drain, CloseIdleConns, Advance, Main, Stage
<1>6. CASE Tick
  BY <1>6 DEF Tick
<1>7. ASSUME NEW r \in Request, Move(r) PROVE TypeOK'
  <2>1. PICK s \in Stage : Enter(r, s)
    BY <1>7, MoveEnters
  <2>2. UNCHANGED <<forked, outside>>
    BY <1>7, MoveEnters
  <2>3. \/ UNCHANGED <<tokens, left>> \/ Decode(r)
        \/ UNCHANGED tokens /\ left' = [left EXCEPT ![r] = @ - 1] /\ left[r] > 0
    BY <1>7, MoveEnters
  <2>4. /\ tokens' \in [Request -> 0..MaxTokens]
        /\ left' \in [Request -> 0..MaxTokens]
    BY <2>3 DEF Decode
  <2> QED
    BY <2>1, <2>2, <2>4 DEF Enter
<1>8. CASE UNCHANGED vars
  BY <1>8 DEF vars
<1> QED
  BY <1>1, <1>2, <1>3, <1>4, <1>5, <1>6, <1>7, <1>8, Steps

\* Every variable keeps its type in every behaviour (cmd/app/main.go).
THEOREM TypeCorrect == Spec => []TypeOK
  BY TypeInit, TypeNext, PTL DEF Spec

-----------------------------------------------------------------------------
(***************************************************************************)
(* The time of a request.                                                  *)
(***************************************************************************)
\* TimeInv of one request, in its own values.
Timely(s, t, l, sp, f, o) ==
  /\ o <= Arrival + 2 * RedisTime + t * LookupTimeout + QueryTime
  /\ f <= ForkTimeout
  /\ s \in {"idle", "accepted"} => o = 0
  /\ s \in {"idle", "accepted", "auth", "body", "get"} => f = 0
  /\ s \in {"idle", "accepted", "auth", "body", "get", "fork", "set"} => t = 0
  /\ l <= t
  /\ s = "auth" => o <= sp /\ sp <= QueryTime
  /\ s = "body" => o <= Arrival
  /\ s = "get" => o <= Arrival + sp /\ sp <= RedisTime
  /\ s = "fork" => o <= Arrival + RedisTime /\ f = sp /\ sp <= ForkTimeout
  /\ s = "set" => o <= Arrival + RedisTime + sp /\ sp <= RedisTime
  /\ s = "lookup" =>
       /\ o <= Arrival + 2 * RedisTime + (t - l) * LookupTimeout + sp
       /\ sp <= IF l = 0 THEN 0 ELSE LookupTimeout
  /\ s = "query" => /\ o <= Arrival + 2 * RedisTime + t * LookupTimeout + sp
                    /\ sp <= QueryTime
  /\ s = "timed_out" => Margin <= o

\* Limit and Before say the same stage by stage.
LEMMA TimeInvIs ==
  ASSUME TypeOK, NEW r \in Request
  PROVE  TimeInv(r) <=>
           Timely(stage[r], tokens[r], left[r], spent[r], forked[r], outside[r])
<1> USE DEF TimeInv, Timely, Serving, Overhead
<1>1. CASE stage[r] \notin Serving
  BY <1>1
<1>2. CASE stage[r] = "auth"
  BY <1>2, Times DEF Before, Limit, TypeOK
<1>7. CASE stage[r] = "body"
  BY <1>7
<1>3. CASE stage[r] \in {"get", "set"}
  BY <1>3 DEF Before, Limit
<1>4. CASE stage[r] = "fork"
  BY <1>4 DEF Before, Limit
<1>5. CASE stage[r] = "lookup"
  BY <1>5 DEF Before, Limit
<1>6. CASE stage[r] = "query"
  BY <1>6 DEF Before, Limit
<1> QED
  BY <1>1, <1>2, <1>3, <1>4, <1>5, <1>6, <1>7

\* The same for the next state.
LEMMA TimeInvIsNext ==
  ASSUME TypeOK', NEW r \in Request
  PROVE  TimeInv(r)' <=>
           Timely(stage'[r], tokens'[r], left'[r], spent'[r], forked'[r], outside'[r])
<1> USE DEF TimeInv, Timely, Serving, Overhead, Arrival
<1>1. CASE stage'[r] \notin Serving
  BY <1>1
<1>2. CASE stage'[r] = "auth"
  BY <1>2, Times DEF Before, Limit, TypeOK
<1>7. CASE stage'[r] = "body"
  BY <1>7
<1>3. CASE stage'[r] \in {"get", "set"}
  BY <1>3 DEF Before, Limit
<1>4. CASE stage'[r] = "fork"
  BY <1>4 DEF Before, Limit
<1>5. CASE stage'[r] = "lookup"
  BY <1>5 DEF Before, Limit
<1>6. CASE stage'[r] = "query"
  BY <1>6 DEF Before, Limit
<1> QED
  BY <1>1, <1>2, <1>3, <1>4, <1>5, <1>6, <1>7

\* A stage that is over hands on the time its request has taken so far.
LEMMA Handover ==
  ASSUME NEW s \in Stage, NEW t \in Nat, NEW l \in Nat, NEW sp \in Nat,
         NEW f \in Nat, NEW o \in Nat,
         Timely(s, t, l, sp, f, o)
  PROVE  /\ s = "idle" => Timely("accepted", t, l, 0, f, o)
         /\ s = "accepted" => Timely("auth", t, l, 0, f, o)
         /\ s = "auth" => Timely("body", t, l, 0, f, o) /\ Timely("query", t, l, 0, f, o)
         /\ s = "body" => Timely("get", t, l, 0, f, o) /\ Timely("fork", t, l, 0, f, o)
         /\ s = "get" => Timely("fork", t, l, 0, f, o)
         /\ s = "fork" => Timely("set", t, l, 0, f, o)
         /\ s \in {"get", "fork", "set"} => \A n \in Nat : Timely("lookup", n, n, 0, f, o)
         /\ s = "lookup" /\ l > 0 => Timely("lookup", t, l - 1, 0, f, o)
         /\ s = "lookup" /\ l = 0 => Timely("query", t, l, 0, f, o)
         /\ \A e \in {"answered", "dropped", "killed"} : Timely(e, t, l, 0, f, o)
         /\ o + f >= WriteTimeout => Timely("timed_out", t, l, 0, f, o)
<1> DEFINE T == t * LookupTimeout
<1>1. T \in Nat /\ (t = 0 => T = 0)
  BY LookupsTake
<1>2. ASSUME s \in {"get", "fork", "set"}, NEW n \in Nat
      PROVE  Timely("lookup", n, n, 0, f, o)
  <2>1. n * LookupTimeout \in Nat /\ (n - n) * LookupTimeout = 0
    BY LookupsTake
  <2>2. o <= Arrival + 2 * RedisTime /\ f <= ForkTimeout
    BY <1>2, Times, ArrivalIs DEF Timely
  <2> QED
    BY <2>1, <2>2, Times, ArrivalIs DEF Timely
<1>3. ASSUME s = "lookup", l > 0 PROVE Timely("lookup", t, l - 1, 0, f, o)
  <2> DEFINE before == (t - l) * LookupTimeout
  <2>1. (t - (l - 1)) * LookupTimeout = before + LookupTimeout
    <3>1. t - (l - 1) = (t - l) + 1
      OBVIOUS
    <3> QED
      BY <3>1, LookupsTake
  <2>2. before \in Int
    BY Times
  <2>3. o <= Arrival + 2 * RedisTime + before + LookupTimeout
    <3> HIDE DEF before
    <3>1. o <= Arrival + 2 * RedisTime + before + sp /\ sp <= LookupTimeout
      BY <1>3 DEF Timely, before
    <3> QED
      BY <2>2, <3>1, Times, ArrivalIs
  <2>4. o <= Arrival + 2 * RedisTime + (t - (l - 1)) * LookupTimeout + 0
    <3> HIDE DEF before
    <3> QED
      BY <2>1, <2>2, <2>3, Times, ArrivalIs
  <2>5. /\ o <= Arrival + 2 * RedisTime + T + QueryTime
        /\ f <= ForkTimeout /\ l - 1 <= t
    BY <1>3 DEF Timely
  <2> QED
    BY <2>4, <2>5, Times DEF Timely
<1>4. ASSUME s = "lookup", l = 0 PROVE Timely("query", t, l, 0, f, o)
  <2>1. (t - l) * LookupTimeout = T
    <3>1. t - l = t
      BY <1>4
    <3> QED
      BY <3>1
  <2>2. o <= Arrival + 2 * RedisTime + T
    <3>1. o <= Arrival + 2 * RedisTime + (t - l) * LookupTimeout + sp /\ sp <= 0
      BY <1>4 DEF Timely
    <3> HIDE DEF T
    <3> QED
      BY <1>1, <2>1, <3>1, Times, ArrivalIs
  <2>3. o <= Arrival + 2 * RedisTime + T + QueryTime /\ f <= ForkTimeout /\ l <= t
    BY DEF Timely
  <2> HIDE DEF T
  <2> QED
    BY <1>1, <1>4, <2>2, <2>3, Times, ArrivalIs DEF Timely, T
<1>5. /\ s = "idle" => Timely("accepted", t, l, 0, f, o)
      /\ s = "accepted" => Timely("auth", t, l, 0, f, o)
      /\ \A e \in {"answered", "dropped", "killed"} : Timely(e, t, l, 0, f, o)
  BY Times, ArrivalIs DEF Timely
<1>6. ASSUME s = "auth"
      PROVE  Timely("body", t, l, 0, f, o) /\ Timely("query", t, l, 0, f, o)
  <2>1. T = 0 /\ t = 0 /\ l = 0 /\ o <= Arrival /\ f = 0
    BY <1>1, <1>6, Times, ArrivalIs DEF Timely
  <2> QED
    BY <2>1, Times, ArrivalIs DEF Timely
<1>7. ASSUME s \in {"body", "get", "fork"}
      PROVE  /\ s = "body" => Timely("get", t, l, 0, f, o)
             /\ s # "fork" => Timely("fork", t, l, 0, f, o)
             /\ s = "fork" => Timely("set", t, l, 0, f, o)
  <2>1. T = 0 /\ t = 0 /\ l = 0 /\ o <= Arrival + RedisTime /\ f <= ForkTimeout
    BY <1>1, <1>7, Times, ArrivalIs DEF Timely
  <2>2. (s # "fork" => f = 0) /\ (s = "body" => o <= Arrival)
    BY <1>7 DEF Timely
  <2> QED
    BY <1>7, <2>1, <2>2, Times, ArrivalIs DEF Timely
<1>8. ASSUME o + f >= WriteTimeout PROVE Timely("timed_out", t, l, 0, f, o)
  <2>1. o <= Arrival + 2 * RedisTime + T + QueryTime /\ f <= ForkTimeout /\ l <= t
    BY DEF Timely
  <2>2. Margin <= o
    BY <1>8, <2>1, Times DEF WriteTimeout
  <2> QED
    BY <2>1, <2>2 DEF Timely
<1> QED
  BY <1>2, <1>3, <1>4, <1>5, <1>6, <1>7, <1>8

\* A unit of time goes by in a stage that is not over.
LEMMA Waiting ==
  ASSUME NEW s \in Serving, NEW t \in Nat, NEW l \in Nat, NEW sp \in Nat,
         NEW f \in Nat, NEW o \in Nat,
         Timely(s, t, l, sp, f, o),
         s \in {"auth", "query"} => sp < QueryTime,
         s = "body" => o < ReadTimeout,
         s \in {"get", "set"} => sp < RedisTime,
         s = "fork" => sp < ForkTimeout,
         s = "lookup" => sp < IF l = 0 THEN 0 ELSE LookupTimeout
  PROVE  IF s = "fork" THEN Timely(s, t, l, sp + 1, f + 1, o)
                       ELSE Timely(s, t, l, sp + 1, f, o + 1)
<1> DEFINE T == t * LookupTimeout
           before == (t - l) * LookupTimeout
<1>1. T \in Nat /\ before \in Int
  BY LookupsTake, Times
<1>2. CASE s \in {"auth", "body", "get", "fork", "set"}
  <2>1. T = 0 /\ t = 0
    BY <1>2, LookupsTake DEF Timely
  <2> QED
    BY <1>2, <2>1, Times, ArrivalIs DEF Timely
<1>3. CASE s = "lookup"
  <2>1. l > 0 /\ sp < LookupTimeout
    BY <1>3
  <2>2. T = before + l * LookupTimeout /\ l * LookupTimeout >= LookupTimeout
    BY <2>1, Times
  <2> QED
    BY <1>3, <2>1, <2>2, Times, ArrivalIs DEF Timely
<1>4. CASE s = "query"
  BY <1>4, Times, ArrivalIs DEF Timely
<1> QED
  BY <1>2, <1>3, <1>4 DEF Serving

\* The time of every request.
AllInTime == \A r \in Request : TimeInv(r)

\* TimeInv of a request, and the types of what it speaks of.
LEMMA TimelyIs ==
  ASSUME TypeOK, AllInTime, NEW r \in Request
  PROVE  /\ Timely(stage[r], tokens[r], left[r], spent[r], forked[r], outside[r])
         /\ stage[r] \in Stage /\ tokens[r] \in Nat /\ left[r] \in Nat
         /\ spent[r] \in Nat /\ forked[r] \in Nat /\ outside[r] \in Nat
<1>1. Timely(stage[r], tokens[r], left[r], spent[r], forked[r], outside[r])
  BY TimeInvIs DEF AllInTime
<1>2. /\ stage[r] \in Stage /\ tokens[r] \in Nat /\ left[r] \in Nat
      /\ spent[r] \in Nat /\ forked[r] \in Nat /\ outside[r] \in Nat
  BY Times DEF TypeOK
<1> QED
  BY <1>1, <1>2

\* At first no time has been spent.
LEMMA TimeInit == Init => AllInTime
<1> SUFFICES ASSUME Init, NEW r \in Request PROVE TimeInv(r)
  BY DEF AllInTime
<1>1. Timely("idle", 0, 0, 0, 0, 0)
  BY LookupsTake, Times, ArrivalIs DEF Timely
<1> QED
  BY <1>1, TypeInit, TimeInvIs DEF Init

\* What ends a request from outside leaves the time it has taken.
LEMMA CutOff ==
  ASSUME TypeOK, TypeOK', AllInTime, UNCHANGED <<tokens, left, spent, times>>,
         \A r \in Request : stage'[r] = stage[r] \/ stage'[r] \in {"dropped", "killed"}
  PROVE  AllInTime'
<1> SUFFICES ASSUME NEW r \in Request PROVE TimeInv(r)'
  BY DEF AllInTime
<1>1. Timely(stage[r], tokens[r], left[r], spent[r], forked[r], outside[r])
  BY TimelyIs
<1>2. Timely(stage'[r], tokens'[r], left'[r], spent'[r], forked'[r], outside'[r])
  BY <1>1 DEF Timely, times
<1> QED
  BY <1>2, TimeInvIsNext

\* The request that moves on.
LEMMA MoverInTime ==
  ASSUME TypeOK, AllInTime, NEW r \in Request, Move(r)
  PROVE  Timely(stage'[r], tokens'[r], left'[r], 0, forked[r], outside[r])
<1> DEFINE F == forked[r]
           O == outside[r]
<1>1. /\ Timely(stage[r], tokens[r], left[r], spent[r], F, O)
      /\ stage[r] \in Stage /\ tokens[r] \in Nat /\ left[r] \in Nat
      /\ spent[r] \in Nat /\ F \in Nat /\ O \in Nat
  BY TimelyIs
<1> HIDE DEF F, O
<1>2. /\ \A e \in {"answered", "dropped"} : Timely(e, tokens[r], left[r], 0, F, O)
      /\ O + F >= WriteTimeout => Timely("timed_out", tokens[r], left[r], 0, F, O)
  BY <1>1, Handover
<1>3. Write(r) => \/ stage'[r] = "answered"
                  \/ stage'[r] = "timed_out" /\ O + F >= WriteTimeout
  BY <1>1, Times DEF Write, Enter, TypeOK, WriteTimeout, F, O
<1>4. CASE UNCHANGED <<tokens, left>> /\ (Write(r) \/ Abandon(r))
  BY <1>2, <1>3, <1>4 DEF Abandon, Enter, TypeOK, F, O
<1>5. CASE Accept(r)
  BY <1>1, <1>5, Handover DEF Accept, Enter, TypeOK, F, O
<1>6. CASE Begin(r)
  <2>1. CASE Enter(r, "auth")
    BY <1>1, <1>6, <2>1, Handover DEF Begin, Enter, TypeOK, F, O
  <2> QED
    BY <1>4, <1>6, <2>1 DEF Begin
<1>7. CASE Authenticated(r)
  <2>1. CASE Enter(r, "body") \/ Enter(r, "query")
    BY <1>1, <1>7, <2>1, Handover DEF Authenticated, Enter, TypeOK, F, O
  <2> QED
    BY <1>4, <1>7, <2>1 DEF Authenticated
<1>8. CASE ReadBody(r)
  <2>1. CASE Enter(r, "get") \/ Enter(r, "fork")
    BY <1>1, <1>8, <2>1, Handover DEF ReadBody, Enter, TypeOK, F, O
  <2> QED
    BY <1>4, <1>8, <2>1 DEF ReadBody
<1>9. CASE stage[r] \in {"get", "fork", "set"} /\ Decode(r)
  <2>1. PICK n \in 0..MaxTokens : tokens' = [tokens EXCEPT ![r] = n]
                                 /\ left' = [left EXCEPT ![r] = n]
    BY <1>9 DEF Decode
  <2>2. n \in Nat /\ tokens'[r] = n /\ left'[r] = n
    BY <2>1, Times DEF TypeOK
  <2>3. stage'[r] = "lookup"
    BY <1>9 DEF Decode, Enter, TypeOK
  <2> QED
    BY <1>1, <1>9, <2>2, <2>3, Handover DEF F, O
<1>10. CASE CacheGet(r)
  <2>1. CASE Enter(r, "fork") /\ UNCHANGED <<tokens, left>>
    BY <1>1, <1>10, <2>1, Handover DEF CacheGet, Enter, TypeOK, F, O
  <2> QED
    BY <1>9, <1>10, <2>1 DEF CacheGet
<1>11. CASE ForkAnswers(r)
  <2>1. CASE Enter(r, "set") /\ UNCHANGED <<tokens, left>>
    BY <1>1, <1>11, <2>1, Handover DEF ForkAnswers, Enter, TypeOK, F, O
  <2> QED
    BY <1>4, <1>9, <1>11, <2>1 DEF ForkAnswers
<1>12. CASE CacheSet(r)
  BY <1>9, <1>12 DEF CacheSet
<1>13. CASE LookUp(r)
  <2>1. CASE left[r] > 0 /\ left' = [left EXCEPT ![r] = @ - 1] /\ Enter(r, "lookup")
    <3>1. /\ stage[r] = "lookup" /\ stage'[r] = "lookup" /\ tokens' = tokens
          /\ left'[r] = left[r] - 1
      BY <1>13, <2>1 DEF LookUp, Enter, TypeOK
    <3>2. Timely("lookup", tokens[r], left[r] - 1, 0, F, O)
      BY <1>1, <2>1, <3>1, Handover
    <3> QED
      BY <3>1, <3>2 DEF F, O
  <2>2. CASE left[r] = 0 /\ Enter(r, "query") /\ UNCHANGED left
    <3>1. stage[r] = "lookup" /\ stage'[r] = "query" /\ tokens' = tokens
      BY <1>13, <2>2 DEF LookUp, Enter, TypeOK
    <3> QED
      BY <1>1, <2>2, <3>1, Handover DEF F, O
  <2> QED
    BY <1>4, <1>13, <2>1, <2>2 DEF LookUp
<1>14. CASE QueryAnswers(r)
  BY <1>4, <1>14 DEF QueryAnswers
<1>15. CASE Abandon(r)
  BY <1>4, <1>15 DEF Abandon
<1> QED
  BY <1>5, <1>6, <1>7, <1>8, <1>10, <1>11, <1>12, <1>13, <1>14, <1>15
  DEF Move, Handle, F, O

\* Every step keeps the time of every request.
LEMMA TimeNext == TypeOK /\ AllInTime /\ [Next]_vars => AllInTime'
<1> SUFFICES ASSUME TypeOK, AllInTime, [Next]_vars PROVE AllInTime'
  OBVIOUS
<1>0. TypeOK'
  BY TypeNext
<1>1. ASSUME NEW how, Exit(how) PROVE AllInTime'
  BY <1>0, <1>1, CutOff DEF Exit
<1>2. ASSUME UNCHANGED requests PROVE AllInTime'
  BY <1>0, <1>2, CutOff DEF requests, times
<1>3. CASE Prepare \/ Receive \/ CloseRedis \/ ClosePool
  BY <1>2, <1>3 DEF Prepare, Receive, CloseRedis, ClosePool
<1>4. CASE Return
  BY <1>1, <1>4 DEF Return
<1>5. CASE Drain
  BY <1>0, <1>5, CutOff DEF Drain, CloseIdleConns
<1>6. CASE Tick
  <2> SUFFICES ASSUME NEW r \in Request PROVE TimeInv(r)'
    BY DEF AllInTime
  <2>1. /\ UNCHANGED <<stage, tokens, left>>
        /\ spent'[r] = IF r \in Active \cup Sparing THEN spent[r] + 1 ELSE spent[r]
        /\ forked'[r] = IF stage[r] = "fork" THEN forked[r] + 1 ELSE forked[r]
        /\ outside'[r] = IF r \in Active /\ stage[r] # "fork" THEN outside[r] + 1
                         ELSE outside[r]
        /\ r \in Active => ~Over(r)
    BY <1>6 DEF Tick
  <2>2. CASE r \in Active
    <3>1. stage[r] \in Serving
      BY <2>2 DEF Active
    <3>2. /\ stage[r] \in {"auth", "query"} => spent[r] < QueryTime
          /\ stage[r] = "body" => outside[r] < ReadTimeout
          /\ stage[r] \in {"get", "set"} => spent[r] < RedisTime
          /\ stage[r] = "fork" => spent[r] < ForkTimeout
          /\ stage[r] = "lookup" =>
               spent[r] < IF left[r] = 0 THEN 0 ELSE LookupTimeout
      BY <2>1, <2>2, Times, TimelyIs DEF Over, Limit
    <3>3. IF stage[r] = "fork"
          THEN Timely(stage[r], tokens[r], left[r], spent[r] + 1, forked[r] + 1, outside[r])
          ELSE Timely(stage[r], tokens[r], left[r], spent[r] + 1, forked[r], outside[r] + 1)
      BY <3>1, <3>2, TimelyIs, Waiting
    <3> QED
      BY <1>0, <2>1, <2>2, <3>3, TimeInvIsNext
  <2>3. CASE r \notin Active
    <3>1. stage[r] \notin Serving
      BY <2>3 DEF Active
    <3>2. Timely(stage[r], tokens[r], left[r], spent'[r], forked[r], outside[r])
      BY <3>1, TimelyIs DEF Timely, Serving
    <3>3. forked'[r] = forked[r] /\ outside'[r] = outside[r]
      BY <2>1, <2>3, <3>1 DEF Serving
    <3> QED
      BY <1>0, <2>1, <3>2, <3>3, TimeInvIsNext
  <2> QED
    BY <2>2, <2>3
<1>7. ASSUME NEW r \in Request, Move(r) PROVE AllInTime'
  <2>1. PICK s \in Stage : Enter(r, s)
    BY <1>7, MoveEnters
  <2>2. /\ spent'[r] = 0
        /\ \A d \in Request \ {r} : stage'[d] = stage[d] /\ spent'[d] = spent[d]
    BY <2>1 DEF Enter, TypeOK
  <2>3. /\ forked' = forked /\ outside' = outside
        /\ \A d \in Request \ {r} : tokens'[d] = tokens[d] /\ left'[d] = left[d]
    BY <1>7, MoveEnters DEF times, Decode, TypeOK
  <2>4. Timely(stage'[r], tokens'[r], left'[r], 0, forked[r], outside[r])
    BY <1>7, MoverInTime
  <2>5. ASSUME NEW d \in Request PROVE TimeInv(d)'
    <3>1. CASE d = r
      BY <1>0, <2>2, <2>3, <2>4, <3>1, TimeInvIsNext
    <3>2. CASE d # r
      <4>1. Timely(stage[d], tokens[d], left[d], spent[d], forked[d], outside[d])
        BY TimelyIs
      <4> QED
        BY <1>0, <2>2, <2>3, <3>2, <4>1, TimeInvIsNext
    <3> QED
      BY <3>1, <3>2
  <2> QED
    BY <2>5 DEF AllInTime
<1>8. CASE UNCHANGED vars
  BY <1>2, <1>8 DEF vars, requests
<1> QED
  BY <1>1, <1>3, <1>4, <1>5, <1>6, <1>7, <1>8, Steps

-----------------------------------------------------------------------------
(***************************************************************************)
(* The shutdown.                                                           *)
(***************************************************************************)
\* The places of main before the signal.
Early == Main \ (Closing \cup {"drain", "drain_again", "ended"})

\* At first main has yet to read its configuration.
LEMMA ShutdownInit == Init => ShutdownInv
<1> SUFFICES ASSUME Init PROVE ShutdownInv
  OBVIOUS
<1>1. main = "config" /\ server = "off" /\ elapsed = 0 /\ exit = "none"
  BY DEF Init
<1>2. \A r \in Request : stage[r] = "idle"
  BY DEF Init
<1> QED
  BY <1>1, <1>2, Times DEF ShutdownInv, Closing, StopsInTime, Orderly

\* The end of the process cuts off all that is served.
LEMMA ShutdownExit ==
  ASSUME TypeOK, ShutdownInv, NEW how \in {"failed", "killed", Orderly}, Exit(how),
         main # "ended",
         how = Orderly => main \in Closing
  PROVE  ShutdownInv'
<1>1. /\ main' = "ended" /\ exit' = how
      /\ UNCHANGED <<server, elapsed>>
      /\ \A r \in Request : stage'[r] = IF stage[r] \in Serving \cup {"accepted"}
                                       THEN "killed" ELSE stage[r]
  BY DEF Exit
<1>2. Active' = {} /\ \A r \in Request : stage'[r] # "accepted"
  BY <1>1 DEF Active, Serving
<1>3. Served => Served'
  BY <1>1, <1>2 DEF Served, Active
<1>4. exit' = Orderly => Served' \/ elapsed' >= Grace
  BY <1>1, <1>3 DEF ShutdownInv, Orderly
<1>5. StopsInTime' /\ (server' # "closed" => elapsed' = 0)
  BY <1>1 DEF ShutdownInv, StopsInTime
<1> QED
  BY <1>1, <1>2, <1>4, <1>5 DEF ShutdownInv, Closing

\* Before the signal the clock of Shutdown stands still.
LEMMA ShutdownPrepare ==
  ASSUME TypeOK, ShutdownInv, Prepare PROVE ShutdownInv'
<1>1. UNCHANGED <<stage, spent, elapsed, exit>>
  BY DEF Prepare, requests
<1>2. Served' = Served /\ Active' = Active /\ Querying' = Querying
  BY <1>1 DEF Served, Active, Querying
<1>3. CASE main \in Early /\ main' \in Early /\ (server' = server \/ server' = "starting")
  <2>1. server # "closed" /\ server' # "closed" /\ elapsed' = 0
    BY <1>1, <1>3 DEF ShutdownInv, Early
  <2>2. exit' = "none" /\ \A r \in Request : stage'[r] # "killed"
    BY <1>1, <1>3 DEF ShutdownInv, Early
  <2> QED
    BY <1>3, <2>1, <2>2, Times
    DEF ShutdownInv, Early, Closing, StopsInTime, Orderly
<1>4. CASE /\ UNCHANGED <<main, pool>>
           /\ server' = server \/ (server = "starting" /\ server' = "listening")
  <2>1. main \in Closing \cup {"drain", "drain_again"} => server' = "closed"
    BY <1>4 DEF ShutdownInv
  <2>2. /\ server' = "closed" => server = "closed"
        /\ server' # "closed" => elapsed' = 0
    BY <1>1, <1>4 DEF ShutdownInv
  <2> QED
    BY <1>1, <1>2, <1>4, <2>1, <2>2 DEF ShutdownInv, StopsInTime, Closing
<1> QED
  BY <1>3, <1>4 DEF Prepare, Early

\* A request moves on.  It does so in a process that has not ended, and when all
\* is served there is none that could.
LEMMA ShutdownRequest ==
  ASSUME TypeOK, ShutdownInv, NEW r \in Request,
         Move(r)
  PROVE  ShutdownInv'
<1> USE DEF process
<1>1. PICK s \in Stage : Enter(r, s)
  BY MoveEnters
<1>2. /\ UNCHANGED <<main, server, pool, elapsed, exit>>
      /\ stage'[r] = s /\ spent'[r] = 0
      /\ \A d \in Request \ {r} : stage'[d] = stage[d] /\ spent'[d] = spent[d]
  BY <1>1 DEF Enter, TypeOK
<1>3. /\ s # "killed"
      /\ s = "accepted" => server = "listening" /\ main # "ended"
      /\ stage[r] = "idle" => server = "listening" /\ main # "ended"
      /\ stage[r] \in {"idle", "accepted"} \cup Serving
      /\ stage[r] = "accepted" => main # "ended"
      /\ s \in {"auth", "query"} => pool
  <2>1. CASE Accept(r) \/ Abandon(r) \/ Begin(r)
    BY <1>2, <2>1 DEF Accept, Abandon, Begin, Write, Enter, TypeOK, Serving
  <2>2. CASE Authenticated(r) \/ ReadBody(r) \/ QueryAnswers(r)
    BY <1>2, <2>2 DEF Authenticated, ReadBody, QueryAnswers, Write, Enter, TypeOK,
                      Serving
  <2>3. CASE CacheGet(r) \/ ForkAnswers(r) \/ CacheSet(r)
    BY <1>2, <2>3 DEF CacheGet, ForkAnswers, CacheSet, Decode, Write, Enter, TypeOK,
                      Serving
  <2>4. CASE LookUp(r)
    BY <1>2, <2>4 DEF LookUp, Write, Enter, TypeOK, Serving
  <2> QED
    BY <2>1, <2>2, <2>3, <2>4 DEF Move, Handle
<1>4. main # "ended"
  BY <1>3 DEF ShutdownInv, Active
<1>5. Served /\ main \in Closing => FALSE
  BY <1>3 DEF Served, Active, ShutdownInv, Closing
<1>6. ASSUME main = "pool_wait" PROVE \A d \in Querying' : elapsed <= Grace + spent'[d]
  <2>1. ~pool /\ \A d \in Querying : elapsed <= Grace + spent[d]
    BY <1>6 DEF ShutdownInv
  <2>2. \A d \in Querying' : d # r /\ d \in Querying
    BY <1>2, <1>3, <2>1 DEF Querying
  <2> QED
    BY <1>2, <2>1, <2>2 DEF Querying
<1>7. exit = "none" /\ \A d \in Request : stage'[d] # "killed"
  BY <1>2, <1>3, <1>4 DEF ShutdownInv
<1> QED
  BY <1>2, <1>4, <1>5, <1>6, <1>7 DEF ShutdownInv, StopsInTime, Orderly, Closing

\* A connection that Shutdown closes had nothing to be served.
LEMMA ClosesOnlyIdle ==
  ASSUME TypeOK, ShutdownInv, CloseIdleConns, main # "ended",
         UNCHANGED <<tokens, left, spent>>
  PROVE  /\ Active' = Active /\ Querying' = Querying
         /\ \A r \in Request : stage'[r] # "killed"
         /\ Drained => Served'
<1>1. \A r \in Request : stage'[r] = IF stage[r] = "accepted" /\ r \notin Sparing
                                    THEN "dropped" ELSE stage[r]
  BY DEF CloseIdleConns
<1>2. \A r \in Request : stage'[r] # "killed"
  BY <1>1 DEF ShutdownInv
<1>3. Active' = Active /\ Querying' = Querying
  BY <1>1 DEF Active, Querying, Serving
<1>4. Drained => \A r \in Request : stage'[r] # "accepted"
  BY <1>1 DEF Drained
<1> QED
  BY <1>2, <1>3, <1>4 DEF Drained, Served

\* The steps of main from the signal on, and the clock.
LEMMA ShutdownNext == TypeOK /\ ShutdownInv /\ [Next]_vars => ShutdownInv'
<1> SUFFICES ASSUME TypeOK, ShutdownInv, [Next]_vars PROVE ShutdownInv'
  OBVIOUS
<1>0. TypeOK'
  BY TypeNext
<1> USE Times DEF process, requests, times, Advance
<1>1. ASSUME NEW how \in {"failed", "killed"}, main # "ended", Exit(how)
      PROVE  ShutdownInv'
  BY <1>1, ShutdownExit DEF Orderly
<1>2. CASE Prepare
  BY <1>2, ShutdownPrepare
<1>3. CASE Return
  BY <1>3, ShutdownExit DEF Return, Closing
<1>4. CASE Receive
  <2>1. /\ main = "wait" /\ main' = "drain" /\ server' = "closed"
        /\ UNCHANGED <<pool, elapsed, exit, stage, spent>>
    BY <1>4 DEF Receive
  <2>2. elapsed' = 0 /\ exit' = "none" /\ \A r \in Request : stage'[r] # "killed"
    BY <2>1 DEF ShutdownInv, Closing
  <2> QED
    BY <2>1, <2>2 DEF ShutdownInv, StopsInTime, Closing, Orderly
<1>5. CASE Drain
  <2>1. /\ main \in {"drain", "drain_again"}
        /\ CloseIdleConns
        /\ UNCHANGED <<server, pool, elapsed, exit, tokens, left, spent>>
    BY <1>5 DEF Drain
  <2>2. /\ Active' = Active /\ Querying' = Querying
        /\ \A r \in Request : stage'[r] # "killed"
        /\ Drained => Served'
    BY <2>1, ClosesOnlyIdle
  <2>3. server = "closed" /\ elapsed <= Grace /\ exit' = "none"
    BY <2>1 DEF ShutdownInv
  <2>4. /\ main' \in {"drain", "drain_again", "close_redis"}
        /\ main' = "drain_again" => elapsed = Grace
        /\ main' = "close_redis" => Served' \/ elapsed >= Grace
    BY <1>5, <2>2 DEF Drain, ShutdownInv
  <2> QED
    BY <1>0, <2>1, <2>2, <2>3, <2>4
    DEF ShutdownInv, StopsInTime, Closing, Orderly, TypeOK
<1>6. CASE CloseRedis \/ ClosePool
  <2>1. /\ main \in {"close_redis", "close_pool"}
        /\ main' = IF main = "close_redis" THEN "close_pool" ELSE "pool_wait"
        /\ main' = "pool_wait" => pool' = FALSE
        /\ UNCHANGED <<server, elapsed, exit, stage, spent>>
    BY <1>6 DEF CloseRedis, ClosePool
  <2>2. Served' = Served /\ Querying' = Querying
    BY <2>1 DEF Served, Active, Querying
  <2>3. /\ server = "closed" /\ elapsed <= Grace /\ exit = "none"
        /\ Served \/ elapsed >= Grace
        /\ \A r \in Request : stage[r] # "killed"
    BY <2>1 DEF ShutdownInv, Closing
  <2>4. \A r \in Querying : elapsed <= Grace + spent[r]
    BY <2>3 DEF Querying, TypeOK
  <2> QED
    BY <2>1, <2>2, <2>3, <2>4 DEF ShutdownInv, StopsInTime, Closing, Orderly, TypeOK
<1>7. CASE Tick
  <2>1. /\ main # "ended" /\ ~Due
        /\ UNCHANGED <<main, server, pool, exit, stage>>
        /\ elapsed' = IF server = "closed" THEN elapsed + 1 ELSE elapsed
        /\ \A r \in Active : ~Over(r) /\ spent'[r] = spent[r] + 1
    BY <1>7 DEF Tick, Active
  <2>2. Served' = Served /\ Active' = Active /\ Querying' = Querying
    BY <2>1 DEF Served, Active, Querying
  <2>3. main \notin {"drain_again", "close_redis", "close_pool"}
    BY <2>1 DEF Due
  <2>4. CASE main \in Early
    <3>1. elapsed' = 0 /\ server # "closed"
      BY <2>1, <2>4 DEF ShutdownInv, Early
    <3> QED
      BY <2>1, <2>2, <2>4, <3>1 DEF ShutdownInv, StopsInTime, Closing, Orderly, Early
  <2>5. CASE main = "drain"
    <3>1. elapsed < Grace /\ exit = "none" /\ server = "closed"
      BY <2>1, <2>5 DEF Due, ShutdownInv, TypeOK
    <3> QED
      BY <2>1, <2>2, <2>5, <3>1
      DEF ShutdownInv, StopsInTime, Closing, Orderly, TypeOK
  <2>6. CASE main = "pool_wait"
    <3>1. PICK r : r \in Querying
      BY <2>1, <2>6 DEF Due, PoolIdle
    <3>2. \A d \in Querying : /\ elapsed <= Grace + spent[d]
                              /\ spent[d] < QueryTime
                              /\ spent'[d] = spent[d] + 1
      <4>1. \A d \in Querying : /\ d \in Active
                                /\ Over(d) <=> spent[d] >= QueryTime
        BY DEF Querying, Active, Serving, Over, Limit
      <4>2. \A d \in Querying : spent[d] \in Nat
        BY DEF Querying, TypeOK
      <4> QED
        BY <2>1, <2>6, <4>1, <4>2 DEF ShutdownInv
    <3>3. \A d \in Querying : spent[d] \in Nat
      BY DEF Querying, TypeOK
    <3>4. server = "closed" /\ exit = "none" /\ ~pool /\ elapsed' = elapsed + 1
      BY <2>1, <2>6 DEF ShutdownInv, Closing
    <3>5. StopsInTime'
      BY <3>1, <3>2, <3>3, <3>4 DEF StopsInTime, TypeOK
    <3>6. \A d \in Querying' : elapsed' <= Grace + spent'[d]
      BY <2>2, <3>2, <3>3, <3>4 DEF TypeOK
    <3>7. Served' \/ elapsed' >= Grace
      BY <2>2, <2>6, <3>4 DEF ShutdownInv, Closing, TypeOK
    <3> QED
      BY <2>1, <2>6, <3>4, <3>5, <3>6, <3>7 DEF ShutdownInv, Closing
  <2> QED
    BY <2>1, <2>3, <2>4, <2>5, <2>6 DEF TypeOK, Early, Closing
<1>8. ASSUME NEW r \in Request, Move(r) PROVE ShutdownInv'
  BY <1>8, ShutdownRequest
<1>9. CASE UNCHANGED vars
  BY <1>9 DEF vars, ShutdownInv, Served, Active, Querying, StopsInTime
<1> QED
  BY <1>1, <1>2, <1>3, <1>4, <1>5, <1>6, <1>7, <1>8, <1>9, Steps

-----------------------------------------------------------------------------
\* The three parts together hold in every behaviour.
THEOREM LifecycleCorrect == Spec => []LifecycleInv
<1>1. Init => LifecycleInv
  BY TypeInit, TimeInit, ShutdownInit DEF LifecycleInv, AllInTime
<1>2. LifecycleInv /\ [Next]_vars => LifecycleInv'
  BY TypeNext, TimeNext, ShutdownNext DEF LifecycleInv, AllInTime
<1> QED
  BY <1>1, <1>2, PTL DEF Spec

\* An answer is lost to the WriteTimeout only after a request has spent what the
\* WriteTimeout adds outside the simulation's timeout, in its key, its body, Redis,
\* the lookups and its query, and within their bounds (main.go:115-116).
THEOREM LateOutsideTheFork == Spec => []AnswersInTime
<1>1. LifecycleInv => AnswersInTime
  BY DEF LifecycleInv, TimeInv, AnswersInTime
<1> QED
  BY <1>1, LifecycleCorrect, PTL

\* Nothing is closed under a handler, and no handler is cut off in an orderly
\* end, before Shutdown has waited for all of its time (main.go:127-144).
THEOREM GraceIsKept == Spec => []HandlersHaveTheirGrace
<1>1. LifecycleInv => HandlersHaveTheirGrace
  BY DEF LifecycleInv, ShutdownInv, HandlersHaveTheirGrace, Closing, Served
<1> QED
  BY <1>1, LifecycleCorrect, PTL

\* The process is gone after Shutdown's time and one query (main.go:57, 133).
THEOREM ShutdownIsBounded == Spec => []StopsInTime
<1>1. LifecycleInv => StopsInTime
  BY DEF LifecycleInv, ShutdownInv
<1> QED
  BY <1>1, LifecycleCorrect, PTL
=============================================================================
