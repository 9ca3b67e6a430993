--------------------------- MODULE SimulationApi ---------------------------
(***************************************************************************)
(* The way of a request through the API: the middleware chain of NewRouter *)
(* (internal/controller/http), the three handlers, SimulationUseCase       *)
(* (internal/usecase/simulation.go) and the two Postgres repositories      *)
(* (internal/repo).  Each request is a goroutine; they meet in the tables  *)
(* api_keys and simulations and in the counters of the rate limiters.      *)
(*                                                                         *)
(* The EVMFork is what MemoisedFork says of it, an answer or an error; the *)
(* plan limiter is one atomic step, as PlanQuota describes it.             *)
(***************************************************************************)
EXTENDS Integers, FiniteSets

CONSTANTS
  Call,       \* requests; the UUID of the simulation a call makes is the call
  Request,    \* what the callers send
  ApiKey,     \* rows of api_keys
  OwnerOf,    \* [ApiKey -> owner_id]
  PlanOf,     \* [ApiKey -> plan], with "" read as "free"
  Ip,
  IpLimit,    \* requests per address and window
  PlanLimit,  \* [plan -> requests per owner and window]
  MaxRenewals, \* bound: ends of windows
  MaxRevoked   \* bound: keys revoked

NoKey    == "no key"
NoInfo   == [owner |-> "nobody", plan |-> "none"]
NoResult == [success |-> FALSE, flags |-> {}, trace |-> FALSE]

\* What a body is, in the order the program finds out: not JSON or without a
\* required field; a number that is none; calldata that is not hex; a token
\* whose name claims a length that wraps around (token_decoder.go:254-256); a
\* block number beyond BIGINT, or a name with a NUL that JSONB does not take.
Body == {"malformed", "invalid", "garbled", "overlong", "unstorable", "good"}

Op == {"simulate", "get", "list", "options", "health"}

InfoOf(k) == [owner |-> OwnerOf[k], plan |-> PlanOf[k]]

ASSUME ApiAssumption ==
  /\ NoKey \notin ApiKey
  /\ \A k \in ApiKey : InfoOf(k) # NoInfo
  /\ \A r \in Request :
       r \in [op : Op, key : ApiKey \cup {NoKey}, ip : Ip, body : Body,
              includeTrace : BOOLEAN, id : Call]
  /\ IpLimit \in Nat /\ MaxRenewals \in Nat /\ MaxRevoked \in Nat
  /\ \A k \in ApiKey : PlanOf[k] # "enterprise" => PlanLimit[PlanOf[k]] \in Nat

VARIABLES
  req,       \* [Call -> Request]
  pc,        \* [Call -> Step]
  info,      \* [Call -> APIKeyInfo], injected by APIKeyAuth
  result,    \* [Call -> SimulationResult] of a simulation, as Run built it
  status,    \* [Call -> HTTP status], 0 until the answer is written
  reply,     \* [Call -> the results in the answer]
  gone,      \* calls whose client went away: their context is cancelled
  dbFailed,  \* calls that met an error of Postgres
  revoked,   \* keys with a revoked_at
  rows,      \* the table simulations
  ipLeft,    \* [Ip -> Nat]
  planLeft,  \* [owner and plan -> Nat]
  renewals   \* ends of windows so far

vars == <<req, pc, info, result, status, reply, gone, dbFailed, revoked, rows,
          ipLeft, planLeft, renewals>>

tables == <<revoked, rows>>
limits == <<ipLeft, planLeft, renewals>>
input  == <<req, gone>>

Step   == {"cors", "ip", "auth", "plan", "handle", "fork", "decode", "save",
           "answer", "done"}
Status == {0, 200, 204, 400, 401, 404, 422, 429, 500}

Severity == {"critical", "warning"}

\* entity.SimulationResult: the flags by their severities, and whether there is
\* a call trace.  Asset changes and logs are data no property tells apart.
Result == [success : BOOLEAN, flags : SUBSET Severity, trace : BOOLEAN]

\* deriveRiskLevel
RiskLevel(flags) ==
  CASE "critical" \in flags -> "critical"
    [] flags = {"warning"}  -> "warning"
    [] OTHER                -> "none"

\* The INSERT names no api_key column, so the row has none.
Row == [id : Call, api_key : {NoKey}, risk_level : Severity \cup {"none"},
        result_json : Result]

AccountOf(c) == <<info[c].owner, info[c].plan>>
Accounts   == {<<OwnerOf[k], PlanOf[k]>> : k \in ApiKey}
FullQuota  == [a \in Accounts |->
                 IF a[2] = "enterprise" THEN 0 ELSE PlanLimit[a[2]]]

Goto(c, step) == pc' = [pc EXCEPT ![c] = step]

\* c.AbortWithStatusJSON, or c.JSON and return.
Respond(c, code) == status' = [status EXCEPT ![c] = code] /\ Goto(c, "done")

Show(c, results) == reply' = [reply EXCEPT ![c] = results]

\* A query fails when its context is over, and may fail at any time.
QueryFails(c) == dbFailed' = dbFailed \cup {c}
QueryWorks(c) == c \notin gone /\ UNCHANGED dbFailed

-----------------------------------------------------------------------------
(***************************************************************************)
(* Middleware, in the order NewRouter registers it.                        *)
(***************************************************************************)
CORS(c) ==
  /\ pc[c] = "cors"
  /\ IF req[c].op = "options" THEN Respond(c, 204)
     ELSE Goto(c, "ip") /\ UNCHANGED status
  /\ UNCHANGED <<input, info, result, reply, dbFailed, tables, limits>>

\* Bug: the limit is noticed one request late.
RateLimiterLate(c) ==
  /\ pc[c] = "ip"
  /\ ipLeft' = [ipLeft EXCEPT ![req[c].ip] = @ - 1]
  /\ IF ipLeft[req[c].ip] < 0 THEN Respond(c, 429)
     ELSE Goto(c, "auth") /\ UNCHANGED status
  /\ UNCHANGED <<input, info, result, reply, dbFailed, tables, planLeft, renewals>>

RateLimiter(c) ==
  /\ pc[c] = "ip"
  /\ \/ /\ ipLeft[req[c].ip] = 0
        /\ Respond(c, 429)
        /\ UNCHANGED ipLeft
     \/ /\ ipLeft[req[c].ip] > 0
        /\ ipLeft' = [ipLeft EXCEPT ![req[c].ip] = @ - 1]
        /\ Goto(c, "auth")
        /\ UNCHANGED status
  /\ UNCHANGED <<input, info, result, reply, dbFailed, tables, planLeft, renewals>>

\* The public route asks for no key.
Health(c) ==
  /\ pc[c] = "auth"
  /\ req[c].op = "health"
  /\ Respond(c, 200)
  /\ UNCHANGED <<input, info, result, reply, dbFailed, tables, limits>>

Refuse(c) == Respond(c, 401) /\ UNCHANGED info

\* Validate: WHERE key = $1 AND revoked_at IS NULL
ActiveKeys == ApiKey \ revoked

\* APIKeyAuth: any error of the query refuses the key, like no row.
APIKeyAuth(c) ==
  /\ pc[c] = "auth" /\ req[c].op # "health"
  /\ \/ /\ req[c].key = NoKey
        /\ Refuse(c)
        /\ UNCHANGED dbFailed
     \/ /\ req[c].key # NoKey
        /\ QueryFails(c)
        /\ Refuse(c)
     \/ /\ req[c].key \notin ActiveKeys \cup {NoKey}
        /\ QueryWorks(c)
        /\ Refuse(c)
     \/ /\ req[c].key \in ActiveKeys
        /\ QueryWorks(c)
        /\ info' = [info EXCEPT ![c] = InfoOf(req[c].key)]
        /\ Goto(c, "plan")
        /\ UNCHANGED status
  /\ UNCHANGED <<input, result, reply, tables, limits>>

\* Bug: a request that is refused is counted too, against the next window.
PlanRateLimiterStrict(c) ==
  /\ pc[c] = "plan"
  /\ planLeft' = [planLeft EXCEPT ![AccountOf(c)] = @ - 1]
  /\ \/ /\ info[c].plan = "enterprise" \/ planLeft[AccountOf(c)] > 0
        /\ Goto(c, "handle")
        /\ UNCHANGED status
     \/ /\ info[c].plan # "enterprise" /\ planLeft[AccountOf(c)] <= 0
        /\ Respond(c, 429)
  /\ UNCHANGED <<input, info, result, reply, dbFailed, tables, ipLeft, renewals>>

\* The header with the owner's id, and PlanRateLimiter.
PlanRateLimiter(c) ==
  /\ pc[c] = "plan"
  /\ \/ /\ info[c].plan = "enterprise"
        /\ Goto(c, "handle")
        /\ UNCHANGED <<status, planLeft>>
     \/ /\ info[c].plan # "enterprise"
        /\ planLeft[AccountOf(c)] = 0
        /\ Respond(c, 429)
        /\ UNCHANGED planLeft
     \/ /\ info[c].plan # "enterprise"
        /\ planLeft[AccountOf(c)] > 0
        /\ planLeft' = [planLeft EXCEPT ![AccountOf(c)] = @ - 1]
        /\ Goto(c, "handle")
        /\ UNCHANGED status
  /\ UNCHANGED <<input, info, result, reply, dbFailed, tables, ipLeft, renewals>>

-----------------------------------------------------------------------------
(***************************************************************************)
(* The handlers of simulation.go and what they call.                       *)
(***************************************************************************)
\* Bug: the validation error is written and the simulation is run all the same.
SimulateNoReturn(c) ==
  /\ pc[c] = "handle"
  /\ req[c].op = "simulate"
  /\ Goto(c, "fork")
  /\ status' = [status EXCEPT ![c] = IF req[c].body = "invalid" THEN 422 ELSE @]
  /\ UNCHANGED <<input, info, result, reply, dbFailed, tables, limits>>

\* SimulationHandler.Simulate up to the call of Run: ShouldBindJSON and
\* toEntityRequest.
Simulate(c) ==
  /\ pc[c] = "handle"
  /\ req[c].op = "simulate"
  /\ \/ req[c].body = "malformed" /\ Respond(c, 400)
     \/ req[c].body = "invalid"   /\ Respond(c, 422)
     \/ /\ req[c].body \notin {"malformed", "invalid"}
        /\ Goto(c, "fork")
        /\ UNCHANGED status
  /\ UNCHANGED <<input, info, result, reply, dbFailed, tables, limits>>

\* Bug: the handler returns on an error of Run without an answer.
ForkErrorUnanswered(c) ==
  /\ pc[c] = "fork"
  /\ \/ /\ req[c].body = "garbled"
        /\ Goto(c, "done")
        /\ UNCHANGED <<result, status>>
     \/ /\ req[c].body # "garbled"
        /\ \E ok, traced \in BOOLEAN :
             result' = [result EXCEPT ![c] =
                          [success |-> ok, flags |-> {}, trace |-> traced]]
        /\ Goto(c, "decode")
        /\ UNCHANGED status
  /\ UNCHANGED <<input, info, reply, dbFailed, tables, limits>>

\* uc.fork.Simulate, through SimulationLoggingRepo: an error for calldata that
\* is not hex, and else a result, whatever became of the calls on the node.
Fork(c) ==
  /\ pc[c] = "fork"
  /\ \/ /\ req[c].body = "garbled"
        /\ Respond(c, 500)
        /\ UNCHANGED result
     \/ /\ req[c].body # "garbled"
        /\ \E ok, traced \in BOOLEAN :
             result' = [result EXCEPT ![c] =
                          [success |-> ok, flags |-> {}, trace |-> traced]]
        /\ Goto(c, "decode")
        /\ UNCHANGED status
  /\ UNCHANGED <<input, info, reply, dbFailed, tables, limits>>

\* uc.decoder.Decode and uc.risk.Analyze: which flags there are is the subject
\* of RiskRules.  decodeStringReturn panics where 64 + strLen wraps around, and
\* Recovery answers.
Decode(c) ==
  /\ pc[c] = "decode"
  /\ \/ /\ req[c].body = "overlong"
        /\ Respond(c, 500)
        /\ UNCHANGED result
     \/ /\ req[c].body # "overlong"
        /\ \E f \in SUBSET Severity : result' = [result EXCEPT ![c].flags = f]
        /\ Goto(c, "save")
        /\ UNCHANGED status
  /\ UNCHANGED <<input, info, reply, dbFailed, tables, limits>>

NewRow(c) ==
  [id |-> c, api_key |-> NoKey, risk_level |-> RiskLevel(result[c].flags),
   result_json |-> result[c]]

Insert(c) ==
  /\ req[c].body # "unstorable"
  /\ QueryWorks(c)
  /\ rows' = rows \cup {NewRow(c)}

\* Bug: an error of the database is the caller's.
SaveFailsCaller(c) ==
  /\ pc[c] = "save"
  /\ \/ QueryFails(c) /\ Respond(c, 500) /\ UNCHANGED rows
     \/ /\ Insert(c)
        /\ Goto(c, "answer")
        /\ UNCHANGED status
  /\ UNCHANGED <<input, info, result, reply, revoked, limits>>

\* Bug: the call trace is dropped before the result is saved.
SaveStripped(c) ==
  /\ pc[c] = "save"
  /\ \/ QueryFails(c) /\ UNCHANGED rows
     \/ /\ QueryWorks(c)
        /\ rows' = rows \cup {[NewRow(c) EXCEPT !.result_json.trace = FALSE]}
  /\ Goto(c, "answer")
  /\ UNCHANGED <<input, info, result, status, reply, revoked, limits>>

\* Bug: fire and forget, in a goroutine of its own.
SaveInBackground(c) ==
  /\ \/ /\ pc[c] = "save"
        /\ Goto(c, "answer")
        /\ UNCHANGED <<dbFailed, rows>>
     \/ /\ pc[c] \in {"answer", "done"} /\ result[c] # NoResult /\ status[c] \in {0, 200}
        /\ NewRow(c) \notin rows
        /\ (QueryFails(c) /\ UNCHANGED rows) \/ Insert(c)
        /\ UNCHANGED pc
  /\ UNCHANGED <<input, info, result, status, reply, revoked, limits>>

\* uc.repo.Save, under the caller's context; its error is swallowed.
Save(c) ==
  /\ pc[c] = "save"
  /\ \/ QueryFails(c) /\ UNCHANGED rows
     \/ Insert(c)
  /\ Goto(c, "answer")
  /\ UNCHANGED <<input, info, result, status, reply, revoked, limits>>

\* The trace goes out only to those who asked for it.
Answer(c) ==
  /\ pc[c] = "answer"
  /\ Respond(c, 200)
  /\ Show(c, {[id |-> c, result |->
                [result[c] EXCEPT !.trace = @ /\ req[c].includeTrace]]})
  /\ UNCHANGED <<input, info, result, dbFailed, tables, limits>>

\* The two SELECTs of SimulationPostgresRepo, and what is made of their rows.
ById(i)       == {r \in rows : r.id = i}
ByAPIKey(k)   == {r \in rows : r.api_key = k}
ResultsOf(S)  == {[id |-> r.id, result |-> r.result_json] : r \in S}

\* GetSimulation: no row is an error of Scan, like any other.
GetSimulation(c) ==
  /\ pc[c] = "handle"
  /\ req[c].op = "get"
  /\ LET found == ById(req[c].id)
     IN  \/ QueryFails(c) /\ Respond(c, 500) /\ UNCHANGED reply
         \/ found = {} /\ QueryWorks(c) /\ Respond(c, 500) /\ UNCHANGED reply
         \/ found # {} /\ QueryWorks(c) /\ Respond(c, 200)
            /\ Show(c, ResultsOf(found))
  /\ UNCHANGED <<input, info, result, tables, limits>>

\* ListSimulations: WHERE api_key = the caller's OwnerID.  The page is longer
\* than the table, so LIMIT and OFFSET are left out.  rows.Err() is not asked: a
\* query that fails on the way leaves a shorter list.
ListSimulations(c) ==
  /\ pc[c] = "handle"
  /\ req[c].op = "list"
  /\ LET mine == ResultsOf(ByAPIKey(info[c].owner))
     IN  \/ QueryFails(c) /\ Respond(c, 500) /\ UNCHANGED reply
         \/ /\ QueryFails(c)
            /\ Respond(c, 200)
            /\ \E read \in SUBSET mine : Show(c, read)
         \/ QueryWorks(c) /\ Respond(c, 200) /\ Show(c, mine)
  /\ UNCHANGED <<input, info, result, tables, limits>>

-----------------------------------------------------------------------------
\* The HTTP client goes away.
HangUp(c) ==
  /\ pc[c] # "done"
  /\ c \notin gone
  /\ gone' = gone \cup {c}
  /\ UNCHANGED <<req, pc, info, result, status, reply, dbFailed, tables, limits>>

\* The operator sets revoked_at.
Revoke(k) ==
  /\ k \notin revoked /\ Cardinality(revoked) < MaxRevoked
  /\ revoked' = revoked \cup {k}
  /\ UNCHANGED <<input, pc, info, result, status, reply, dbFailed, rows, limits>>

\* The window of an address, or of an owner under a plan, ends.
Renew ==
  /\ renewals < MaxRenewals
  /\ renewals' = renewals + 1
  /\ \/ /\ \E i \in Ip : ipLeft' = [ipLeft EXCEPT ![i] = IpLimit]
        /\ UNCHANGED planLeft
     \/ /\ \E a \in Accounts : planLeft' = [planLeft EXCEPT ![a] = FullQuota[a]]
        /\ UNCHANGED ipLeft
  /\ UNCHANGED <<input, pc, info, result, status, reply, dbFailed, tables>>

Init ==
  /\ req \in [Call -> Request]
  /\ pc = [c \in Call |-> "cors"]
  /\ info = [c \in Call |-> NoInfo]
  /\ result = [c \in Call |-> NoResult]
  /\ status = [c \in Call |-> 0]
  /\ reply = [c \in Call |-> {}]
  /\ gone = {} /\ dbFailed = {}
  /\ revoked = {} /\ rows = {}
  /\ ipLeft = [i \in Ip |-> IpLimit]
  /\ planLeft = FullQuota
  /\ renewals = 0

Handle(c) ==
  \/ CORS(c) \/ RateLimiter(c) \/ Health(c) \/ APIKeyAuth(c) \/ PlanRateLimiter(c)
  \/ Simulate(c) \/ GetSimulation(c) \/ ListSimulations(c)
  \/ Fork(c) \/ Decode(c) \/ Save(c) \/ Answer(c)

Next ==
  \/ \E c \in Call : Handle(c) \/ HangUp(c)
  \/ \E k \in ApiKey : Revoke(k)
  \/ Renew

Spec == Init /\ [][Next]_vars

\* A goroutine that can go on does.  That Fork returns is SimCache's
\* EveryCallEnds; that Postgres answers or breaks the connection is assumed.
FairSpec == Spec /\ \A c \in Call : WF_vars(Handle(c))

-----------------------------------------------------------------------------
\* Every variable keeps its type; no counter of an address leaves its window.
TypeOK ==
  /\ req \in [Call -> Request]
  /\ pc \in [Call -> Step]
  /\ info \in [Call -> {NoInfo} \cup {InfoOf(k) : k \in ApiKey}]
  /\ result \in [Call -> Result]
  /\ status \in [Call -> Status]
  /\ reply \in [Call -> SUBSET [id : Call, result : Result]]
  /\ gone \subseteq Call
  /\ dbFailed \subseteq Call
  /\ revoked \subseteq ApiKey
  /\ rows \subseteq Row
  /\ ipLeft \in [Ip -> 0..IpLimit]
  /\ planLeft \in [Accounts -> Nat]
  /\ renewals \in 0..MaxRenewals

Saved(c) == \E r \in rows : r.id = c

\* An answer of 4xx, from whatever part of the chain, is the end of a call: it
\* has run no simulation and left no row (middleware.go, api_key_middleware.go,
\* plan_rate_limiter.go:102, simulation.go:38-57).
LeavesNothing(c) == ~Saved(c) /\ result[c] = NoResult /\ reply[c] = {}

RefusedLeavesNothing ==
  \A c \in Call : status[c] \in {400, 401, 404, 422, 429} => LeavesNothing(c)

\* Everyone who is shown a simulation, its caller in the answer to POST or
\* others from the table, is shown the same result; only the caller may get
\* it without its trace (simulation.go:69-73 strips it after Save).
Agrees(c, x) ==
  LET full == result[x.id]
  IN  /\ [x.result EXCEPT !.trace = full.trace] = full
      /\ x.result.trace = IF req[c].op = "simulate"
                          THEN full.trace /\ req[c].includeTrace
                          ELSE full.trace

RepliesAgree == \A c \in Call : \A x \in reply[c] : Agrees(c, x)

\* A simulation that the fork answers and the decoder survives is answered with
\* 200, also if its row cannot be stored at all: "DB error must never fail the
\* caller" (usecase/simulation.go:90).
DBErrorNeverFailsCaller ==
  \A c \in Call : req[c].op = "simulate" /\ status[c] = 500 =>
                    req[c].body \in {"garbled", "overlong"}

(***************************************************************************)
(* The inductive invariant behind the three, behind AnswerIsReadable and   *)
(* PlansAreCharged: what is true of a call at each of its stations, what   *)
(* the table says of a simulation, and that a result somebody has been     *)
(* shown is settled.                                                       *)
(***************************************************************************)
Settled(c) == pc[c] \in {"answer", "done"}

CallInv(c) ==
  /\ pc[c] # "done" => status[c] = 0 /\ reply[c] = {}
  /\ pc[c] \in {"cors", "ip", "auth"} => info[c] = NoInfo
  /\ pc[c] \in {"ip", "auth"} => req[c].op # "options"
  /\ pc[c] \in {"plan", "handle"} => info[c] # NoInfo
  /\ info[c] # NoInfo => /\ req[c].key \in ApiKey
                         /\ info[c] = InfoOf(req[c].key)
                         /\ req[c].op \in {"simulate", "get", "list"}
  /\ pc[c] \in {"fork", "decode", "save", "answer"} =>
       req[c].op = "simulate" /\ info[c] # NoInfo
  /\ pc[c] \in {"cors", "ip", "auth", "plan", "handle", "fork"} =>
       result[c] = NoResult
  /\ status[c] \in {400, 401, 404, 422, 429} => LeavesNothing(c)
  /\ pc[c] = "answer" \/ (req[c].op = "simulate" /\ status[c] = 200) =>
       Saved(c) \/ c \in dbFailed
  /\ req[c].op = "simulate" /\ status[c] = 500 =>
       req[c].body \in {"garbled", "overlong"}

ApiInv ==
  /\ TypeOK
  /\ \A c \in Call : CallInv(c)
  /\ \A r \in rows : r = NewRow(r.id) /\ Settled(r.id)
  /\ \A c \in Call : \A x \in reply[c] : Agrees(c, x) /\ Settled(x.id)

Answered(a) == req[a].op = "simulate" /\ status[a] = 200 /\ a \notin dbFailed
Asks(c, a)  == req[c].op = "get" /\ req[c].id = a /\ pc[c] = "handle"
Gets(c, a)  == status[c] = 200 /\ reply[c] = {[id |-> a, result |-> result[a]]}

\* A simulation is saved before it is answered, so that whoever has seen its id in
\* an answer can ask for it at once: the GET gets the one whole result, also where
\* the answer to POST left out the trace, unless Postgres failed one of the two
\* (usecase/simulation.go:90-93, simulation.go:69-73, simulation_postgres.go:64-77).
AnswerIsReadable ==
  [][\A a, c \in Call :
       Answered(a) /\ Asks(c, a) /\ pc'[c] = "done" =>
         c \in dbFailed' \/ Gets(c, a)']_vars

\* What PlanQuota sees: the account a request would be charged to, fixed by what
\* it is, and what the limiter has said of it.
NoAccount == <<"nobody", "enterprise">>

Charged(c) ==
  IF req[c].key = NoKey \/ req[c].op \in {"options", "health"} THEN NoAccount
  ELSE IF PlanOf[req[c].key] = "enterprise" THEN NoAccount
  ELSE <<OwnerOf[req[c].key], PlanOf[req[c].key]>>

Verdict(c) ==
  IF info[c] = NoInfo \/ pc[c] = "plan" THEN "pending"
  ELSE IF status[c] = 429 THEN "refused" ELSE "admitted"

Quotas == INSTANCE PlanQuota WITH
            Request   <- Call,
            Account   <- Accounts,
            Quota     <- FullQuota,
            Unlimited <- NoAccount,
            account   <- [c \in Call |-> Charged(c)],
            verdict   <- [c \in Call |-> Verdict(c)],
            left      <- planLeft

\* From outside, the whole chain charges plans as PlanQuota says: a request
\* that any other part refuses, before or after, or that fails, costs its
\* customer nothing or one unit, and what is refused costs nothing
\* (router.go:35-47, plan_rate_limiter.go:30-53).
PlansAreCharged == Quotas!Spec

\* Every request gets its answer.
EveryCallAnswered == \A c \in Call : <>(status[c] # 0)

-----------------------------------------------------------------------------
(***************************************************************************)
(* What the API documentation in simulation.go says and the code does not  *)
(* do.                                                                     *)
(***************************************************************************)

\* "Returns a paginated list of simulations run by the authenticated API key"
\* (simulation.go:112): a list that is answered, with no error of Postgres,
\* shows what the table has of the caller's own simulations.
ListIsOwnHistory ==
  [][\A c \in Call :
       req[c].op = "list" /\ status[c] = 0 /\ status'[c] = 200
         /\ c \notin dbFailed' =>
         reply'[c] = ResultsOf({r \in rows : info[r.id].owner = info[c].owner})]_vars

\* "@Failure 404" (simulation.go:84): a GET that finds no row is not a failure
\* of the server.
UnknownIdIsNotFound ==
  \A c \in Call : req[c].op = "get" /\ status[c] = 500 => c \in dbFailed
=============================================================================
