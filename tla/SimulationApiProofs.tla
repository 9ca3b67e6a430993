------------------------- MODULE SimulationApiProofs -------------------------
(***************************************************************************)
(* Theorems about SimulationApi for every set of requests, keys, owners,   *)
(* plans and addresses, and every limit.                                   *)
(***************************************************************************)
EXTENDS SimulationApi, TLAPS

\* What ApiAssumption says of one request.
LEMMA RequestType ==
  ASSUME NEW r \in Request
  PROVE  /\ r.op \in Op /\ r.key \in ApiKey \cup {NoKey} /\ r.ip \in Ip
         /\ r.body \in Body /\ r.includeTrace \in BOOLEAN /\ r.id \in Call
  BY ApiAssumption

\* The quota of an account is a number.
LEMMA QuotaType == FullQuota \in [Accounts -> Nat]
  BY ApiAssumption DEF FullQuota, Accounts

\* A result keeps its type under what the pipeline does to it.
LEMMA ResultType ==
  /\ NoResult \in Result
  /\ \A ok, traced \in BOOLEAN, f \in SUBSET Severity :
       [success |-> ok, flags |-> f, trace |-> traced] \in Result
  /\ \A x \in Result : \A f \in SUBSET Severity : [x EXCEPT !.flags = f] \in Result
  /\ \A x \in Result : \A b \in BOOLEAN : [x EXCEPT !.trace = x.trace /\ b] \in Result
  BY DEF NoResult, Result

\* deriveRiskLevel gives one of its three levels.
LEMMA RiskLevelType ==
  ASSUME NEW f \in SUBSET Severity PROVE RiskLevel(f) \in Severity \cup {"none"}
<1>1. CASE "critical" \in f
  BY <1>1 DEF RiskLevel, Severity
<1>2. CASE "critical" \notin f /\ f = {"warning"}
  BY <1>2 DEF RiskLevel, Severity
<1>3. CASE "critical" \notin f /\ f # {"warning"}
  BY <1>3 DEF RiskLevel, Severity
<1> QED
  BY <1>1, <1>2, <1>3

\* The row Save makes of a call is a row of the table.
LEMMA NewRowType ==
  ASSUME TypeOK, NEW c \in Call PROVE NewRow(c) \in Row /\ NewRow(c).id = c
<1>1. RiskLevel(result[c].flags) \in Severity \cup {"none"}
  BY RiskLevelType DEF TypeOK, Result
<1> QED
  BY <1>1 DEF TypeOK, NewRow, Row

\* What is read from the table has the type of a reply.
LEMMA ResultsOfType ==
  ASSUME TypeOK, NEW S \in SUBSET rows
  PROVE  ResultsOf(S) \in SUBSET [id : Call, result : Result]
  BY DEF TypeOK, ResultsOf, Row

-----------------------------------------------------------------------------
(***************************************************************************)
(* Types.                                                                  *)
(***************************************************************************)
\* The first state has the types.
LEMMA TypeInit == Init => TypeOK
  BY QuotaType, ResultType, ApiAssumption DEF Init, TypeOK, Step, Status

\* Every step keeps them.
LEMMA TypeNext == TypeOK /\ [Next]_vars => TypeOK'
<1> SUFFICES ASSUME TypeOK, [Next]_vars PROVE TypeOK'
  OBVIOUS
<1> USE DEF TypeOK, input, tables, limits
<1>1. ASSUME NEW c \in Call, CORS(c) PROVE TypeOK'
  BY <1>1 DEF CORS, Respond, Goto, Step, Status
<1>2. ASSUME NEW c \in Call, RateLimiter(c) PROVE TypeOK'
  <2>1. ipLeft' \in [Ip -> 0..IpLimit]
    BY <1>2, RequestType, ApiAssumption DEF RateLimiter
  <2> QED
    BY <1>2, <2>1 DEF RateLimiter, Respond, Goto, Step, Status
<1>3. ASSUME NEW c \in Call, Health(c) PROVE TypeOK'
  BY <1>3 DEF Health, Respond, Goto, Step, Status
<1>4. ASSUME NEW c \in Call, APIKeyAuth(c) PROVE TypeOK'
  <2>1. info' \in [Call -> {NoInfo} \cup {InfoOf(k) : k \in ApiKey}]
    BY <1>4 DEF APIKeyAuth, Refuse, ActiveKeys
  <2> QED
    BY <1>4, <2>1
    DEF APIKeyAuth, Refuse, Respond, Goto, QueryFails, QueryWorks, Step, Status
<1>5. ASSUME NEW c \in Call, PlanRateLimiter(c) PROVE TypeOK'
  <2>1. planLeft' \in [Accounts -> Nat]
    BY <1>5 DEF PlanRateLimiter
  <2> QED
    BY <1>5, <2>1 DEF PlanRateLimiter, Respond, Goto, Step, Status
<1>6. ASSUME NEW c \in Call, Simulate(c) PROVE TypeOK'
  BY <1>6 DEF Simulate, Respond, Goto, Step, Status
<1>7. ASSUME NEW c \in Call, Fork(c) \/ Decode(c) PROVE TypeOK'
  <2>1. PICK x \in Result : result' = [result EXCEPT ![c] = x] \/ result' = result
    <3>1. CASE Fork(c)
      BY <3>1, ResultType DEF Fork
    <3>2. CASE Decode(c)
      BY <3>2, ResultType DEF Decode
    <3> QED
      BY <1>7, <3>1, <3>2
  <2> QED
    BY <1>7, <2>1 DEF Fork, Decode, Respond, Goto, Step, Status
<1>8. ASSUME NEW c \in Call, Save(c) PROVE TypeOK'
  BY <1>8, NewRowType DEF Save, Insert, QueryFails, QueryWorks, Goto, Step
<1>9. ASSUME NEW c \in Call, Answer(c) PROVE TypeOK'
  <2>1. [result[c] EXCEPT !.trace = @ /\ req[c].includeTrace] \in Result
    BY RequestType, ResultType
  <2> QED
    BY <1>9, <2>1 DEF Answer, Show, Respond, Goto, Step, Status
<1>10. ASSUME NEW c \in Call, GetSimulation(c) \/ ListSimulations(c) PROVE TypeOK'
  <2>1. PICK x \in SUBSET [id : Call, result : Result] :
          reply' = [reply EXCEPT ![c] = x] \/ reply' = reply
    <3>1. CASE GetSimulation(c)
      BY <3>1, ResultsOfType DEF GetSimulation, Show, ById
    <3>2. CASE ListSimulations(c)
      BY <3>2, ResultsOfType DEF ListSimulations, Show, ByAPIKey
    <3> QED
      BY <1>10, <3>1, <3>2
  <2> QED
    BY <1>10, <2>1 DEF GetSimulation, ListSimulations, Respond, Goto, QueryFails,
                       QueryWorks, Step, Status
<1>11. ASSUME NEW c \in Call, HangUp(c) PROVE TypeOK'
  BY <1>11 DEF HangUp
<1>12. ASSUME NEW k \in ApiKey, Revoke(k) PROVE TypeOK'
  BY <1>12 DEF Revoke
<1>13. CASE Renew
  <2>1. ipLeft' \in [Ip -> 0..IpLimit] /\ planLeft' \in [Accounts -> Nat]
    BY <1>13, QuotaType, ApiAssumption DEF Renew
  <2> QED
    BY <1>13, <2>1, ApiAssumption DEF Renew
<1>14. CASE UNCHANGED vars
  BY <1>14 DEF vars
<1> QED
  BY <1>1, <1>2, <1>3, <1>4, <1>5, <1>6, <1>7, <1>8, <1>9, <1>10, <1>11, <1>12,
     <1>13, <1>14 DEF Next, Handle

\* Every variable keeps its type in every behaviour, and no counter of an
\* address leaves its window (middleware.go, api_key_middleware.go,
\* simulation.go).
THEOREM TypeCorrect == Spec => []TypeOK
  BY TypeInit, TypeNext, PTL DEF Spec

\* An answer without its trace is otherwise the whole result.
LEMMA StrippedResult ==
  ASSUME NEW full \in Result, NEW t \in BOOLEAN
  PROVE  LET stripped == [full EXCEPT !.trace = t]
         IN  [stripped EXCEPT !.trace = full.trace] = full /\ stripped.trace = t
  BY DEF Result

-----------------------------------------------------------------------------
(***************************************************************************)
(* The stations of a call, its row and its replies.                        *)
(***************************************************************************)
\* The rows that are shown are the settled results of their calls.
LEMMA RowsAgree ==
  ASSUME ApiInv, NEW c \in Call, req[c].op # "simulate",
         NEW x \in ResultsOf(rows)
  PROVE  Agrees(c, x) /\ Settled(x.id) /\ x.id \in Call
<1>1. PICK r \in rows : x = [id |-> r.id, result |-> r.result_json]
  BY DEF ResultsOf
<1>2. r = NewRow(r.id) /\ Settled(r.id) /\ r.id \in Call
  BY DEF ApiInv, TypeOK, Row
<1>3. x.result = result[x.id] /\ result[x.id] \in Result
  BY <1>1, <1>2 DEF NewRow, ApiInv, TypeOK
<1> QED
  BY <1>1, <1>2, <1>3 DEF Agrees, Result

\* A call that has not come to its answer has no row.
LEMMA NoRowYet ==
  ASSUME ApiInv, NEW c \in Call, ~Settled(c) PROVE ~Saved(c)
  BY DEF ApiInv, Saved

\* A step of one call keeps the invariant when it keeps that call's part, adds
\* no row but its own and shows nothing but what is settled.
LEMMA OneCallMoves ==
  ASSUME ApiInv, TypeOK', NEW c \in Call, req' = req,
         \A d \in Call \ {c} :
           /\ pc'[d] = pc[d] /\ info'[d] = info[d] /\ result'[d] = result[d]
           /\ status'[d] = status[d] /\ reply'[d] = reply[d],
         CallInv(c)', dbFailed \subseteq dbFailed',
         Settled(c) => Settled(c)' /\ result'[c] = result[c],
         rows' = rows \/ (rows' = rows \cup {NewRow(c)'} /\ Settled(c)'),
         \A x \in reply'[c] : Agrees(c, x)' /\ Settled(x.id)'
  PROVE  ApiInv'
<1> USE DEF TypeOK
<1>1. ASSUME NEW r \in rows' PROVE r = NewRow(r.id)' /\ Settled(r.id)'
  <2>1. CASE r \in rows
    <3>1. r = NewRow(r.id) /\ Settled(r.id) /\ r.id \in Call
      BY <2>1 DEF ApiInv, Row
    <3>2. result'[r.id] = result[r.id] /\ Settled(r.id)'
      BY <3>1 DEF Settled
    <3> QED
      BY <3>1, <3>2 DEF NewRow
  <2>2. CASE r \notin rows
    <3>1. r = NewRow(c)' /\ Settled(c)'
      BY <2>2
    <3>2. r.id = c
      BY <3>1 DEF NewRow
    <3> QED
      BY <3>1, <3>2
  <2> QED
    BY <2>1, <2>2
<1>2. ASSUME NEW d \in Call, d # c PROVE CallInv(d)'
  <2>1. CallInv(d)
    BY DEF ApiInv
  <2>2. Saved(d)' <=> Saved(d)
    BY <1>2 DEF Saved, NewRow
  <2> QED
    BY <1>2, <2>1, <2>2 DEF CallInv, LeavesNothing
<1>3. ASSUME NEW d \in Call, d # c, NEW x \in reply'[d]
      PROVE  Agrees(d, x)' /\ Settled(x.id)'
  <2>1. Agrees(d, x) /\ Settled(x.id) /\ x.id \in Call
    BY <1>3 DEF ApiInv
  <2>2. result'[x.id] = result[x.id] /\ Settled(x.id)'
    BY <2>1 DEF Settled
  <2> QED
    BY <2>1, <2>2 DEF Agrees
<1> QED
  BY <1>1, <1>2, <1>3 DEF ApiInv

\* At first nobody is anywhere and nothing is stored.
LEMMA ApiInvInit == Init => ApiInv
<1> SUFFICES ASSUME Init PROVE ApiInv
  OBVIOUS
<1>1. \A c \in Call : CallInv(c)
  BY DEF Init, CallInv
<1> QED
  BY <1>1, TypeInit DEF Init, ApiInv

\* Every step keeps the stations, the rows and the replies in agreement.
LEMMA ApiInvNext == ApiInv /\ [Next]_vars => ApiInv'
<1> SUFFICES ASSUME ApiInv, [Next]_vars PROVE ApiInv'
  OBVIOUS
<1>0. TypeOK /\ TypeOK'
  BY TypeNext DEF ApiInv
<1>a. \A c \in Call : CallInv(c) /\ (~Settled(c) => ~Saved(c))
  BY NoRowYet DEF ApiInv
<1> USE <1>0 DEF TypeOK, input, tables, limits
<1>1. ASSUME NEW c \in Call,
             CORS(c) \/ RateLimiter(c) \/ Health(c) \/ PlanRateLimiter(c) \/ Simulate(c)
      PROVE  ApiInv'
  <2>1. /\ UNCHANGED <<req, info, result, reply, dbFailed, rows>>
        /\ \A d \in Call \ {c} : pc'[d] = pc[d] /\ status'[d] = status[d]
        /\ pc[c] \in {"cors", "ip", "auth", "plan", "handle"}
    BY <1>1 DEF CORS, RateLimiter, Health, PlanRateLimiter, Simulate, Respond, Goto
  <2>2. CallInv(c) /\ ~Settled(c) /\ ~Saved(c)
    BY <1>a, <2>1 DEF Settled
  <2>3. ~Saved(c)'
    BY <2>1, <2>2 DEF Saved
  <2>4. result[c] = NoResult /\ reply[c] = {} /\ status[c] = 0
    BY <2>1, <2>2 DEF CallInv
  <2>5. CallInv(c)'
    <3>1. CASE CORS(c)
      BY <2>1, <2>2, <2>4, <3>1 DEF CORS, Respond, Goto, CallInv
    <3>2. CASE RateLimiter(c)
      BY <2>1, <2>2, <2>3, <2>4, <3>2
      DEF RateLimiter, Respond, Goto, CallInv, LeavesNothing
    <3>3. CASE Health(c)
      BY <2>1, <2>2, <2>4, <3>3 DEF Health, Respond, Goto, CallInv
    <3>4. CASE PlanRateLimiter(c)
      BY <2>1, <2>2, <2>3, <2>4, <3>4
      DEF PlanRateLimiter, Respond, Goto, CallInv, LeavesNothing
    <3>5. CASE Simulate(c)
      BY <2>1, <2>2, <2>3, <2>4, <3>5
      DEF Simulate, Respond, Goto, CallInv, LeavesNothing
    <3> QED
      BY <1>1, <3>1, <3>2, <3>3, <3>4, <3>5
  <2> QED
    BY <2>1, <2>2, <2>4, <2>5, OneCallMoves
<1>2. ASSUME NEW c \in Call, APIKeyAuth(c) PROVE ApiInv'
  <2>1. /\ UNCHANGED <<req, result, reply, rows>>
        /\ \A d \in Call \ {c} :
             pc'[d] = pc[d] /\ status'[d] = status[d] /\ info'[d] = info[d]
        /\ pc[c] = "auth" /\ dbFailed \subseteq dbFailed'
    BY <1>2 DEF APIKeyAuth, Refuse, Respond, Goto, QueryFails, QueryWorks
  <2>2. CallInv(c) /\ ~Settled(c) /\ ~Saved(c)
    BY <1>a, <2>1 DEF Settled
  <2>3. ~Saved(c)'
    BY <2>1, <2>2 DEF Saved
  <2>4. /\ result[c] = NoResult /\ reply[c] = {} /\ status[c] = 0
        /\ info[c] = NoInfo
    BY <2>1, <2>2 DEF CallInv
  <2>5. CallInv(c)'
    <3>1. CASE info' = info
      <4>1. pc'[c] = "done" /\ status'[c] = 401
        <5>1. \A k \in ApiKey : info # [info EXCEPT ![c] = InfoOf(k)]
          BY <2>4, ApiAssumption
        <5> QED
          BY <1>2, <3>1, <5>1 DEF APIKeyAuth, Refuse, Respond, Goto, ActiveKeys
      <4> QED
        BY <2>1, <2>3, <2>4, <3>1, <4>1 DEF CallInv, LeavesNothing
    <3>2. CASE info' # info
      <4>1. /\ req[c].key \in ApiKey
            /\ info'[c] = InfoOf(req[c].key)
            /\ pc'[c] = "plan"
            /\ status' = status
        BY <1>2, <3>2 DEF APIKeyAuth, Refuse, Goto, ActiveKeys
      <4>2. req[c].op \in {"simulate", "get", "list"}
        <5>1. req[c].op # "health"
          BY <1>2 DEF APIKeyAuth
        <5> QED
          BY <2>1, <5>1, <2>2, RequestType DEF Op, CallInv
      <4> QED
        BY <2>1, <2>4, <4>1, <4>2, ApiAssumption DEF CallInv
    <3> QED
      BY <3>1, <3>2
  <2> QED
    BY <2>1, <2>2, <2>4, <2>5, OneCallMoves
<1>3. ASSUME NEW c \in Call, Fork(c) \/ Decode(c) PROVE ApiInv'
  <2>1. /\ UNCHANGED <<req, info, reply, dbFailed, rows>>
        /\ \A d \in Call \ {c} :
             pc'[d] = pc[d] /\ status'[d] = status[d] /\ result'[d] = result[d]
        /\ pc[c] \in {"fork", "decode"}
    BY <1>3 DEF Fork, Decode, Respond, Goto
  <2>2. CallInv(c) /\ ~Settled(c)
    BY <1>a, <2>1 DEF Settled
  <2>3. /\ reply[c] = {} /\ status[c] = 0
        /\ req[c].op = "simulate" /\ info[c] # NoInfo
    BY <2>1, <2>2 DEF CallInv
  <2>4. \/ /\ pc'[c] \in {"decode", "save"}
           /\ status'[c] = 0
        \/ /\ pc'[c] = "done"
           /\ status'[c] = 500
           /\ req[c].body \in {"garbled", "overlong"}
    BY <1>3, <2>3 DEF Fork, Decode, Respond, Goto
  <2>5. CallInv(c)'
    BY <2>1, <2>2, <2>3, <2>4 DEF CallInv
  <2> QED
    BY <2>1, <2>2, <2>3, <2>5, OneCallMoves
<1>4. ASSUME NEW c \in Call, Save(c) PROVE ApiInv'
  <2>1. /\ UNCHANGED <<req, info, result, status, reply>>
        /\ \A d \in Call \ {c} : pc'[d] = pc[d]
        /\ pc[c] = "save" /\ pc'[c] = "answer"
    BY <1>4 DEF Save, Goto
  <2>2. CallInv(c) /\ ~Settled(c)
    BY <1>a, <2>1 DEF Settled
  <2>3. reply[c] = {} /\ status[c] = 0
    BY <2>1, <2>2 DEF CallInv
  <2>4. rows' = rows \/ rows' = rows \cup {NewRow(c)'}
    BY <1>4, <2>1 DEF Save, Insert, NewRow
  <2>a. Saved(c)' \/ c \in dbFailed'
    <3>1. CASE Insert(c)
      <4>1. NewRow(c) \in rows' /\ NewRow(c).id = c
        BY <3>1 DEF Insert, NewRow
      <4> QED
        BY <4>1 DEF Saved
    <3>2. CASE QueryFails(c)
      BY <3>2 DEF QueryFails
    <3> QED
      BY <1>4, <3>1, <3>2 DEF Save
  <2>5. CallInv(c)'
    BY <2>1, <2>2, <2>3, <2>a DEF CallInv
  <2>6. Settled(c)' /\ dbFailed \subseteq dbFailed'
    BY <1>4, <2>1 DEF Settled, Save, Insert, QueryFails, QueryWorks
  <2> QED
    BY <2>1, <2>2, <2>3, <2>4, <2>5, <2>6, OneCallMoves
<1>5. ASSUME NEW c \in Call, Answer(c) PROVE ApiInv'
  <2>a. PICK full \in Result : full = result[c]
    OBVIOUS
  <2>b. PICK t \in BOOLEAN : t = (full.trace /\ req[c].includeTrace)
    BY RequestType DEF Result
  <2>c. PICK stripped : stripped = [full EXCEPT !.trace = t]
    OBVIOUS
  <2> DEFINE shown == [id |-> c, result |-> stripped]
  <2>1. /\ UNCHANGED <<req, info, result, dbFailed, rows>>
        /\ \A d \in Call \ {c} :
             pc'[d] = pc[d] /\ status'[d] = status[d] /\ reply'[d] = reply[d]
        /\ pc[c] = "answer" /\ pc'[c] = "done" /\ status'[c] = 200
        /\ reply'[c] = {shown}
    BY <1>5, <2>a, <2>b, <2>c DEF Answer, Respond, Goto, Show
  <2>2. CallInv(c) /\ Settled(c)'
    BY <1>a, <2>1 DEF Settled
  <2>3. req[c].op = "simulate"
    BY <2>1, <2>2 DEF CallInv
  <2>d. Saved(c)' \/ c \in dbFailed'
    BY <2>1, <2>2 DEF CallInv, Saved
  <2>4. CallInv(c)'
    BY <2>1, <2>2, <2>3, <2>d DEF CallInv
  <2>5. Agrees(c, shown)'
    <3>1. [stripped EXCEPT !.trace = full.trace] = full /\ stripped.trace = t
      BY <2>c, StrippedResult
    <3> QED
      BY <2>a, <2>b, <2>1, <2>3, <3>1 DEF Agrees
  <2>6. \A x \in reply'[c] : Agrees(c, x)' /\ Settled(x.id)'
    BY <2>1, <2>2, <2>5
  <2> QED
    BY <2>1, <2>2, <2>4, <2>6, OneCallMoves
<1>6. ASSUME NEW c \in Call, GetSimulation(c) \/ ListSimulations(c) PROVE ApiInv'
  <2>1. /\ UNCHANGED <<req, info, result, rows>>
        /\ \A d \in Call \ {c} :
             pc'[d] = pc[d] /\ status'[d] = status[d] /\ reply'[d] = reply[d]
        /\ pc[c] = "handle" /\ pc'[c] = "done" /\ status'[c] \in {200, 500}
        /\ req[c].op \in {"get", "list"} /\ dbFailed \subseteq dbFailed'
    BY <1>6 DEF GetSimulation, ListSimulations, Respond, Goto, Show, QueryFails,
                QueryWorks
  <2>2. CallInv(c) /\ ~Settled(c)
    BY <1>a, <2>1 DEF Settled
  <2>3. reply[c] = {}
    BY <2>1, <2>2 DEF CallInv
  <2>4. reply'[c] \subseteq ResultsOf(rows)
    <3>1. CASE GetSimulation(c)
      BY <2>3, <3>1 DEF GetSimulation, Show, ResultsOf, ById
    <3>2. CASE ListSimulations(c)
      BY <2>3, <3>2 DEF ListSimulations, Show, ResultsOf, ByAPIKey
    <3> QED
      BY <1>6, <3>1, <3>2
  <2>5. CallInv(c)'
    BY <2>1, <2>2 DEF CallInv
  <2>6. ASSUME NEW x \in reply'[c] PROVE Agrees(c, x)' /\ Settled(x.id)'
    <3>1. Agrees(c, x) /\ Settled(x.id) /\ x.id \in Call
      BY <2>1, <2>4, RowsAgree
    <3> QED
      BY <2>1, <3>1 DEF Agrees, Settled
  <2> QED
    BY <2>1, <2>2, <2>5, <2>6, OneCallMoves
<1>7. ASSUME UNCHANGED <<req, pc, info, result, status, reply, dbFailed, rows>>
      PROVE  ApiInv'
  BY <1>7 DEF ApiInv, CallInv, LeavesNothing, Saved, NewRow, Settled, Agrees
<1>8. ASSUME NEW c \in Call, HangUp(c) PROVE ApiInv'
  BY <1>7, <1>8 DEF HangUp
<1>9. ASSUME NEW k \in ApiKey, Revoke(k) PROVE ApiInv'
  BY <1>7, <1>9 DEF Revoke
<1>10. CASE Renew
  BY <1>7, <1>10 DEF Renew
<1>11. CASE UNCHANGED vars
  BY <1>7, <1>11 DEF vars
<1> QED
  BY <1>1, <1>2, <1>3, <1>4, <1>5, <1>6, <1>8, <1>9, <1>10, <1>11 DEF Next, Handle

\* The stations, the rows and the replies agree in every behaviour.
THEOREM ApiCorrect == Spec => []ApiInv
  BY ApiInvInit, ApiInvNext, PTL DEF Spec

\* A request that is refused has run no simulation and left no row (middleware.go,
\* api_key_middleware.go, plan_rate_limiter.go:102, simulation.go:38-57).
THEOREM NothingLeft == Spec => []RefusedLeavesNothing
<1>1. ApiInv => RefusedLeavesNothing
  BY DEF ApiInv, CallInv, RefusedLeavesNothing
<1> QED
  BY <1>1, ApiCorrect, PTL

\* Everyone who is shown a simulation is shown the same result (simulation.go:69-73).
THEOREM RepliesAreTheResult == Spec => []RepliesAgree
<1>1. ApiInv => RepliesAgree
  BY DEF ApiInv, RepliesAgree
<1> QED
  BY <1>1, ApiCorrect, PTL

\* No error of Postgres fails the caller of a simulation (usecase/simulation.go:90).
THEOREM CallersSurviveTheDatabase == Spec => []DBErrorNeverFailsCaller
<1>1. ApiInv => DBErrorNeverFailsCaller
  BY DEF ApiInv, CallInv, DBErrorNeverFailsCaller
<1> QED
  BY <1>1, ApiCorrect, PTL

\* The rows of a simulation that has been saved are one, and have its result.
LEMMA OneRowOfEach ==
  ASSUME ApiInv, NEW a \in Call, Saved(a)
  PROVE  ById(a) # {} /\ ResultsOf(ById(a)) = {[id |-> a, result |-> result[a]]}
<1>1. \A r \in ById(a) : r.id = a /\ r.result_json = result[a]
  BY DEF ApiInv, ById, NewRow
<1>2. ById(a) # {}
  BY DEF Saved, ById
<1> QED
  BY <1>1, <1>2 DEF ResultsOf

\* A simulation that has been answered can be read at once, as the caller got it
\* and with its trace (usecase/simulation.go:90-93, simulation_postgres.go:64-77).
THEOREM AnswersAreReadable == Spec => AnswerIsReadable
<1>1. ASSUME ApiInv, [Next]_vars, NEW a \in Call, NEW c \in Call,
             Answered(a), Asks(c, a), pc'[c] = "done", c \notin dbFailed'
      PROVE  Gets(c, a)'
  <2> USE DEF input, tables, limits, TypeOK, Answered, Asks, Gets
  <2>1. Saved(a) /\ TypeOK
    BY <1>1 DEF ApiInv, CallInv
  <2>2. ById(a) # {} /\ ResultsOf(ById(a)) = {[id |-> a, result |-> result[a]]}
    BY <1>1, <2>1, OneRowOfEach
  <2>3. GetSimulation(c)
    <3>1. ASSUME NEW d \in Call, Handle(d) PROVE GetSimulation(c)
      <4>1. d = c
        BY <1>1, <2>1, <3>1
        DEF Handle, CORS, RateLimiter, Health, APIKeyAuth, Refuse, PlanRateLimiter,
            Simulate, GetSimulation, ListSimulations, Fork, Decode, Save, Answer,
            Respond, Goto
      <4> QED
        BY <1>1, <3>1, <4>1
        DEF Handle, CORS, RateLimiter, Health, APIKeyAuth, PlanRateLimiter,
            Simulate, ListSimulations, Fork, Decode, Save, Answer
    <3>2. pc' # pc
      BY <1>1
    <3> QED
      BY <1>1, <3>1, <3>2 DEF Next, HangUp, Revoke, Renew, vars
  <2> QED
    BY <1>1, <2>1, <2>2, <2>3 DEF GetSimulation, QueryFails, Respond, Show
<1>2. ApiInv /\ [Next]_vars =>
        [\A a, c \in Call :
           Answered(a) /\ Asks(c, a) /\ pc'[c] = "done" =>
             c \in dbFailed' \/ Gets(c, a)']_vars
  BY <1>1
<1> QED
  BY <1>2, ApiCorrect, PTL DEF Spec, AnswerIsReadable

-----------------------------------------------------------------------------
(***************************************************************************)
(* The chain implements PlanQuota.                                         *)
(***************************************************************************)
\* A request whose key is valid is charged to the account of its owner and
\* plan, and to none only under "enterprise".
LEMMA AccountIsCharged ==
  ASSUME ApiInv, NEW c \in Call, info[c] # NoInfo
  PROVE  /\ info[c].plan = "enterprise" => Charged(c) = NoAccount
         /\ info[c].plan # "enterprise" =>
              /\ Charged(c) = AccountOf(c)
              /\ Charged(c) # NoAccount
              /\ Charged(c) \in Accounts
<1>1. /\ req[c].key \in ApiKey /\ req[c].key # NoKey
      /\ info[c] = InfoOf(req[c].key)
      /\ req[c].op \notin {"options", "health"}
  BY ApiAssumption DEF ApiInv, CallInv
<1> QED
  BY <1>1 DEF Charged, AccountOf, InfoOf, NoAccount, Accounts

\* The first state shows the first state of PlanQuota.
LEMMA QuotaInit == Init => Quotas!Init
  BY DEF Init, Quotas!Init, Verdict

\* The limiter is the only step that PlanQuota sees of a call.
LEMMA UnseenStep ==
  ASSUME ApiInv, ApiInv', req' = req, planLeft' = planLeft,
         \A d \in Call : Verdict(d)' = Verdict(d)
  PROVE  UNCHANGED Quotas!vars
  BY DEF Quotas!vars, Charged

\* Every step is a step of PlanQuota, or is not seen.
LEMMA QuotaNext == ApiInv /\ ApiInv' /\ [Next]_vars => [Quotas!Next]_(Quotas!vars)
<1> SUFFICES ASSUME ApiInv, ApiInv', [Next]_vars
             PROVE  Quotas!Next \/ UNCHANGED Quotas!vars
  OBVIOUS
<1>0. TypeOK /\ TypeOK'
  BY DEF ApiInv
<1>a. \A c \in Call : CallInv(c)
  BY DEF ApiInv
<1> USE <1>0 DEF TypeOK, input, tables, limits
<1>1. ASSUME NEW c \in Call, PlanRateLimiter(c)
      PROVE  Quotas!Bypass(c) \/ Quotas!Admit(c) \/ Quotas!Refuse(c)
  <2>1. /\ UNCHANGED <<req, info>>
        /\ \A d \in Call \ {c} : pc'[d] = pc[d] /\ status'[d] = status[d]
        /\ pc[c] = "plan" /\ info[c] # NoInfo /\ status[c] = 0
    BY <1>1, <1>a DEF PlanRateLimiter, Respond, Goto, CallInv
  <2>2. [d \in Call |-> Charged(d)]' = [d \in Call |-> Charged(d)]
    BY <2>1 DEF Charged
  <2>3. Verdict(c) = "pending"
    BY <2>1 DEF Verdict
  <2>4. \A v : Verdict(c)' = v =>
          [d \in Call |-> Verdict(d)]' =
            [[d \in Call |-> Verdict(d)] EXCEPT ![c] = v]
    <3>1. \A d \in Call \ {c} : Verdict(d)' = Verdict(d)
      BY <2>1 DEF Verdict
    <3> QED
      BY <3>1
  <2>5. CASE info[c].plan = "enterprise"
    <3>1. Verdict(c)' = "admitted" /\ planLeft' = planLeft
      BY <1>1, <2>1, <2>5 DEF PlanRateLimiter, Goto, Verdict
    <3>2. Charged(c) = NoAccount
      BY <2>1, <2>5, AccountIsCharged
    <3> QED
      BY <2>2, <2>3, <2>4, <3>1, <3>2 DEF Quotas!Bypass, Quotas!Decide
  <2>6. CASE info[c].plan # "enterprise" /\ planLeft[AccountOf(c)] = 0
    <3>1. Verdict(c)' = "refused" /\ planLeft' = planLeft
      BY <1>1, <2>1, <2>6 DEF PlanRateLimiter, Respond, Goto, Verdict
    <3>2. Charged(c) = AccountOf(c) /\ Charged(c) # NoAccount
      BY <2>1, <2>6, AccountIsCharged
    <3> QED
      BY <2>2, <2>3, <2>4, <2>6, <3>1, <3>2 DEF Quotas!Refuse, Quotas!Decide
  <2>7. CASE info[c].plan # "enterprise" /\ planLeft[AccountOf(c)] # 0
    <3>1. /\ Verdict(c)' = "admitted"
          /\ planLeft[AccountOf(c)] > 0
          /\ planLeft' = [planLeft EXCEPT ![AccountOf(c)] = @ - 1]
      BY <1>1, <2>1, <2>7 DEF PlanRateLimiter, Goto, Verdict
    <3>2. Charged(c) = AccountOf(c) /\ Charged(c) # NoAccount
      BY <2>1, <2>7, AccountIsCharged
    <3> QED
      BY <2>2, <2>3, <2>4, <3>1, <3>2 DEF Quotas!Admit, Quotas!Decide
  <2> QED
    BY <2>5, <2>6, <2>7
<1>2. ASSUME NEW c \in Call, CORS(c) \/ RateLimiter(c) \/ Health(c) \/ APIKeyAuth(c)
      PROVE  UNCHANGED Quotas!vars
  <2>1. /\ UNCHANGED <<req, planLeft>>
        /\ \A d \in Call \ {c} :
             pc'[d] = pc[d] /\ status'[d] = status[d] /\ info'[d] = info[d]
        /\ pc[c] \in {"cors", "ip", "auth"}
        /\ info'[c] = NoInfo \/ pc'[c] = "plan"
    BY <1>2, <1>a
    DEF CORS, RateLimiter, Health, APIKeyAuth, Refuse, Respond, Goto, CallInv
  <2>2. info[c] = NoInfo
    BY <1>a, <2>1 DEF CallInv
  <2>3. \A d \in Call : Verdict(d)' = Verdict(d)
    BY <2>1, <2>2 DEF Verdict
  <2> QED
    BY <2>1, <2>3, UnseenStep
<1>3. ASSUME NEW c \in Call,
             \/ Simulate(c) \/ GetSimulation(c) \/ ListSimulations(c)
             \/ Fork(c) \/ Decode(c) \/ Save(c) \/ Answer(c)
      PROVE  UNCHANGED Quotas!vars
  <2>1. /\ UNCHANGED <<req, info, planLeft>>
        /\ \A d \in Call \ {c} : pc'[d] = pc[d] /\ status'[d] = status[d]
        /\ pc[c] \in {"handle", "fork", "decode", "save", "answer"}
        /\ pc'[c] # "plan"
        /\ status'[c] = status[c] \/ status'[c] \in {200, 400, 422, 500}
    BY <1>3 DEF Simulate, GetSimulation, ListSimulations, Fork, Decode, Save,
                Answer, Respond, Goto
  <2>2. status[c] = 0
    BY <1>a, <2>1 DEF CallInv
  <2>3. \A d \in Call : Verdict(d)' = Verdict(d)
    BY <2>1, <2>2 DEF Verdict
  <2> QED
    BY <2>1, <2>3, UnseenStep
<1>4. ASSUME UNCHANGED <<req, pc, info, status, planLeft>>
      PROVE  UNCHANGED Quotas!vars
  BY <1>4, UnseenStep DEF Verdict
<1>5. ASSUME NEW c \in Call, HangUp(c) PROVE UNCHANGED Quotas!vars
  BY <1>4, <1>5 DEF HangUp
<1>6. ASSUME NEW k \in ApiKey, Revoke(k) PROVE UNCHANGED Quotas!vars
  BY <1>4, <1>6 DEF Revoke
<1>7. ASSUME Renew PROVE Quotas!Next \/ UNCHANGED Quotas!vars
  <2>1. /\ UNCHANGED <<req, pc, info, status>>
        /\ \/ planLeft' = planLeft
           \/ \E a \in Accounts : planLeft' = [planLeft EXCEPT ![a] = FullQuota[a]]
    BY <1>7 DEF Renew
  <2>2. CASE planLeft' = planLeft
    BY <1>4, <2>1, <2>2
  <2>3. ASSUME NEW a \in Accounts,
               planLeft' = [planLeft EXCEPT ![a] = FullQuota[a]]
        PROVE  Quotas!Renew(a)
    BY <2>1, <2>3 DEF Quotas!Renew, Charged, Verdict
  <2> QED
    BY <2>1, <2>2, <2>3 DEF Quotas!Next
<1>8. ASSUME UNCHANGED vars PROVE UNCHANGED Quotas!vars
  BY <1>4, <1>8 DEF vars
<1> QED
  BY <1>1, <1>2, <1>3, <1>5, <1>6, <1>7, <1>8 DEF Next, Handle, Quotas!Next

\* Seen from outside, the chain of handlers charges plans as PlanQuota says
\* (router.go:35-47, plan_rate_limiter.go:30-53).
THEOREM ChainImplementsQuota == Spec => PlansAreCharged
  BY QuotaInit, QuotaNext, ApiCorrect, PTL DEF Spec, Quotas!Spec, PlansAreCharged
=============================================================================
