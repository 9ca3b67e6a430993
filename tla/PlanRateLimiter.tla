-------------------------- MODULE PlanRateLimiter --------------------------
(***************************************************************************)
(* PlanRateLimiter and getPlanMiddleware                                   *)
(* (internal/controller/http/plan_rate_limiter.go): concurrent requests    *)
(* share planMiddlewares, a map from plan names to limiters that is filled *)
(* on first use under planMiddlewaresMu, a sync.RWMutex.                   *)
(*                                                                         *)
(* External, from how the code uses them: the RWMutex (a waiting writer    *)
(* keeps new readers out) and the memory store of ulule/limiter (one       *)
(* atomic counter per key, which starts again when its window is over).    *)
(***************************************************************************)
EXTENDS Integers, FiniteSets

CONSTANTS
  Request,    \* one goroutine each
  Caller,     \* [owner, plan, ip]: what APIKeyAuth found, and ClientIP()
  Plan,       \* names of plans that get a limiter
  Key,        \* owners and addresses
  NoOwner,    \* the empty OwnerID
  planLimits, \* the known plans and their requests per window
  Store       \* what memory.NewStore may return

NoMiddleware == [store |-> "none", limit |-> 0]

ASSUME PlanAssumption ==
  /\ "free" \in DOMAIN planLimits
  /\ DOMAIN planLimits \subseteq Plan
  /\ "enterprise" \notin Plan
  /\ \A p \in DOMAIN planLimits : planLimits[p] \in Nat

ASSUME CallerAssumption ==
  /\ \A u \in Caller : /\ u.plan \in Plan \cup {"", "enterprise"}
                       /\ u.owner \in Key \cup {NoOwner}
                       /\ u.ip \in Key

ASSUME StoreAssumption == "none" \notin Store

VARIABLES
  caller,           \* [Request -> Caller]
  pc,               \* [Request -> Step]
  mw,               \* [Request -> the middleware getPlanMiddleware returned]
  readers,          \* requests inside RLock
  writer,           \* the request that holds or awaits the write lock
  planMiddlewares,  \* [Plan -> middleware]
  count,            \* [Store -> [Key -> Nat]]: requests in this window
  verdict           \* [Request -> {"pending", "admitted", "refused"}]

vars == <<caller, pc, mw, readers, writer, planMiddlewares, count, verdict>>

Step == {"start", "lookup", "lock", "wait", "create", "count", "done"}

Middleware == [store : Store, limit : Nat]

\* Nobody holds or awaits the write lock.
NoWriter == {}

PlanOf(q) == IF caller[q].plan = "" THEN "free" ELSE caller[q].plan

\* The rate of a plan; unknown plans fall back to free.
Limit(p) == IF p \in DOMAIN planLimits THEN planLimits[p] ELSE planLimits["free"]

\* Bug: counts per address although the owner is known.
KeyIsAddress(q) == caller[q].ip

\* WithKeyGetter: X-Rate-Limit-Key, which the router sets to the OwnerID, or
\* the address where that is empty.
KeyOf(q) == IF caller[q].owner # NoOwner THEN caller[q].owner ELSE caller[q].ip

Goto(q, step) == pc' = [pc EXCEPT ![q] = step]

Decide(q, v) == verdict' = [verdict EXCEPT ![q] = v]

\* Enterprise: no limiter at all.
Bypass(q) ==
  /\ pc[q] = "start"
  /\ PlanOf(q) = "enterprise"
  /\ Goto(q, "done")
  /\ Decide(q, "admitted")
  /\ UNCHANGED <<caller, mw, readers, writer, planMiddlewares, count>>

RLock(q) ==
  /\ pc[q] = "start"
  /\ PlanOf(q) # "enterprise"
  /\ writer = NoWriter
  /\ readers' = readers \cup {q}
  /\ Goto(q, "lookup")
  /\ UNCHANGED <<caller, mw, writer, planMiddlewares, count, verdict>>

\* The read of the map and the RUnlock on both branches.
Lookup(q) ==
  /\ pc[q] = "lookup"
  /\ LET found == planMiddlewares[PlanOf(q)]
     IN  /\ mw' = [mw EXCEPT ![q] = found]
         /\ Goto(q, IF found # NoMiddleware THEN "count" ELSE "lock")
  /\ readers' = readers \ {q}
  /\ UNCHANGED <<caller, writer, planMiddlewares, count, verdict>>

\* Lock: first the other writers,
LockAnnounce(q) ==
  /\ pc[q] = "lock"
  /\ writer = NoWriter
  /\ writer' = {q}
  /\ Goto(q, "wait")
  /\ UNCHANGED <<caller, mw, readers, planMiddlewares, count, verdict>>

\* Bug: the write lock of another mutex than the readers'.
LockAcquireAtOnce(q) ==
  /\ pc[q] = "wait"
  /\ Goto(q, "create")
  /\ UNCHANGED <<caller, mw, readers, writer, planMiddlewares, count, verdict>>

\* then the readers that were there before.
LockAcquire(q) ==
  /\ pc[q] = "wait"
  /\ readers = {}
  /\ Goto(q, "create")
  /\ UNCHANGED <<caller, mw, readers, writer, planMiddlewares, count, verdict>>

\* memory.NewStore: a store nobody has yet.
Unused ==
  Store \ ({planMiddlewares[p].store : p \in Plan}
             \cup {mw[q].store : q \in Request})

\* Bug: no second look at the map under the write lock.
CreateUnchecked(q) ==
  /\ pc[q] = "create"
  /\ \E s \in Unused :
       LET new == [store |-> s, limit |-> Limit(PlanOf(q))]
       IN  /\ planMiddlewares' = [planMiddlewares EXCEPT ![PlanOf(q)] = new]
           /\ mw' = [mw EXCEPT ![q] = new]
  /\ writer' = NoWriter
  /\ Goto(q, "count")
  /\ UNCHANGED <<caller, readers, count, verdict>>

\* Bug: the early return of the second look leaves the lock held.
CreateKeepsLock(q) ==
  /\ pc[q] = "create"
  /\ LET found == planMiddlewares[PlanOf(q)]
     IN  \/ /\ found # NoMiddleware
            /\ mw' = [mw EXCEPT ![q] = found]
            /\ UNCHANGED <<planMiddlewares, writer>>
         \/ /\ found = NoMiddleware
            /\ \E s \in Unused :
                 LET new == [store |-> s, limit |-> Limit(PlanOf(q))]
                 IN  /\ planMiddlewares' =
                          [planMiddlewares EXCEPT ![PlanOf(q)] = new]
                     /\ mw' = [mw EXCEPT ![q] = new]
            /\ writer' = NoWriter
  /\ Goto(q, "count")
  /\ UNCHANGED <<caller, readers, count, verdict>>

\* The second look, the new store where there is still none, and the Unlock.
Create(q) ==
  /\ pc[q] = "create"
  /\ LET found == planMiddlewares[PlanOf(q)]
     IN  \/ /\ found # NoMiddleware
            /\ mw' = [mw EXCEPT ![q] = found]
            /\ UNCHANGED planMiddlewares
         \/ /\ found = NoMiddleware
            /\ \E s \in Unused :
                 LET new == [store |-> s, limit |-> Limit(PlanOf(q))]
                 IN  /\ planMiddlewares' =
                          [planMiddlewares EXCEPT ![PlanOf(q)] = new]
                     /\ mw' = [mw EXCEPT ![q] = new]
  /\ writer' = NoWriter
  /\ Goto(q, "count")
  /\ UNCHANGED <<caller, readers, count, verdict>>

\* mw(c): increment the key's counter, and compare what it has become.
Count(q) ==
  /\ pc[q] = "count"
  /\ LET s == mw[q].store
         n == count[s][KeyOf(q)] + 1
     IN  /\ count' = [count EXCEPT ![s][KeyOf(q)] = n]
         /\ Decide(q, IF n > mw[q].limit THEN "refused" ELSE "admitted")
  /\ Goto(q, "done")
  /\ UNCHANGED <<caller, mw, readers, writer, planMiddlewares>>

\* A minute after its first request a key's window is over.
WindowEnds(s, k) ==
  /\ count[s][k] > 0
  /\ count' = [count EXCEPT ![s][k] = 0]
  /\ UNCHANGED <<caller, pc, mw, readers, writer, planMiddlewares, verdict>>

Init ==
  /\ caller \in [Request -> Caller]
  /\ pc = [q \in Request |-> "start"]
  /\ mw = [q \in Request |-> NoMiddleware]
  /\ readers = {}
  /\ writer = NoWriter
  /\ planMiddlewares = [p \in Plan |-> NoMiddleware]
  /\ count = [s \in Store |-> [k \in Key |-> 0]]
  /\ verdict = [q \in Request |-> "pending"]

Handle(q) ==
  \/ Bypass(q) \/ RLock(q) \/ Lookup(q)
  \/ LockAnnounce(q) \/ LockAcquire(q) \/ Create(q)
  \/ Count(q)

Next ==
  \/ \E q \in Request : Handle(q)
  \/ \E s \in Store, k \in Key : WindowEnds(s, k)

Spec == Init /\ [][Next]_vars

\* Every goroutine that can run is scheduled; no window need ever end.
FairSpec == Spec /\ \A q \in Request : WF_vars(Handle(q))

-----------------------------------------------------------------------------
\* Every variable keeps its type.
TypeOK ==
  /\ caller \in [Request -> Caller]
  /\ pc \in [Request -> Step]
  /\ mw \in [Request -> Middleware \cup {NoMiddleware}]
  /\ readers \subseteq Request
  /\ writer \subseteq Request
  /\ planMiddlewares \in [Plan -> Middleware \cup {NoMiddleware}]
  /\ count \in [Store -> [Key -> Nat]]
  /\ verdict \in [Request -> {"pending", "admitted", "refused"}]

\* The Go map is never written while somebody reads or writes it, which would
\* stop the process (plan_rate_limiter.go:59-67).
Reading(q) == pc[q] = "lookup"
Writing(q) == pc[q] = "create"
MapExclusive ==
  \A q, r \in Request : Writing(q) /\ (Reading(r) \/ Writing(r)) => q = r

\* All requests of a plan are counted in the one store the map shows for it,
\* and different plans in different stores: "creating once" (line 55).
OneStorePerPlan ==
  /\ \A q \in Request : pc[q] = "count" => mw[q] = planMiddlewares[PlanOf(q)]
  /\ \A p, r \in Plan :
       /\ planMiddlewares[p] # NoMiddleware
       /\ planMiddlewares[p].store = planMiddlewares[r].store
       => p = r

(***************************************************************************)
(* The inductive invariant behind the three properties: who is inside the  *)
(* lock, what the map may hold, and that a store nobody has reached yet    *)
(* has counted nothing.                                                    *)
(***************************************************************************)
LockInv ==
  /\ readers = {q \in Request : pc[q] = "lookup"}
  /\ writer = {q \in Request : pc[q] \in {"wait", "create"}}
  /\ \A q, r \in writer : q = r
  /\ \A q \in Request : pc[q] = "create" => readers = {}

MapInv ==
  /\ \A q \in Request : pc[q] \notin {"start", "done"} => PlanOf(q) \in Plan
  /\ \A q \in Request : pc[q] = "count" => mw[q] # NoMiddleware
  /\ \A p \in Plan : planMiddlewares[p] # NoMiddleware =>
                       planMiddlewares[p].limit = Limit(p)
  /\ OneStorePerPlan

CountInv ==
  /\ \A s \in Store : (\A p \in Plan : planMiddlewares[p].store # s) =>
                        count[s] = [k \in Key |-> 0]
  /\ \A q \in Request : verdict[q] = "pending" <=> pc[q] # "done"

LimiterInv == TypeOK /\ LockInv /\ MapInv /\ CountInv

(***************************************************************************)
(* The limiter implements the quota: requests that arrive together while   *)
(* the map is being filled, plans without a limit of their own and callers *)
(* without a name included.                                                *)
(***************************************************************************)
Account == Plan \X Key
NoAccount == <<"enterprise", "unlimited">>

PlanQuotaOf(a) ==
  planLimits[IF a[1] \in DOMAIN planLimits THEN a[1] ELSE "free"]

AccountOf(u) ==
  IF u.plan = "enterprise" THEN NoAccount
  ELSE <<IF u.plan = "" THEN "free" ELSE u.plan,
         IF u.owner = NoOwner THEN u.ip ELSE u.owner>>

QuotaLeft(a) ==
  LET m    == planMiddlewares[a[1]]
      used == IF m = NoMiddleware THEN 0 ELSE count[m.store][a[2]]
  IN  IF used > PlanQuotaOf(a) THEN 0 ELSE PlanQuotaOf(a) - used

Quota == INSTANCE PlanQuota WITH
  Unlimited <- NoAccount,
  Quota     <- [a \in Account |-> PlanQuotaOf(a)],
  account   <- [q \in Request |-> AccountOf(caller[q])],
  left      <- [a \in Account |-> QuotaLeft(a)]

\* At every moment a request gets the answer the quota of its account calls
\* for, whatever else is in flight (plan_rate_limiter.go:30-112).
QuotaIsKept == Quota!Spec

\* Every request is let through or refused in the end: nobody waits for ever
\* for planMiddlewaresMu.
EveryRequestDecided == \A q \in Request : <>(verdict[q] # "pending")
=============================================================================
