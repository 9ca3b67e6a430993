----------------------- MODULE PlanRateLimiterProofs -----------------------
(***************************************************************************)
(* Theorems about PlanRateLimiter for every set of requests, callers,      *)
(* plans, keys and stores, and every table of limits.                      *)
(***************************************************************************)
EXTENDS PlanRateLimiter, TLAPS

\* Every limit is a number, and no store is the absent one's.
LEMMA LimitType == ASSUME NEW p PROVE Limit(p) \in Nat
  BY PlanAssumption DEF Limit

\* The absent middleware is none that getPlanMiddleware makes.
LEMMA NoMiddlewareIsNone ==
  ASSUME NEW m \in Middleware
  PROVE  /\ m # NoMiddleware
         /\ m.store \in Store
         /\ m.store # NoMiddleware.store
         /\ m.limit \in Nat
  BY StoreAssumption DEF Middleware, NoMiddleware

\* What CallerAssumption says of the caller of one request.
LEMMA CallerType ==
  ASSUME TypeOK, NEW q \in Request
  PROVE  /\ KeyOf(q) \in Key
         /\ PlanOf(q) # "enterprise" => PlanOf(q) \in Plan
         /\ PlanOf(q) = "enterprise" <=> caller[q].plan = "enterprise"
  BY CallerAssumption, PlanAssumption DEF TypeOK, KeyOf, PlanOf

\* What a step may change, action by action.
LEMMA Steps ==
  ASSUME [Next]_vars
  PROVE  \/ \E q \in Request :
              \/ Bypass(q) \/ RLock(q) \/ Lookup(q) \/ LockAnnounce(q)
              \/ LockAcquire(q) \/ Create(q) \/ Count(q)
         \/ \E s \in Store, k \in Key : WindowEnds(s, k)
         \/ UNCHANGED vars
  BY DEF Next, Handle

\* Create either finds a middleware or makes a new one in an unused store.
LEMMA CreateEffect ==
  ASSUME TypeOK, MapInv, NEW q \in Request, Create(q)
  PROVE  LET p == PlanOf(q)
         IN  /\ p \in Plan
             /\ \/ /\ planMiddlewares[p] # NoMiddleware
                   /\ planMiddlewares' = planMiddlewares
                \/ /\ planMiddlewares[p] = NoMiddleware
                   /\ \E s \in Unused :
                        planMiddlewares' = [planMiddlewares EXCEPT ![p] =
                                             [store |-> s, limit |-> Limit(p)]]
             /\ mw' = [mw EXCEPT ![q] = planMiddlewares'[p]]
             /\ planMiddlewares'[p] \in Middleware
<1>1. PlanOf(q) \in Plan
  BY DEF Create, MapInv
<1>2. CASE planMiddlewares[PlanOf(q)] # NoMiddleware
  BY <1>1, <1>2 DEF Create, TypeOK
<1>3. CASE planMiddlewares[PlanOf(q)] = NoMiddleware
  <2>1. PICK s \in Unused :
          /\ planMiddlewares' = [planMiddlewares EXCEPT ![PlanOf(q)] =
                                  [store |-> s, limit |-> Limit(PlanOf(q))]]
          /\ mw' = [mw EXCEPT ![q] = [store |-> s, limit |-> Limit(PlanOf(q))]]
    BY <1>3 DEF Create
  <2>2. [store |-> s, limit |-> Limit(PlanOf(q))] \in Middleware
    BY LimitType DEF Unused, Middleware
  <2>3. planMiddlewares'[PlanOf(q)] = [store |-> s, limit |-> Limit(PlanOf(q))]
    BY <1>1, <2>1 DEF TypeOK
  <2> QED
    BY <1>1, <1>3, <2>1, <2>2, <2>3
<1> QED
  BY <1>2, <1>3

-----------------------------------------------------------------------------
(***************************************************************************)
(* Types.                                                                  *)
(***************************************************************************)
\* The first state has the types.
LEMMA TypeInit == Init => TypeOK
  BY DEF Init, TypeOK, Step, NoWriter

\* Every step keeps them; Count needs to know that there is a store.
LEMMA TypeNext == TypeOK /\ MapInv /\ [Next]_vars => TypeOK'
<1> SUFFICES ASSUME TypeOK, MapInv, [Next]_vars PROVE TypeOK'
  OBVIOUS
<1>1. ASSUME NEW q \in Request, Bypass(q) PROVE TypeOK'
  BY <1>1 DEF Bypass, Goto, Decide, TypeOK, Step
<1>2. ASSUME NEW q \in Request, RLock(q) PROVE TypeOK'
  BY <1>2 DEF RLock, Goto, TypeOK, Step
<1>3. ASSUME NEW q \in Request, Lookup(q) PROVE TypeOK'
  <2>1. PlanOf(q) \in Plan
    BY <1>3 DEF Lookup, MapInv
  <2> QED
    BY <1>3, <2>1 DEF Lookup, Goto, TypeOK, Step
<1>4. ASSUME NEW q \in Request, LockAnnounce(q) \/ LockAcquire(q) PROVE TypeOK'
  BY <1>4 DEF LockAnnounce, LockAcquire, Goto, TypeOK, Step
<1>5. ASSUME NEW q \in Request, Create(q) PROVE TypeOK'
  <2>1. /\ mw' \in [Request -> Middleware \cup {NoMiddleware}]
        /\ planMiddlewares' \in [Plan -> Middleware \cup {NoMiddleware}]
    BY <1>5, CreateEffect DEF TypeOK
  <2> QED
    BY <1>5, <2>1 DEF Create, Goto, TypeOK, Step, NoWriter
<1>6. ASSUME NEW q \in Request, Count(q) PROVE TypeOK'
  <2>1. mw[q] \in Middleware /\ KeyOf(q) \in Key
    BY <1>6, CallerType DEF Count, MapInv, TypeOK
  <2>2. mw[q].store \in Store
    BY <2>1, NoMiddlewareIsNone
  <2>3. count' = [count EXCEPT ![mw[q].store] =
                    [@ EXCEPT ![KeyOf(q)] = count[mw[q].store][KeyOf(q)] + 1]]
    BY <1>6 DEF Count
  <2>4. count[mw[q].store] \in [Key -> Nat]
    BY <2>2 DEF TypeOK
  <2>5. [count[mw[q].store] EXCEPT ![KeyOf(q)] =
          count[mw[q].store][KeyOf(q)] + 1] \in [Key -> Nat]
    BY <2>1, <2>4
  <2>6. count' \in [Store -> [Key -> Nat]]
    BY <2>2, <2>3, <2>5 DEF TypeOK
  <2> QED
    BY <1>6, <2>6 DEF Count, Goto, Decide, TypeOK, Step
<1>7. ASSUME NEW s \in Store, NEW k \in Key, WindowEnds(s, k) PROVE TypeOK'
  BY <1>7 DEF WindowEnds, TypeOK
<1>8. CASE UNCHANGED vars
  BY <1>8 DEF vars, TypeOK
<1> QED
  BY <1>1, <1>2, <1>3, <1>4, <1>5, <1>6, <1>7, <1>8, Steps

-----------------------------------------------------------------------------
(***************************************************************************)
(* The lock.                                                               *)
(***************************************************************************)
\* At first nobody is inside the lock.
LEMMA LockInit == Init => LockInv
  BY DEF Init, LockInv, NoWriter

\* Every step keeps the books of the RWMutex (plan_rate_limiter.go:59-67).
LEMMA LockNext == TypeOK /\ LockInv /\ [Next]_vars => LockInv'
<1> SUFFICES ASSUME TypeOK, LockInv, [Next]_vars PROVE LockInv'
  OBVIOUS
<1> USE DEF TypeOK, LockInv, Goto, NoWriter
<1>1. ASSUME NEW q \in Request, Bypass(q) PROVE LockInv'
  BY <1>1 DEF Bypass
<1>2. ASSUME NEW q \in Request, RLock(q) PROVE LockInv'
  BY <1>2 DEF RLock
<1>3. ASSUME NEW q \in Request, Lookup(q) PROVE LockInv'
  BY <1>3 DEF Lookup
<1>4. ASSUME NEW q \in Request, LockAnnounce(q) PROVE LockInv'
  BY <1>4 DEF LockAnnounce
<1>5. ASSUME NEW q \in Request, LockAcquire(q) PROVE LockInv'
  BY <1>5 DEF LockAcquire
<1>6. ASSUME NEW q \in Request, Create(q) PROVE LockInv'
  BY <1>6 DEF Create
<1>7. ASSUME NEW q \in Request, Count(q) PROVE LockInv'
  BY <1>7 DEF Count
<1>8. ASSUME NEW s \in Store, NEW k \in Key, WindowEnds(s, k) PROVE LockInv'
  BY <1>8 DEF WindowEnds
<1>9. CASE UNCHANGED vars
  BY <1>9 DEF vars
<1> QED
  BY <1>1, <1>2, <1>3, <1>4, <1>5, <1>6, <1>7, <1>8, <1>9, Steps

-----------------------------------------------------------------------------
(***************************************************************************)
(* The map: one store for each plan.                                       *)
(***************************************************************************)
\* The map is empty at first.
LEMMA MapInit == Init => MapInv
  BY DEF Init, MapInv, OneStorePerPlan

\* Steps that leave the map alone keep its invariant when they keep it for the
\* request that moves.
LEMMA MapKept ==
  ASSUME MapInv, NEW q \in Request,
         caller' = caller, planMiddlewares' = planMiddlewares,
         \A r \in Request \ {q} : pc'[r] = pc[r] /\ mw'[r] = mw[r],
         pc'[q] \notin {"start", "done"} => PlanOf(q) \in Plan,
         pc'[q] = "count" => /\ mw'[q] # NoMiddleware
                             /\ mw'[q] = planMiddlewares[PlanOf(q)]
  PROVE  MapInv'
<1>1. \A r \in Request : PlanOf(r)' = PlanOf(r)
  BY DEF PlanOf
<1>2. ASSUME NEW r \in Request
      PROVE  /\ pc'[r] \notin {"start", "done"} => PlanOf(r)' \in Plan
             /\ pc'[r] = "count" => /\ mw'[r] # NoMiddleware
                                    /\ mw'[r] = planMiddlewares'[PlanOf(r)']
  BY <1>1 DEF MapInv, OneStorePerPlan
<1>3. \A p \in Plan : planMiddlewares'[p] # NoMiddleware =>
                        planMiddlewares'[p].limit = Limit(p)
  BY DEF MapInv
<1> QED
  BY <1>2, <1>3 DEF MapInv, OneStorePerPlan

\* Every step keeps the map to one store for each plan.
LEMMA MapNext == TypeOK /\ LockInv /\ MapInv /\ [Next]_vars => MapInv'
<1> SUFFICES ASSUME TypeOK, LockInv, MapInv, [Next]_vars PROVE MapInv'
  OBVIOUS
<1>1. ASSUME NEW q \in Request, Bypass(q) PROVE MapInv'
  BY <1>1, MapKept DEF Bypass, Goto, TypeOK
<1>2. ASSUME NEW q \in Request, RLock(q) PROVE MapInv'
  BY <1>2, MapKept, CallerType DEF RLock, Goto, TypeOK
<1>3. ASSUME NEW q \in Request, Lookup(q) PROVE MapInv'
  BY <1>3, MapKept DEF Lookup, Goto, TypeOK, MapInv
<1>4. ASSUME NEW q \in Request, LockAnnounce(q) \/ LockAcquire(q) PROVE MapInv'
  BY <1>4, MapKept DEF LockAnnounce, LockAcquire, Goto, TypeOK, MapInv
<1>5. ASSUME NEW q \in Request, Create(q) PROVE MapInv'
  <2> DEFINE p == PlanOf(q)
  <2>1. /\ p \in Plan
        /\ mw' = [mw EXCEPT ![q] = planMiddlewares'[p]]
        /\ planMiddlewares'[p] # NoMiddleware
    BY <1>5, CreateEffect, NoMiddlewareIsNone
  <2>2. caller' = caller /\ pc' = [pc EXCEPT ![q] = "count"]
    BY <1>5 DEF Create, Goto
  <2>3. CASE planMiddlewares' = planMiddlewares
    BY <2>1, <2>2, <2>3, MapKept DEF TypeOK
  <2>4. CASE /\ planMiddlewares[p] = NoMiddleware
             /\ \E s \in Unused : planMiddlewares' =
                  [planMiddlewares EXCEPT ![p] = [store |-> s, limit |-> Limit(p)]]
    <3>1. PICK s \in Unused : planMiddlewares' =
            [planMiddlewares EXCEPT ![p] = [store |-> s, limit |-> Limit(p)]]
      BY <2>4
    <3>2. \A r \in Request : PlanOf(r)' = PlanOf(r)
      BY <2>2 DEF PlanOf
    <3>3. \A o \in Plan : planMiddlewares'[o] =
            IF o = p THEN [store |-> s, limit |-> Limit(p)] ELSE planMiddlewares[o]
      BY <3>1 DEF TypeOK
    <3>4. \A o \in Plan : planMiddlewares[o].store # s
      BY DEF Unused
    <3>5. \A o \in Plan : planMiddlewares'[o] # NoMiddleware =>
                            planMiddlewares'[o].limit = Limit(o)
      BY <3>3 DEF MapInv
    <3>6. ASSUME NEW o \in Plan, NEW r \in Plan,
                 planMiddlewares'[o] # NoMiddleware,
                 planMiddlewares'[o].store = planMiddlewares'[r].store
          PROVE  o = r
      BY <3>3, <3>4, <3>6 DEF MapInv, OneStorePerPlan
    <3>7. ASSUME NEW r \in Request, pc'[r] \notin {"start", "done"}
          PROVE  PlanOf(r)' \in Plan
      BY <2>1, <2>2, <3>2, <3>7 DEF MapInv, TypeOK
    <3>8. ASSUME NEW r \in Request, pc'[r] = "count"
          PROVE  /\ mw'[r] # NoMiddleware
                 /\ mw'[r] = planMiddlewares'[PlanOf(r)']
      <4>1. CASE r = q
        BY <2>1, <3>2, <4>1 DEF TypeOK
      <4>2. CASE r # q
        <5>1. /\ mw'[r] = mw[r] /\ pc[r] = "count"
          BY <2>1, <2>2, <3>8, <4>2 DEF TypeOK
        <5>2. /\ mw[r] # NoMiddleware
              /\ mw[r] = planMiddlewares[PlanOf(r)]
              /\ PlanOf(r) \in Plan
          BY <5>1 DEF MapInv, OneStorePerPlan
        <5>3. PlanOf(r) # p
          BY <2>4, <5>2
        <5> QED
          BY <3>2, <3>3, <5>1, <5>2, <5>3
      <4> QED
        BY <4>1, <4>2
    <3> QED
      BY <3>5, <3>6, <3>7, <3>8 DEF MapInv, OneStorePerPlan
  <2> QED
    BY <1>5, <2>3, <2>4, CreateEffect
<1>6. ASSUME NEW q \in Request, Count(q) PROVE MapInv'
  BY <1>6, MapKept DEF Count, Goto, TypeOK
<1>7. ASSUME NEW s \in Store, NEW k \in Key, WindowEnds(s, k) PROVE MapInv'
  BY <1>7 DEF WindowEnds, MapInv, OneStorePerPlan, PlanOf
<1>8. CASE UNCHANGED vars
  BY <1>8 DEF vars, MapInv, OneStorePerPlan, PlanOf
<1> QED
  BY <1>1, <1>2, <1>3, <1>4, <1>5, <1>6, <1>7, <1>8, Steps

-----------------------------------------------------------------------------
(***************************************************************************)
(* The counters.                                                           *)
(***************************************************************************)
\* Nothing is counted and nobody has a verdict at first.
LEMMA CountInit == Init => CountInv
  BY DEF Init, CountInv

\* Every step leaves the stores that no plan has yet at zero.
LEMMA CountNext ==
  TypeOK /\ MapInv /\ CountInv /\ [Next]_vars => CountInv'
<1> SUFFICES ASSUME TypeOK, MapInv, CountInv, [Next]_vars PROVE CountInv'
  OBVIOUS
<1>1. ASSUME NEW q \in Request, Bypass(q) PROVE CountInv'
  BY <1>1 DEF Bypass, Goto, Decide, TypeOK, CountInv
<1>2. ASSUME NEW q \in Request,
             RLock(q) \/ Lookup(q) \/ LockAnnounce(q) \/ LockAcquire(q)
      PROVE  CountInv'
  BY <1>2 DEF RLock, Lookup, LockAnnounce, LockAcquire, Goto, TypeOK, CountInv
<1>3. ASSUME NEW q \in Request, Create(q) PROVE CountInv'
  <2>1. \A s \in Store : (\A p \in Plan : planMiddlewares'[p].store # s) =>
                           (\A p \in Plan : planMiddlewares[p].store # s)
    BY <1>3, CreateEffect, StoreAssumption DEF TypeOK, NoMiddleware
  <2> QED
    BY <1>3, <2>1 DEF Create, Goto, TypeOK, CountInv
<1>4. ASSUME NEW q \in Request, Count(q) PROVE CountInv'
  <2>1. /\ PlanOf(q) \in Plan
        /\ mw[q].store = planMiddlewares[PlanOf(q)].store
    BY <1>4 DEF Count, MapInv, OneStorePerPlan
  <2>2. \A s \in Store : s # mw[q].store => count'[s] = count[s]
    BY <1>4 DEF Count, TypeOK
  <2>3. planMiddlewares' = planMiddlewares
    BY <1>4 DEF Count
  <2>4. \A r \in Request : verdict'[r] = "pending" <=> pc'[r] # "done"
    BY <1>4 DEF Count, Goto, Decide, TypeOK, CountInv
  <2> QED
    BY <2>1, <2>2, <2>3, <2>4 DEF CountInv
<1>5. ASSUME NEW s \in Store, NEW k \in Key, WindowEnds(s, k) PROVE CountInv'
  <2>1. \E p \in Plan : planMiddlewares[p].store = s
    <3>1. CASE \A p \in Plan : planMiddlewares[p].store # s
      BY <1>5, <3>1 DEF WindowEnds, CountInv
    <3> QED
      BY <3>1
  <2>2. \A r \in Store : r # s => count'[r] = count[r]
    BY <1>5 DEF WindowEnds, TypeOK
  <2> QED
    BY <1>5, <2>1, <2>2 DEF WindowEnds, CountInv
<1>6. CASE UNCHANGED vars
  BY <1>6 DEF vars, CountInv
<1> QED
  BY <1>1, <1>2, <1>3, <1>4, <1>5, <1>6, Steps

-----------------------------------------------------------------------------
\* Lock, map and counters are consistent in every reachable state
\* (plan_rate_limiter.go:58-112).
THEOREM LimiterCorrect == Spec => []LimiterInv
<1>1. Init => LimiterInv
  BY TypeInit, LockInit, MapInit, CountInit DEF LimiterInv
<1>2. LimiterInv /\ [Next]_vars => LimiterInv'
  BY TypeNext, LockNext, MapNext, CountNext DEF LimiterInv
<1> QED
  BY <1>1, <1>2, PTL DEF Spec

\* No request reads or writes the map while another one writes it
\* (plan_rate_limiter.go:59-67).
THEOREM MapIsExclusive == Spec => []MapExclusive
<1>1. LimiterInv => MapExclusive
  BY DEF LimiterInv, LockInv, MapExclusive, Reading, Writing
<1> QED
  BY <1>1, LimiterCorrect, PTL

\* However many requests find the map empty, a plan has one store
\* (plan_rate_limiter.go:69-72).
THEOREM PlansHaveOneStore == Spec => []OneStorePerPlan
<1>1. LimiterInv => OneStorePerPlan
  BY DEF LimiterInv, MapInv
<1> QED
  BY <1>1, LimiterCorrect, PTL

-----------------------------------------------------------------------------
(***************************************************************************)
(* The limiter implements PlanQuota.                                       *)
(***************************************************************************)
\* The quota of an account is a number.
LEMMA QuotaType ==
  ASSUME NEW a \in Account
  PROVE  /\ PlanQuotaOf(a) \in Nat
         /\ a[1] \in Plan /\ a[2] \in Key /\ a = <<a[1], a[2]>>
         /\ PlanQuotaOf(a) = Limit(a[1])
  BY PlanAssumption DEF PlanQuotaOf, Account, Limit

\* A caller with a limiter has an account, under the key of the limiter.
LEMMA AccountType ==
  ASSUME TypeOK, NEW q \in Request
  PROVE  /\ PlanOf(q) = "enterprise" => AccountOf(caller[q]) = NoAccount
         /\ PlanOf(q) # "enterprise" =>
              /\ AccountOf(caller[q]) = <<PlanOf(q), KeyOf(q)>>
              /\ AccountOf(caller[q]) \in Account
              /\ AccountOf(caller[q]) # NoAccount
<1>1. CASE PlanOf(q) = "enterprise"
  BY <1>1, CallerType DEF AccountOf
<1>2. CASE PlanOf(q) # "enterprise"
  <2>1. AccountOf(caller[q]) = <<PlanOf(q), KeyOf(q)>>
    BY <1>2, CallerType DEF AccountOf, PlanOf, KeyOf
  <2>2. PlanOf(q) \in Plan /\ KeyOf(q) \in Key
    BY <1>2, CallerType
  <2> QED
    BY <1>2, <2>1, <2>2 DEF Account, NoAccount
<1> QED
  BY <1>1, <1>2

\* Steps that leave the map, the counters, the callers and the verdicts alone
\* are not seen.
LEMMA Unseen ==
  ASSUME UNCHANGED <<caller, planMiddlewares, count, verdict>>
  PROVE  UNCHANGED Quota!vars
<1>1. \A a \in Account : QuotaLeft(a)' = QuotaLeft(a)
  BY DEF QuotaLeft, PlanQuotaOf
<1>2. \A q \in Request : AccountOf(caller[q])' = AccountOf(caller[q])
  BY DEF AccountOf
<1> QED
  BY <1>1, <1>2 DEF Quota!vars

\* The first state shows the first state of PlanQuota.
LEMMA QuotaInit == Init => Quota!Init
<1> SUFFICES ASSUME Init PROVE Quota!Init
  OBVIOUS
<1>1. \A a \in Account : QuotaLeft(a) = PlanQuotaOf(a)
  <2>1. TAKE a \in Account
  <2>2. planMiddlewares[a[1]] = NoMiddleware
    BY QuotaType DEF Init
  <2> QED
    BY <2>2, QuotaType DEF QuotaLeft
<1> QED
  BY <1>1 DEF Init, Quota!Init

\* Filling the map changes no quota: the new store has counted nothing.
LEMMA CreateUnseen ==
  ASSUME LimiterInv, NEW q \in Request, Create(q)
  PROVE  UNCHANGED Quota!vars
<1>1. TypeOK /\ MapInv /\ CountInv
  BY DEF LimiterInv
<1>2. count' = count /\ caller' = caller /\ verdict' = verdict
  BY DEF Create
<1>3. ASSUME NEW a \in Account PROVE QuotaLeft(a)' = QuotaLeft(a)
  <2> DEFINE p == a[1]
             k == a[2]
  <2>1. p \in Plan /\ k \in Key /\ PlanQuotaOf(a) \in Nat
    BY QuotaType
  <2>2. CASE planMiddlewares'[p] = planMiddlewares[p]
    BY <1>2, <2>2 DEF QuotaLeft, PlanQuotaOf
  <2>3. CASE planMiddlewares'[p] # planMiddlewares[p]
    <3>1. PICK s \in Unused :
            /\ planMiddlewares[p] = NoMiddleware
            /\ planMiddlewares'[p] = [store |-> s, limit |-> Limit(p)]
      BY <1>1, <2>1, <2>3, CreateEffect DEF TypeOK
    <3>2. s \in Store /\ \A o \in Plan : planMiddlewares[o].store # s
      BY DEF Unused
    <3>3. count[s][k] = 0
      BY <1>1, <2>1, <3>2 DEF CountInv
    <3>4. planMiddlewares'[p] # NoMiddleware /\ planMiddlewares'[p].store = s
      BY <3>1, <3>2, StoreAssumption DEF NoMiddleware
    <3> QED
      BY <1>2, <3>1, <3>3, <3>4 DEF QuotaLeft, PlanQuotaOf
  <2> QED
    BY <2>2, <2>3
<1>4. \A r \in Request : AccountOf(caller[r])' = AccountOf(caller[r])
  BY <1>2 DEF AccountOf
<1> QED
  BY <1>2, <1>3, <1>4 DEF Quota!vars

\* What counting a request does to the quotas.
LEMMA CountSeen ==
  ASSUME LimiterInv, NEW q \in Request, Count(q)
  PROVE  Quota!Admit(q) \/ Quota!Refuse(q)
<1>1. TypeOK /\ MapInv /\ CountInv
  BY DEF LimiterInv
<1>2. pc[q] = "count" /\ PlanOf(q) \in Plan /\ KeyOf(q) \in Key
  BY <1>1, CallerType DEF Count, MapInv
<1>p. PICK p \in Plan : p = PlanOf(q)
  BY <1>2
<1>k. PICK k \in Key : k = KeyOf(q)
  BY <1>2
<1>s. PICK s : s = mw[q].store
  OBVIOUS
<1> DEFINE b == <<p, k>>
<1> USE <1>p, <1>k, <1>s
<1>3. /\ mw[q] = planMiddlewares[p]
      /\ mw[q] # NoMiddleware
      /\ mw[q] \in Middleware
      /\ mw[q].limit = Limit(p)
  BY <1>1, <1>2 DEF MapInv, OneStorePerPlan, TypeOK
<1>4. s \in Store /\ count[s][k] \in Nat
  BY <1>1, <1>2, <1>3, NoMiddlewareIsNone DEF TypeOK
<1>5. \A t \in Store, j \in Key :
        count'[t][j] = IF t = s /\ j = k THEN count[s][k] + 1 ELSE count[t][j]
  BY <1>1, <1>2, <1>4 DEF Count, TypeOK
<1>6. b \in Account /\ AccountOf(caller[q]) = b /\ b # NoAccount
  BY <1>1, <1>2, AccountType, PlanAssumption
<1>7. PlanQuotaOf(b) = Limit(p) /\ Limit(p) \in Nat
  BY <1>6, QuotaType, LimitType
<1>8. planMiddlewares' = planMiddlewares /\ caller' = caller
  BY DEF Count
<1>9. ASSUME NEW a \in Account, a # b PROVE QuotaLeft(a)' = QuotaLeft(a)
  <2>1. a[1] \in Plan /\ a[2] \in Key /\ (a[1] # p \/ a[2] # k)
    BY <1>9, QuotaType
  <2>2. CASE planMiddlewares[a[1]] = NoMiddleware
    BY <1>8, <2>2 DEF QuotaLeft, PlanQuotaOf
  <2>3. CASE planMiddlewares[a[1]] # NoMiddleware
    <3> DEFINE t == planMiddlewares[a[1]].store
    <3>1. t \in Store
      BY <1>1, <2>1, <2>3, NoMiddlewareIsNone DEF TypeOK
    <3>2. t = s => a[1] = p
      BY <1>1, <1>2, <1>3, <2>1, <2>3 DEF MapInv, OneStorePerPlan
    <3>3. count'[t][a[2]] = count[t][a[2]]
      BY <1>5, <2>1, <3>1, <3>2
    <3> QED
      BY <1>8, <2>3, <3>3 DEF QuotaLeft, PlanQuotaOf
  <2> QED
    BY <2>2, <2>3
<1>10. QuotaLeft(b) = IF count[s][k] > Limit(p) THEN 0 ELSE Limit(p) - count[s][k]
  BY <1>3, <1>7 DEF QuotaLeft
<1>11. QuotaLeft(b)' = IF count[s][k] + 1 > Limit(p) THEN 0
                       ELSE Limit(p) - (count[s][k] + 1)
  <2>1. count'[s][k] = count[s][k] + 1
    BY <1>2, <1>4, <1>5
  <2> QED
    BY <1>3, <1>7, <1>8, <2>1 DEF QuotaLeft, PlanQuotaOf
<1>12. verdict[q] = "pending"
  BY <1>1, <1>2 DEF CountInv
<1>13. \A r \in Request : AccountOf(caller[r])' = AccountOf(caller[r])
  BY <1>8 DEF AccountOf
<1>14. CASE count[s][k] + 1 > Limit(p)
  <2>1. verdict' = [verdict EXCEPT ![q] = "refused"]
    BY <1>3, <1>14 DEF Count, Decide
  <2>2. QuotaLeft(b) = 0 /\ QuotaLeft(b)' = 0
    BY <1>4, <1>7, <1>10, <1>11, <1>14
  <2>3. \A a \in Account : QuotaLeft(a)' = QuotaLeft(a)
    BY <1>9, <2>2
  <2>4. Quota!Refuse(q)
    BY <1>6, <1>12, <1>13, <2>1, <2>2, <2>3 DEF Quota!Refuse, Quota!Decide
  <2> QED
    BY <2>4
<1>15. CASE ~(count[s][k] + 1 > Limit(p))
  <2>1. verdict' = [verdict EXCEPT ![q] = "admitted"]
    BY <1>3, <1>15 DEF Count, Decide
  <2>2. QuotaLeft(b) > 0 /\ QuotaLeft(b)' = QuotaLeft(b) - 1
    BY <1>4, <1>7, <1>10, <1>11, <1>15
  <2>3. \A a \in Account :
          QuotaLeft(a)' = IF a = b THEN QuotaLeft(a) - 1 ELSE QuotaLeft(a)
    BY <1>9, <2>2
  <2>4. Quota!Admit(q)
    BY <1>6, <1>12, <1>13, <2>1, <2>2, <2>3 DEF Quota!Admit, Quota!Decide
  <2> QED
    BY <2>4
<1> QED
  BY <1>14, <1>15

\* The end of a window renews one quota: only stores in the map have counted.
LEMMA WindowSeen ==
  ASSUME LimiterInv, NEW s \in Store, NEW k \in Key, WindowEnds(s, k)
  PROVE  \E a \in Account : Quota!Renew(a)
<1>1. TypeOK /\ MapInv /\ CountInv
  BY DEF LimiterInv
<1>2. PICK p \in Plan : planMiddlewares[p].store = s
  <2>1. CASE \A p \in Plan : planMiddlewares[p].store # s
    BY <1>1, <2>1 DEF WindowEnds, CountInv
  <2> QED
    BY <2>1
<1>3. planMiddlewares[p] # NoMiddleware
  BY <1>2, StoreAssumption DEF NoMiddleware
<1>4. \A t \in Store, j \in Key :
        count'[t][j] = IF t = s /\ j = k THEN 0 ELSE count[t][j]
  BY <1>1 DEF WindowEnds, TypeOK
<1>5. UNCHANGED <<caller, planMiddlewares, verdict>>
  BY DEF WindowEnds
<1> DEFINE b == <<p, k>>
<1>6. b \in Account
  BY DEF Account
<1>7. QuotaLeft(b)' = PlanQuotaOf(b)
  <2>1. PlanQuotaOf(b) \in Nat
    BY <1>6, QuotaType
  <2> QED
    BY <1>2, <1>3, <1>4, <1>5, <2>1 DEF QuotaLeft, PlanQuotaOf
<1>8. ASSUME NEW a \in Account, a # b PROVE QuotaLeft(a)' = QuotaLeft(a)
  <2>1. a[1] \in Plan /\ a[2] \in Key /\ (a[1] # p \/ a[2] # k)
    BY <1>8, QuotaType
  <2>2. CASE planMiddlewares[a[1]] = NoMiddleware
    BY <1>5, <2>2 DEF QuotaLeft, PlanQuotaOf
  <2>3. CASE planMiddlewares[a[1]] # NoMiddleware
    <3> DEFINE t == planMiddlewares[a[1]].store
    <3>1. t \in Store
      BY <1>1, <2>1, <2>3, NoMiddlewareIsNone DEF TypeOK
    <3>2. t = s => a[1] = p
      BY <1>1, <1>2, <2>1, <2>3 DEF MapInv, OneStorePerPlan
    <3>3. count'[t][a[2]] = count[t][a[2]]
      BY <1>4, <2>1, <3>1, <3>2
    <3> QED
      BY <1>5, <2>3, <3>3 DEF QuotaLeft, PlanQuotaOf
  <2> QED
    BY <2>2, <2>3
<1>9. \A r \in Request : AccountOf(caller[r])' = AccountOf(caller[r])
  BY <1>5 DEF AccountOf
<1>10. Quota!Renew(b)
  BY <1>5, <1>6, <1>7, <1>8, <1>9 DEF Quota!Renew
<1> QED
  BY <1>6, <1>10

\* Every step is a step of PlanQuota, or is not seen.
LEMMA QuotaNext == LimiterInv /\ [Next]_vars => [Quota!Next]_(Quota!vars)
<1> SUFFICES ASSUME LimiterInv, [Next]_vars
             PROVE  Quota!Next \/ UNCHANGED Quota!vars
  OBVIOUS
<1>0. TypeOK /\ CountInv
  BY DEF LimiterInv
<1>1. ASSUME NEW q \in Request, Bypass(q) PROVE Quota!Bypass(q)
  <2>1. AccountOf(caller[q]) = NoAccount
    BY <1>0, <1>1, AccountType DEF Bypass
  <2>2. verdict[q] = "pending"
    BY <1>0, <1>1 DEF Bypass, CountInv
  <2>3. \A a \in Account : QuotaLeft(a)' = QuotaLeft(a)
    BY <1>1 DEF Bypass, QuotaLeft, PlanQuotaOf
  <2>4. \A r \in Request : AccountOf(caller[r])' = AccountOf(caller[r])
    BY <1>1 DEF Bypass, AccountOf
  <2> QED
    BY <1>1, <2>1, <2>2, <2>3, <2>4
    DEF Bypass, Decide, Quota!Bypass, Quota!Decide
<1>2. ASSUME NEW q \in Request,
             RLock(q) \/ Lookup(q) \/ LockAnnounce(q) \/ LockAcquire(q)
      PROVE  UNCHANGED Quota!vars
  BY <1>2, Unseen DEF RLock, Lookup, LockAnnounce, LockAcquire
<1>3. CASE UNCHANGED vars
  BY <1>3, Unseen DEF vars
<1> QED
  BY <1>1, <1>2, <1>3, CreateUnseen, CountSeen, WindowSeen, Steps
  DEF Quota!Next

\* Whatever is in flight, requests are let through and refused as the quotas of
\* their accounts say (plan_rate_limiter.go:30-112).
THEOREM LimiterImplementsQuota == Spec => QuotaIsKept
  BY QuotaInit, QuotaNext, LimiterCorrect, PTL DEF Spec, Quota!Spec, QuotaIsKept
=============================================================================
