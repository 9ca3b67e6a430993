--------------------------- MODULE SimCacheProofs ---------------------------
(***************************************************************************)
(* Theorems about SimCache for every set of calls, requests and            *)
(* transactions, every pair of lifetimes and a chain of any length.        *)
(***************************************************************************)
EXTENDS SimCache, TLAPS

\* What each step of Next leaves to show, in one place.
LEMMA Steps ==
  ASSUME Next
  PROVE  \/ \E c \in Call :
              \/ CacheHit(c) \/ CacheMiss(c) \/ DecodeFails(c)
              \/ EthCall(c) /\ UNCHANGED redis
              \/ EstimateGas(c) /\ UNCHANGED redis
              \/ ResolveBlock(c) /\ UNCHANGED redis
              \/ TraceCall(c) /\ UNCHANGED redis
              \/ AlchemySimulate(c) /\ UNCHANGED redis
              \/ CacheSet(c) \/ CacheSetFails(c)
              \/ Expire(c) /\ UNCHANGED redis
              \/ HangUp(c) /\ UNCHANGED redis
         \/ Mine /\ UNCHANGED redis
         \/ Tick
         \/ Evict
  BY DEF Next, ForkCall, Simulate

\* A lifetime is a number of seconds, 0 for no expiry.
LEMMA TTLType == ASSUME NEW b PROVE TTL(b) \in Nat
  BY TTLAssumption DEF TTL, Duration

\* What RequestAssumption says of one request.
LEMMA RequestType ==
  ASSUME NEW r \in Request
  PROVE  /\ r.block \in Block \cup {Latest}
         /\ r.gas \in Nat
         /\ r.tx \in Tx
         /\ GasLimit(r) \in Nat
         /\ NoResult(r) \in RawSimResult
         /\ CacheKey(r) \in Key
         /\ Pinned(r) => r.block \in Block
  BY RequestAssumption, NodeAssumption
  DEF GasLimit, NoResult, RawSimResult, CacheKey, Key, Pinned, Answer, Block,
      NoAnswer

\* An answer of the node is a block of its chain or no answer.
LEMMA NodeAnswerType ==
  ASSUME head \in Block, NEW c, NEW n \in Int, NEW a \in NodeAnswers(c, n)
  PROVE  a \in Answer
  BY DEF NodeAnswers, Answer, Block

-----------------------------------------------------------------------------
(***************************************************************************)
(* Types.                                                                  *)
(***************************************************************************)
\* The first state has the types.
LEMMA TypeInit == Init => TypeOK
<1> SUFFICES ASSUME Init PROVE TypeOK
  OBVIOUS
<1>1. req \in [Call -> Request]
  BY DEF Init, ForkInit
<1>2. \A c \in Call : NoResult(req[c]) \in RawSimResult
  BY <1>1, RequestType
<1>3. raw \in [Call -> RawSimResult]
  BY <1>2 DEF Init, ForkInit
<1> QED
  BY <1>1, <1>3 DEF Init, ForkInit, TypeOK, ForkTypeOK, Step, Ended, Context, Block

\* Every step keeps them.
LEMMA TypeNext == TypeOK /\ [Next]_vars => TypeOK'
<1> SUFFICES ASSUME TypeOK, [Next]_vars PROVE TypeOK'
  OBVIOUS
<1> USE DEF TypeOK, ForkTypeOK
<1>1. ASSUME NEW c \in Call,
             \/ EthCall(c) \/ EstimateGas(c) \/ ResolveBlock(c)
             \/ TraceCall(c) \/ AlchemySimulate(c),
             UNCHANGED redis
      PROVE  TypeOK'
  <2>1. Target(c) \in Int
    BY RequestType DEF Target, Block, Latest
  <2>2. head \in Int
    BY DEF Block
  <2>3. \A a \in NodeAnswers(c, Target(c)) \cup NodeAnswers(c, head) : a \in Answer
    BY <2>1, <2>2, NodeAnswerType
  <2>4. \A a \in Answer : (IF a = NoAnswer THEN 0 ELSE a) \in Nat
    BY DEF Answer, Block
  <2>5. pc' \in [Call -> Step]
    BY <1>1 DEF EthCall, EstimateGas, ResolveBlock, TraceCall, AlchemySimulate,
                Goto, Step, ForkStep, Ended
  <2>6. raw' \in [Call -> RawSimResult]
    <3>1. CASE EthCall(c)
      BY <2>3, <3>1 DEF EthCall, RawSimResult
    <3>2. CASE EstimateGas(c)
      BY <2>3, <3>2 DEF EstimateGas, RawSimResult, Answer
    <3>3. CASE ResolveBlock(c)
      <4>1. PICK n \in Nat : raw' = [raw EXCEPT ![c].block = n]
        <5>1. CASE Pinned(req[c])
          BY <3>3, <5>1, RequestType DEF ResolveBlock, Block
        <5>2. CASE ~Pinned(req[c])
          BY <2>3, <2>4, <3>3, <5>2 DEF ResolveBlock
        <5> QED
          BY <5>1, <5>2
      <4> QED
        BY <4>1 DEF RawSimResult
    <3>4. CASE TraceCall(c)
      <4>1. PICK a \in Answer, l \in BOOLEAN :
              raw' = [raw EXCEPT ![c].trace = a, ![c].logs = l]
        BY <2>3, <3>4 DEF TraceCall
      <4>2. [raw[c] EXCEPT !.trace = a, !.logs = l] \in RawSimResult
        BY DEF RawSimResult
      <4> QED
        BY <4>1, <4>2
    <3>5. CASE AlchemySimulate(c)
      BY <2>3, <3>5 DEF AlchemySimulate, RawSimResult
    <3> QED
      BY <1>1, <3>1, <3>2, <3>3, <3>4, <3>5
  <2> QED
    BY <1>1, <2>5, <2>6
    DEF EthCall, EstimateGas, ResolveBlock, TraceCall, AlchemySimulate
<1>2. ASSUME NEW c \in Call, CacheHit(c) PROVE TypeOK'
  BY <1>2 DEF CacheHit, Goto, Step, Ended
<1>3. ASSUME NEW c \in Call, CacheMiss(c) \/ DecodeFails(c) \/ CacheSetFails(c)
      PROVE  TypeOK'
  BY <1>3 DEF CacheMiss, DecodeFails, CacheSetFails, Goto, Step, ForkStep, Ended
<1>4. ASSUME NEW c \in Call, CacheSet(c) PROVE TypeOK'
  <2>1. Entry(c) \in [key : Key, raw : RawSimResult, left : Nat]
    BY RequestType, TTLType DEF Entry
  <2> QED
    BY <1>4, <2>1 DEF CacheSet, Goto, Step, Ended
<1>5. ASSUME NEW c \in Call, Expire(c) \/ HangUp(c), UNCHANGED redis
      PROVE  TypeOK'
  BY <1>5 DEF Expire, HangUp, Context
<1>6. CASE Mine /\ UNCHANGED redis
  BY <1>6 DEF Mine, Block
<1>7. CASE Tick
  <2>1. \A e \in redis : e.left > 1 =>
          [e EXCEPT !.left = @ - 1] \in [key : Key, raw : RawSimResult, left : Nat]
    OBVIOUS
  <2> QED
    BY <1>7, <2>1 DEF Tick, forkVars
<1>8. CASE Evict
  BY <1>8 DEF Evict, forkVars
<1>9. CASE UNCHANGED vars
  BY <1>9 DEF vars, forkVars
<1> QED
  BY <1>1, <1>2, <1>3, <1>4, <1>5, <1>6, <1>7, <1>8, <1>9, Steps

\* Every variable keeps its type in every behaviour (fork.go:56-142,
\* simulation_cache.go:49-80).
THEOREM TypeCorrect == Spec => []TypeOK
  BY TypeInit, TypeNext, PTL DEF Spec

-----------------------------------------------------------------------------
(***************************************************************************)
(* The cache invariant.                                                    *)
(***************************************************************************)
\* At first nothing is gathered and Redis is empty.
LEMMA CacheInvInit == Init => CacheInv
<1> SUFFICES ASSUME Init PROVE CacheInv
  OBVIOUS
<1>1. TypeOK
  BY TypeInit
<1>2. \A c \in Call : GatheredAtBlock(c)
  BY DEF Init, ForkInit, GatheredAtBlock, NoResult
<1> QED
  BY <1>1, <1>2 DEF CacheInv, Init

\* A step that leaves Redis and the other calls alone keeps the invariant when
\* it keeps it for the call that moves.
LEMMA OneCallMoves ==
  ASSUME CacheInv, TypeOK', NEW c \in Call, GatheredAtBlock(c)',
         req' = req, redis' = redis,
         \A d \in Call \ {c} : raw'[d] = raw[d] /\ pc'[d] = pc[d]
  PROVE  CacheInv'
<1>1. ASSUME NEW d \in Call PROVE GatheredAtBlock(d)'
  <2>1. CASE d = c
    BY <2>1
  <2>2. CASE d # c
    BY <2>2 DEF CacheInv, GatheredAtBlock
  <2> QED
    BY <2>1, <2>2
<1>2. \A e \in redis' : EntryOK(e)'
  BY DEF CacheInv, EntryOK
<1> QED
  BY <1>1, <1>2 DEF CacheInv

\* Every step keeps what is gathered and cached at its block.
LEMMA CacheInvNext == CacheInv /\ [Next]_vars => CacheInv'
<1> SUFFICES ASSUME CacheInv, [Next]_vars PROVE CacheInv'
  OBVIOUS
<1>0. TypeOK /\ TypeOK'
  BY TypeNext DEF CacheInv
<1> USE <1>0 DEF TypeOK, ForkTypeOK
<1>1. ASSUME NEW c \in Call, EthCall(c), UNCHANGED redis PROVE CacheInv'
  <2>1. PICK b \in NodeAnswers(c, Target(c)) : raw' = [raw EXCEPT ![c].call = b]
    BY <1>1 DEF EthCall
  <2>2. Pinned(req[c]) => b \in {req[c].block, NoAnswer}
    BY DEF NodeAnswers, Target
  <2>3. GatheredAtBlock(c)'
    BY <1>1, <2>1, <2>2
    DEF EthCall, GatheredAtBlock, CacheInv, Goto, RawSimResult
  <2> QED
    BY <1>1, <2>1, <2>3, OneCallMoves DEF EthCall, Goto
<1>2. ASSUME NEW c \in Call, EstimateGas(c), UNCHANGED redis PROVE CacheInv'
  <2>1. PICK a : raw' = [raw EXCEPT ![c].estimate = a]
    BY <1>2 DEF EstimateGas
  <2>2. GatheredAtBlock(c)'
    BY <1>2, <2>1 DEF EstimateGas, GatheredAtBlock, CacheInv, Goto, RawSimResult
  <2> QED
    BY <1>2, <2>1, <2>2, OneCallMoves DEF EstimateGas, Goto
<1>3. ASSUME NEW c \in Call, ResolveBlock(c), UNCHANGED redis PROVE CacheInv'
  <2>1. PICK n : /\ raw' = [raw EXCEPT ![c].block = n]
                 /\ Pinned(req[c]) => n = req[c].block
    BY <1>3 DEF ResolveBlock
  <2>2. GatheredAtBlock(c)'
    BY <1>3, <2>1 DEF ResolveBlock, GatheredAtBlock, CacheInv, Goto, RawSimResult
  <2> QED
    BY <1>3, <2>1, <2>2, OneCallMoves DEF ResolveBlock, Goto
<1>4. ASSUME NEW c \in Call, TraceCall(c), UNCHANGED redis PROVE CacheInv'
  <2>1. PICK b \in NodeAnswers(c, Target(c)), l \in BOOLEAN :
          raw' = [raw EXCEPT ![c].trace = b, ![c].logs = l]
    BY <1>4 DEF TraceCall
  <2>2. Pinned(req[c]) => b \in {req[c].block, NoAnswer}
    BY DEF NodeAnswers, Target
  <2>3. raw' = [raw EXCEPT ![c] = [raw[c] EXCEPT !.trace = b, !.logs = l]]
    BY <2>1
  <2>4. /\ raw'[c].call = raw[c].call
        /\ raw'[c].trace = b
        /\ raw'[c].block = raw[c].block
    BY <2>3 DEF RawSimResult
  <2>5. GatheredAtBlock(c)'
    BY <1>4, <2>2, <2>4 DEF TraceCall, GatheredAtBlock, CacheInv
  <2> QED
    BY <1>4, <2>3, <2>5, OneCallMoves DEF TraceCall, Goto
<1>5. ASSUME NEW c \in Call, AlchemySimulate(c), UNCHANGED redis PROVE CacheInv'
  <2>1. PICK a : raw' = [raw EXCEPT ![c].alchemy = a]
    BY <1>5 DEF AlchemySimulate
  <2>2. GatheredAtBlock(c)'
    BY <1>5, <2>1
    DEF AlchemySimulate, GatheredAtBlock, CacheInv, Goto, RawSimResult
  <2> QED
    BY <1>5, <2>1, <2>2, OneCallMoves DEF AlchemySimulate, Goto
<1>6. ASSUME NEW c \in Call, CacheHit(c) PROVE CacheInv'
  <2>1. PICK e \in redis : /\ e.key = CacheKey(req[c])
                           /\ raw' = [raw EXCEPT ![c] = e.raw]
    BY <1>6 DEF CacheHit
  <2>2. AtBlock(req[c].block, raw'[c])
    BY <2>1 DEF CacheInv, EntryOK, CacheKey
  <2>3. GatheredAtBlock(c)'
    BY <1>6, <2>2 DEF CacheHit, GatheredAtBlock, AtBlock, Pinned
  <2> QED
    BY <1>6, <2>1, <2>3, OneCallMoves DEF CacheHit, Goto
<1>7. ASSUME NEW c \in Call, CacheMiss(c) \/ DecodeFails(c) PROVE CacheInv'
  <2>1. GatheredAtBlock(c)'
    BY <1>7 DEF CacheMiss, DecodeFails, GatheredAtBlock, CacheInv, Goto
  <2> QED
    BY <1>7, <2>1, OneCallMoves DEF CacheMiss, DecodeFails, Goto
<1>8. ASSUME NEW c \in Call, CacheSet(c) PROVE CacheInv'
  <2>1. EntryOK(Entry(c))
    BY <1>8, TTLType
    DEF CacheSet, EntryOK, Entry, CacheKey, AtBlock, CacheInv, GatheredAtBlock,
        Pinned
  <2>2. \A e \in redis' : EntryOK(e)'
    BY <1>8, <2>1 DEF CacheSet, CacheInv, EntryOK
  <2>3. \A d \in Call : GatheredAtBlock(d)'
    BY <1>8 DEF CacheSet, CacheInv, GatheredAtBlock, Goto
  <2> QED
    BY <2>2, <2>3 DEF CacheInv
<1>9. ASSUME NEW c \in Call, CacheSetFails(c) PROVE CacheInv'
  <2>1. GatheredAtBlock(c)'
    BY <1>9 DEF CacheSetFails, GatheredAtBlock, CacheInv, Goto
  <2> QED
    BY <1>9, <2>1, OneCallMoves DEF CacheSetFails, Goto
<1>10. ASSUME NEW c \in Call, Expire(c) \/ HangUp(c), UNCHANGED redis
       PROVE  CacheInv'
  BY <1>10 DEF Expire, HangUp, CacheInv, GatheredAtBlock, EntryOK
<1>11. CASE Mine /\ UNCHANGED redis
  BY <1>11 DEF Mine, CacheInv, GatheredAtBlock, EntryOK
<1>12. CASE Tick
  <2>1. \A e \in redis' : EntryOK(e)'
    <3>1. ASSUME NEW e \in redis, e.left > 1
          PROVE  EntryOK([e EXCEPT !.left = @ - 1])
      BY <3>1, TTLType DEF CacheInv, EntryOK
    <3> QED
      BY <1>12, <3>1 DEF Tick, CacheInv, EntryOK
  <2> QED
    BY <1>12, <2>1 DEF Tick, forkVars, CacheInv, GatheredAtBlock
<1>13. CASE Evict
  BY <1>13 DEF Evict, forkVars, CacheInv, GatheredAtBlock, EntryOK
<1>14. CASE UNCHANGED vars
  BY <1>14 DEF vars, forkVars, CacheInv, GatheredAtBlock, EntryOK
<1> QED
  BY <1>1, <1>2, <1>3, <1>4, <1>5, <1>6, <1>7, <1>8, <1>9, <1>10, <1>11,
     <1>12, <1>13, <1>14, Steps

\* Nothing a pinned call gathers, and nothing Redis keeps for a pinned block, was
\* computed at another block, and no entry outlives its kind
\* (simulation_cache.go:49-80, fork.go:91-126).
THEOREM CacheCorrect == Spec => []CacheInv
  BY CacheInvInit, CacheInvNext, PTL DEF Spec

\* A caller who pins a block is answered with the state of that block, whoever
\* filled the cache.
THEOREM RepliesPinned == Spec => []PinnedReplies
<1>1. CacheInv => PinnedReplies
  BY DEF CacheInv, GatheredAtBlock, PinnedReplies, AtBlock, Pinned
<1> QED
  BY <1>1, CacheCorrect, PTL

-----------------------------------------------------------------------------
(***************************************************************************)
(* The parts of one answer: their order, and Alchemy's place among them.   *)
(***************************************************************************)
\* The chain only grows, and an order of blocks below the head stays one.
LEMMA OrderKept ==
  ASSUME head \in Block, head' \in Block, head <= head',
         NEW x \in RawSimResult, PartsInOrder(x)
  PROVE  PartsInOrder(x)'
  BY DEF PartsInOrder, RawSimResult, Answer, NoAnswer, Block

\* An answer is as good as it was in the next state.
LEMMA AnswerKept ==
  ASSUME TypeOK, TypeOK', head <= head', NEW r, NEW x \in RawSimResult,
         AnswerOK(r, x)
  PROVE  AnswerOK(r, x)'
  BY OrderKept DEF AnswerOK, TypeOK, ForkTypeOK, Success, Reverts, Pinned

\* A step of one call that leaves Redis and the other calls alone keeps the
\* invariant when it keeps it for that call.
LEMMA OneAnswerMoves ==
  ASSUME ReplyInv, TypeOK', NEW c \in Call,
         AnswerOK(req[c], raw'[c]), NotYet(c)',
         pc'[c] = "alchemy" => ~raw'[c].logs /\ Success(req[c], raw'[c]),
         UNCHANGED <<head, req, redis>>,
         \A d \in Call \ {c} : raw'[d] = raw[d] /\ pc'[d] = pc[d]
  PROVE  ReplyInv'
<1> USE DEF TypeOK, ForkTypeOK
<1>1. ASSUME NEW d \in Call, d # c
      PROVE  /\ AnswerOK(req[d], raw[d])' /\ NotYet(d)'
             /\ pc'[d] = "alchemy" => NeedsAlchemy(d, raw[d].logs)'
  BY <1>1 DEF ReplyInv, NotYet, NeedsAlchemy, AnswerOK, PartsInOrder, Success,
              Reverts, Pinned
<1>2. /\ AnswerOK(req[c], raw[c])'
      /\ pc'[c] = "alchemy" => NeedsAlchemy(c, raw[c].logs)'
  BY DEF NeedsAlchemy, AnswerOK, PartsInOrder, Success, Reverts, Pinned
<1>3. \A e \in redis' : AnswerOK(e.key, e.raw)'
  BY DEF ReplyInv, AnswerOK, PartsInOrder, Success, Reverts, Pinned
<1> QED
  BY <1>1, <1>2, <1>3 DEF ReplyInv

\* A step that leaves every answer and every place alone, and does not cut the
\* chain, keeps the invariant when Redis keeps to its answers.
LEMMA NoAnswerMoves ==
  ASSUME ReplyInv, TypeOK', head <= head', UNCHANGED <<req, pc, raw>>,
         \A e \in redis' : \E f \in redis : e.key = f.key /\ e.raw = f.raw
  PROVE  ReplyInv'
<1> USE DEF TypeOK, ForkTypeOK
<1>1. ASSUME NEW d \in Call
      PROVE  /\ AnswerOK(req[d], raw[d])' /\ NotYet(d)'
             /\ pc'[d] = "alchemy" => NeedsAlchemy(d, raw[d].logs)'
  <2>1. AnswerOK(req[d], raw[d])'
    BY AnswerKept DEF ReplyInv
  <2> QED
    BY <2>1 DEF ReplyInv, NotYet, NeedsAlchemy, Success, Reverts
<1>2. ASSUME NEW e \in redis' PROVE AnswerOK(e.key, e.raw)'
  <2>1. PICK f \in redis : e.key = f.key /\ e.raw = f.raw
    OBVIOUS
  <2>2. f.raw \in RawSimResult /\ AnswerOK(f.key, f.raw)
    BY DEF ReplyInv
  <2>3. AnswerOK(f.key, f.raw)'
    BY <2>2, AnswerKept DEF ReplyInv
  <2> QED
    BY <2>1, <2>3
<1> QED
  BY <1>1, <1>2 DEF ReplyInv

\* At first no answer has a part.
LEMMA ReplyInvInit == Init => ReplyInv
<1> SUFFICES ASSUME Init PROVE ReplyInv
  OBVIOUS
<1>1. TypeOK
  BY TypeInit
<1>2. ASSUME NEW c \in Call PROVE AnswerOK(req[c], raw[c]) /\ NotYet(c)
  <2>1. raw[c] = NoResult(req[c]) /\ pc[c] = "get" /\ head = 1
    BY DEF Init, ForkInit
  <2>2. PartsInOrder(raw[c])
    BY <2>1 DEF PartsInOrder, NoResult, NoAnswer
  <2> QED
    BY <2>1, <2>2 DEF AnswerOK, NotYet, NoResult
<1> QED
  BY <1>1, <1>2 DEF ReplyInv, Init, ForkInit

\* Every step keeps the order of the parts and Alchemy's place.
LEMMA ReplyInvNext == ReplyInv /\ [Next]_vars => ReplyInv'
<1> SUFFICES ASSUME ReplyInv, [Next]_vars PROVE ReplyInv'
  OBVIOUS
<1>0. TypeOK /\ TypeOK'
  BY TypeNext DEF ReplyInv
<1> USE <1>0 DEF TypeOK, ForkTypeOK
<1>1. ASSUME NEW c \in Call, EthCall(c), UNCHANGED redis PROVE ReplyInv'
  <2>1. PICK b \in NodeAnswers(c, Target(c)) : raw' = [raw EXCEPT ![c].call = b]
    BY <1>1 DEF EthCall
  <2>2. raw'[c] = [raw[c] EXCEPT !.call = b]
    BY <2>1
  <2>3. ~Pinned(req[c]) => b \in {NoAnswer, head}
    BY DEF NodeAnswers, Target
  <2>4. AnswerOK(req[c], raw[c]) /\ NotYet(c) /\ raw[c].alchemy = NoAnswer
    BY <1>1 DEF ReplyInv, NotYet, EthCall, ForkStep
  <2>5. raw[c] \in RawSimResult
    OBVIOUS
  <2>6. AnswerOK(req[c], raw'[c])
    BY <1>1, <2>2, <2>3, <2>4, <2>5
    DEF EthCall, AnswerOK, PartsInOrder, NotYet, RawSimResult, Answer, NoAnswer,
        Block, ForkStep
  <2>7. NotYet(c)'
    BY <1>1, <2>2, <2>4, <2>5 DEF EthCall, Goto, NotYet, RawSimResult, ForkStep
  <2> QED
    BY <1>1, <2>1, <2>6, <2>7, OneAnswerMoves DEF EthCall, Goto
<1>2. ASSUME NEW c \in Call, EstimateGas(c), UNCHANGED redis PROVE ReplyInv'
  <2>1. PICK a : /\ raw' = [raw EXCEPT ![c].estimate = a]
                 /\ a \in {NoAnswer, head}
    BY <1>2 DEF EstimateGas, NodeAnswers
  <2>2. raw'[c] = [raw[c] EXCEPT !.estimate = a] /\ raw[c] \in RawSimResult
    BY <2>1
  <2>3. AnswerOK(req[c], raw[c]) /\ NotYet(c) /\ raw[c].alchemy = NoAnswer
    BY <1>2 DEF ReplyInv, NotYet, EstimateGas, ForkStep
  <2>4. AnswerOK(req[c], raw'[c])
    BY <1>2, <2>1, <2>2, <2>3
    DEF EstimateGas, AnswerOK, PartsInOrder, NotYet, RawSimResult, Answer,
        NoAnswer, Block, ForkStep
  <2>5. NotYet(c)'
    BY <1>2, <2>2, <2>3
    DEF EstimateGas, Goto, NotYet, RawSimResult, ForkStep
  <2> QED
    BY <1>2, <2>1, <2>4, <2>5, OneAnswerMoves DEF EstimateGas, Goto
<1>3. ASSUME NEW c \in Call, ResolveBlock(c), UNCHANGED redis PROVE ReplyInv'
  <2>1. PICK n : /\ raw' = [raw EXCEPT ![c].block = n]
                 /\ ~Pinned(req[c]) => n \in {0, head}
    BY <1>3 DEF ResolveBlock, NodeAnswers
  <2>2. raw'[c] = [raw[c] EXCEPT !.block = n] /\ raw[c] \in RawSimResult
    BY <2>1
  <2>3. AnswerOK(req[c], raw[c]) /\ NotYet(c) /\ raw[c].alchemy = NoAnswer
    BY <1>3 DEF ReplyInv, NotYet, ResolveBlock, ForkStep
  <2>4. AnswerOK(req[c], raw'[c])
    BY <1>3, <2>1, <2>2, <2>3
    DEF ResolveBlock, AnswerOK, PartsInOrder, NotYet, RawSimResult, Answer,
        NoAnswer, Block, ForkStep
  <2>5. NotYet(c)'
    BY <1>3, <2>2, <2>3
    DEF ResolveBlock, Goto, NotYet, RawSimResult, ForkStep
  <2> QED
    BY <1>3, <2>1, <2>4, <2>5, OneAnswerMoves DEF ResolveBlock, Goto
<1>4. ASSUME NEW c \in Call, TraceCall(c), UNCHANGED redis PROVE ReplyInv'
  <2>1. PICK b \in NodeAnswers(c, Target(c)), l \in BOOLEAN :
          /\ raw' = [raw EXCEPT ![c].trace = b, ![c].logs = l]
          /\ Goto(c, IF NeedsAlchemy(c, l) THEN "alchemy" ELSE "set")
    BY <1>4 DEF TraceCall
  <2>2. ~Pinned(req[c]) => b \in {NoAnswer, head}
    BY DEF NodeAnswers, Target
  <2>3. raw' = [raw EXCEPT ![c] = [raw[c] EXCEPT !.trace = b, !.logs = l]]
    BY <2>1
  <2>4. /\ raw[c] \in RawSimResult
        /\ raw'[c] = [raw[c] EXCEPT !.trace = b, !.logs = l]
    BY <2>3
  <2>5. AnswerOK(req[c], raw[c]) /\ NotYet(c) /\ raw[c].alchemy = NoAnswer
    BY <1>4 DEF ReplyInv, NotYet, TraceCall, ForkStep
  <2>6. AnswerOK(req[c], raw'[c])
    <3>1. /\ raw'[c].call = raw[c].call /\ raw'[c].estimate = raw[c].estimate
          /\ raw'[c].block = raw[c].block /\ raw'[c].alchemy = NoAnswer
          /\ raw'[c].trace = b
      BY <2>4, <2>5 DEF RawSimResult
    <3>2. ~Pinned(req[c]) => PartsInOrder(raw[c]) /\ raw[c].trace = NoAnswer
      BY <1>4, <2>5 DEF TraceCall, AnswerOK, NotYet, ForkStep
    <3>3. ~Pinned(req[c]) => PartsInOrder(raw'[c])
      BY <2>2, <2>4, <3>1, <3>2
      DEF PartsInOrder, RawSimResult, Answer, NoAnswer, Block
    <3> QED
      BY <3>1, <3>3 DEF AnswerOK
  <2>7. pc'[c] = IF NeedsAlchemy(c, l) THEN "alchemy" ELSE "set"
    BY <2>1 DEF Goto
  <2>8. NotYet(c)'
    BY <2>4, <2>5, <2>7 DEF NotYet, RawSimResult, ForkStep
  <2>9. pc'[c] = "alchemy" => ~raw'[c].logs /\ Success(req[c], raw'[c])
    BY <2>4, <2>7 DEF NeedsAlchemy, Success, Reverts, RawSimResult
  <2> QED
    BY <1>4, <2>3, <2>6, <2>8, <2>9, OneAnswerMoves DEF TraceCall, Goto
<1>5. ASSUME NEW c \in Call, AlchemySimulate(c), UNCHANGED redis PROVE ReplyInv'
  <2>1. PICK b \in NodeAnswers(c, head) : raw' = [raw EXCEPT ![c].alchemy = b]
    BY <1>5 DEF AlchemySimulate
  <2>2. /\ raw'[c] = [raw[c] EXCEPT !.alchemy = b]
        /\ raw[c] \in RawSimResult
        /\ b \in {NoAnswer, head}
    BY <2>1 DEF NodeAnswers
  <2>3. /\ AnswerOK(req[c], raw[c])
        /\ ~raw[c].logs /\ Success(req[c], raw[c])
    BY <1>5 DEF ReplyInv, NeedsAlchemy, AlchemySimulate
  <2>4. ~Pinned(req[c]) => PartsInOrder(raw'[c])
    BY <2>2, <2>3
    DEF AnswerOK, PartsInOrder, RawSimResult, Answer, NoAnswer, Block
  <2>5. ~raw'[c].logs /\ Success(req[c], raw'[c])
    BY <2>2, <2>3 DEF Success, Reverts, RawSimResult
  <2>6. NotYet(c)'
    BY <1>5 DEF AlchemySimulate, Goto, NotYet, ForkStep
  <2> QED
    BY <1>5, <2>1, <2>4, <2>5, <2>6, OneAnswerMoves
    DEF AlchemySimulate, Goto, AnswerOK
<1>6. ASSUME NEW c \in Call, CacheHit(c) PROVE ReplyInv'
  <2>1. PICK e \in redis : /\ e.key = CacheKey(req[c])
                           /\ raw' = [raw EXCEPT ![c] = e.raw]
    BY <1>6 DEF CacheHit
  <2>2. AnswerOK(e.key, raw'[c])
    BY <2>1 DEF ReplyInv
  <2>3. AnswerOK(req[c], raw'[c])
    BY <2>1, <2>2 DEF AnswerOK, CacheKey, Pinned, Success, Reverts
  <2>4. NotYet(c)'
    BY <1>6 DEF CacheHit, Goto, NotYet, ForkStep
  <2> QED
    BY <1>6, <2>1, <2>3, <2>4, OneAnswerMoves DEF CacheHit, Goto
<1>7. ASSUME NEW c \in Call, CacheMiss(c) \/ DecodeFails(c) \/ CacheSetFails(c)
      PROVE  ReplyInv'
  <2>1. AnswerOK(req[c], raw[c]) /\ NotYet(c)
    BY DEF ReplyInv
  <2>2. NotYet(c)'
    BY <1>7, <2>1 DEF CacheMiss, DecodeFails, CacheSetFails, Goto, NotYet, ForkStep
  <2> QED
    BY <1>7, <2>1, <2>2, OneAnswerMoves
    DEF CacheMiss, DecodeFails, CacheSetFails, Goto
<1>8. ASSUME NEW c \in Call, CacheSet(c) PROVE ReplyInv'
  <2>1. AnswerOK(Entry(c).key, Entry(c).raw)
    BY DEF ReplyInv, Entry, CacheKey, AnswerOK, Pinned, Success, Reverts
  <2>2. UNCHANGED <<head, req, raw>>
    BY <1>8 DEF CacheSet
  <2>3. ASSUME NEW e \in redis' PROVE AnswerOK(e.key, e.raw)'
    <3>1. AnswerOK(e.key, e.raw)
      BY <1>8, <2>1 DEF CacheSet, ReplyInv
    <3> QED
      BY <2>2, <3>1 DEF AnswerOK, PartsInOrder, Success, Reverts, Pinned
  <2>4. ASSUME NEW d \in Call
        PROVE  /\ AnswerOK(req[d], raw[d])' /\ NotYet(d)'
               /\ pc'[d] = "alchemy" => NeedsAlchemy(d, raw[d].logs)'
    BY <1>8, <2>2
    DEF CacheSet, Goto, ReplyInv, AnswerOK, PartsInOrder, NotYet, NeedsAlchemy,
        Success, Reverts, Pinned, ForkStep
  <2> QED
    BY <2>3, <2>4 DEF ReplyInv
<1>9. ASSUME NEW c \in Call, Expire(c) \/ HangUp(c), UNCHANGED redis
      PROVE  ReplyInv'
  BY <1>9, NoAnswerMoves DEF Expire, HangUp, Block
<1>10. CASE Mine /\ UNCHANGED redis
  BY <1>10, NoAnswerMoves DEF Mine, Block
<1>11. CASE Tick
  <2>1. \A e \in redis' : \E f \in redis : e.key = f.key /\ e.raw = f.raw
    BY <1>11 DEF Tick
  <2> QED
    BY <1>11, <2>1, NoAnswerMoves DEF Tick, forkVars, Block
<1>12. CASE Evict
  BY <1>12, NoAnswerMoves DEF Evict, forkVars, Block
<1>13. CASE UNCHANGED vars
  BY <1>13, NoAnswerMoves DEF vars, forkVars, Block
<1> QED
  BY <1>1, <1>2, <1>3, <1>4, <1>5, <1>6, <1>7, <1>8, <1>9, <1>10, <1>11,
     <1>12, <1>13, Steps

\* Every answer, in the making or in Redis, keeps its parts in order and Alchemy
\* in its place.
THEOREM RepliesInOrder == Spec => []ReplyInv
  BY ReplyInvInit, ReplyInvNext, PTL DEF Spec

\* The parts of an answer for the latest block were evaluated at blocks that
\* never go back, in the order of the calls (fork.go:91-126), also where another
\* call put the answer into the cache.
THEOREM PartsAdvance == Spec => []LatestPartsAdvance
<1>1. ReplyInv => LatestPartsAdvance
  BY DEF ReplyInv, AnswerOK, LatestPartsAdvance
<1> QED
  BY <1>1, RepliesInOrder, PTL

\* No answer that reports a failure or has logs of its own carries Alchemy's
\* estimate (fork.go:114-118), also out of the cache and under another gas limit.
THEOREM AlchemyComesLast == Spec => []AlchemyIsLastResort
<1>1. ReplyInv => AlchemyIsLastResort
  BY DEF ReplyInv, AnswerOK, AlchemyIsLastResort
<1> QED
  BY <1>1, RepliesInOrder, PTL

-----------------------------------------------------------------------------
(***************************************************************************)
(* SimCache implements MemoisedFork.                                       *)
(***************************************************************************)
\* The two lifetimes are the same function of the block.
LEMMA LifetimeIsTTL ==
  ASSUME NEW q PROVE MemoLifetime(q) = TTL(q.block)
  BY DEF MemoLifetime, TTL

\* The first state shows the first state of MemoisedFork.
LEMMA MemoInit == Init => Memo!Init
<1> SUFFICES ASSUME Init PROVE Memo!Init
  OBVIOUS
<1>1. \A c \in Call : Status(c) = "asking"
  <2>1. ASSUME NEW c \in Call PROVE pc[c] = "get" /\ pc[c] \notin Ended
    BY DEF Init, ForkInit, Ended
  <2> QED
    BY <2>1, Zenon DEF Status
<1>2. {Remembered(e) : e \in redis} = {}
  BY DEF Init
<1> QED
  BY <1>1, <1>2 DEF Memo!Init

\* A step that moves no call into or out of "get" and the ended states, and
\* leaves Redis alone, is not seen.
LEMMA Unseen ==
  ASSUME TypeOK, req' = req, redis' = redis,
         \A c \in Call : \/ pc'[c] = pc[c] /\ raw'[c] = raw[c]
                         \/ /\ {pc[c], pc'[c]} \subseteq ForkStep \cup {"set"}
  PROVE  UNCHANGED Memo!vars
<1>1. \A c \in Call : Status(c)' = Status(c) /\ Shown(c)' = Shown(c)
  BY DEF Status, Shown, ForkStep, Ended
<1>2. {Remembered(e) : e \in redis}' = {Remembered(e) : e \in redis}
  BY DEF Remembered, MemoLifetime
<1>3. [c \in Call |-> Question(req[c])]' = [c \in Call |-> Question(req[c])]
  BY DEF Question
<1> QED
  BY <1>1, <1>2, <1>3 DEF Memo!vars

\* Every step is a step of MemoisedFork, or is not seen.
LEMMA MemoNext == CacheInv /\ CacheInv' /\ [Next]_vars => [Memo!Next]_(Memo!vars)
<1> SUFFICES ASSUME CacheInv, CacheInv', [Next]_vars
             PROVE  Memo!Next \/ UNCHANGED Memo!vars
  OBVIOUS
<1>0. TypeOK /\ TypeOK'
  BY DEF CacheInv
<1> USE <1>0 DEF TypeOK, ForkTypeOK
<1>1. ASSUME NEW c \in Call,
             \/ EthCall(c) \/ EstimateGas(c) \/ ResolveBlock(c)
             \/ TraceCall(c) \/ AlchemySimulate(c),
             UNCHANGED redis
      PROVE  UNCHANGED Memo!vars
  <2>1. /\ {pc[c], pc'[c]} \subseteq ForkStep \cup {"set"}
        /\ req' = req
        /\ \A d \in Call \ {c} : raw'[d] = raw[d] /\ pc'[d] = pc[d]
    BY <1>1 DEF EthCall, EstimateGas, ResolveBlock, TraceCall, AlchemySimulate,
                Goto, ForkStep
  <2> QED
    BY <1>1, <2>1, Unseen
<1>2. ASSUME NEW c \in Call, CacheHit(c) PROVE Memo!Replay(c)
  <2>1. PICK e \in redis : /\ e.key = CacheKey(req[c])
                           /\ raw' = [raw EXCEPT ![c] = e.raw]
    BY <1>2 DEF CacheHit
  <2>2. Remembered(e).question = Question(req[c]) /\ Remembered(e).answer = e.raw
    BY <2>1 DEF Remembered, CacheKey, Question
  <2>3. \A d \in Call : Status(d)' = IF d = c THEN "done" ELSE Status(d)
    BY <1>2 DEF CacheHit, Goto, Status, Ended
  <2>4. \A d \in Call : Shown(d)' = IF d = c THEN e.raw ELSE Shown(d)
    BY <1>2, <2>1 DEF CacheHit, Goto, Shown
  <2>5. Status(c) = "asking"
    <3>1. pc[c] = "get" /\ pc[c] \notin Ended
      BY <1>2 DEF CacheHit, Ended
    <3> QED
      BY <3>1, Zenon DEF Status
  <2>6. /\ {Remembered(x) : x \in redis}' = {Remembered(x) : x \in redis}
        /\ req' = req
    BY <1>2 DEF CacheHit, Remembered, MemoLifetime
  <2> QED
    BY <2>1, <2>2, <2>3, <2>4, <2>5, <2>6
    DEF Memo!Replay, Memo!Show, Memo!Become, Question
<1>3. ASSUME NEW c \in Call, CacheMiss(c) PROVE Memo!Run(c)
  <2>1. /\ Status(c) = "asking"
        /\ \A d \in Call : Status(d)' = IF d = c THEN "running" ELSE Status(d)
    BY <1>3 DEF CacheMiss, Goto, Status, Ended
  <2>2. \A d \in Call : Shown(d)' = Shown(d)
    BY <1>3 DEF CacheMiss, Goto, Shown
  <2>3. /\ {Remembered(x) : x \in redis}' = {Remembered(x) : x \in redis}
        /\ req' = req
    BY <1>3 DEF CacheMiss, Remembered, MemoLifetime
  <2> QED
    BY <2>1, <2>2, <2>3 DEF Memo!Run, Memo!Become, Question
<1>4. ASSUME NEW c \in Call, DecodeFails(c) PROVE Memo!Refuse(c)
  <2>1. /\ Status(c) = "asking"
        /\ \A d \in Call : Status(d)' = IF d = c THEN "failed" ELSE Status(d)
    BY <1>4 DEF DecodeFails, Goto, Status, Ended
  <2>2. \A d \in Call : Shown(d)' = Shown(d)
    BY <1>4 DEF DecodeFails, Goto, Shown
  <2>3. /\ {Remembered(x) : x \in redis}' = {Remembered(x) : x \in redis}
        /\ req' = req
    BY <1>4 DEF DecodeFails, Remembered, MemoLifetime
  <2> QED
    BY <2>1, <2>2, <2>3 DEF Memo!Refuse, Memo!Become, Question
<1>5. ASSUME NEW c \in Call, CacheSet(c) \/ CacheSetFails(c) PROVE Memo!Answer(c)
  <2>1. /\ Status(c) = "running"
        /\ \A d \in Call : Status(d)' = IF d = c THEN "done" ELSE Status(d)
    BY <1>5 DEF CacheSet, CacheSetFails, Goto, Status, Ended
  <2>2. \A d \in Call : Shown(d)' = IF d = c THEN raw[c] ELSE Shown(d)
    BY <1>5 DEF CacheSet, CacheSetFails, Goto, Shown
  <2>3. MemoAdmissible(Question(req[c]), raw[c])
    BY <1>5 DEF CacheSet, CacheSetFails, MemoAdmissible, Question, AtBlock,
                CacheInv, GatheredAtBlock, Pinned
  <2>4. Remembered(Entry(c)) =
          [question |-> Question(req[c]), answer |-> raw[c], age |-> 0]
    <3>1. MemoLifetime(CacheKey(req[c])) = TTL(req[c].block)
      BY LifetimeIsTTL DEF CacheKey
    <3> QED
      BY <3>1, TTLType DEF Remembered, Entry, CacheKey, Question
  <2>5. redis' \subseteq redis \cup {Entry(c)}
    BY <1>5 DEF CacheSet, CacheSetFails
  <2>6. {Remembered(e) : e \in redis}' = {Remembered(e) : e \in redis'}
    BY DEF Remembered, MemoLifetime
  <2>7. {Remembered(e) : e \in redis}' \subseteq {Remembered(e) : e \in redis}
          \cup {[question |-> Question(req[c]), answer |-> raw[c], age |-> 0]}
    BY <2>4, <2>5, <2>6
  <2>8. req' = req
    BY <1>5 DEF CacheSet, CacheSetFails
  <2> QED
    BY <2>1, <2>2, <2>3, <2>7, <2>8
    DEF Memo!Answer, Memo!Show, Memo!Become, Question
<1>6. ASSUME NEW c \in Call, Expire(c) \/ HangUp(c), UNCHANGED redis
      PROVE  UNCHANGED Memo!vars
  BY <1>6, Unseen DEF Expire, HangUp
<1>7. ASSUME Mine, UNCHANGED redis PROVE UNCHANGED Memo!vars
  BY <1>7, Unseen DEF Mine
<1>8. CASE Tick
  <2> DEFINE M == {Remembered(e) : e \in redis}
  <2>1. \A e \in redis : /\ MemoLifetime(e.key) \in Nat
                         /\ MemoLifetime(e.key) = 0 <=> e.left = 0
                         /\ e.left \in Nat
                         /\ Remembered(e).question = e.key
                         /\ Remembered(e).age = MemoLifetime(e.key) - e.left
    BY LifetimeIsTTL, TTLType DEF CacheInv, EntryOK, Remembered
  <2>2. \A e \in redis : LET f == [e EXCEPT !.left = @ - 1]
                         IN  e.left > 1 =>
                               Remembered(f) = Memo!Older(Remembered(e))
    BY <2>1 DEF Remembered, Memo!Older
  <2>3. {Remembered(e) : e \in {x \in redis : x.left = 0}}
          = {m \in M : MemoLifetime(m.question) = 0}
    BY <2>1
  <2>4. {Remembered(e) : e \in {x \in redis : x.left > 1}}
          = {m \in M : /\ MemoLifetime(m.question) # 0
                       /\ m.age + 1 < MemoLifetime(m.question)}
    BY <2>1
  <2>5. {Remembered(e) : e \in redis'} =
          {Remembered(e) : e \in {x \in redis : x.left = 0}}
          \cup {Memo!Older(m) : m \in {Remembered(e) :
                                        e \in {x \in redis : x.left > 1}}}
    <3> DEFINE S == {x \in redis : x.left = 0}
               L == {x \in redis : x.left > 1}
               Ticked(x) == [x EXCEPT !.left = @ - 1]
    <3>1. redis' = S \cup {Ticked(x) : x \in L}
      BY <1>8 DEF Tick
    <3>2. \A x \in L : Remembered(Ticked(x)) = Memo!Older(Remembered(x))
      BY <2>2
    <3>3. {Remembered(e) : e \in redis'} =
            {Remembered(e) : e \in S} \cup {Remembered(Ticked(x)) : x \in L}
      BY <3>1
    <3>4. {Remembered(Ticked(x)) : x \in L} =
            {Memo!Older(m) : m \in {Remembered(x) : x \in L}}
      BY <3>2
    <3> QED
      BY <3>3, <3>4
  <2>6. M' = {Remembered(e) : e \in redis'}
    BY DEF Remembered, MemoLifetime
  <2>7. UNCHANGED <<req, pc, raw>>
    BY <1>8 DEF Tick, forkVars
  <2>8. \A c \in Call : Status(c)' = Status(c) /\ Shown(c)' = Shown(c)
    BY <2>7 DEF Status, Shown
  <2>9. Memo!Age
    BY <2>3, <2>4, <2>5, <2>6, <2>7, <2>8 DEF Memo!Age, Question
  <2> QED
    BY <2>9 DEF Memo!Next
<1>9. CASE Evict
  <2>1. {Remembered(e) : e \in redis}' \subseteq {Remembered(e) : e \in redis}
    BY <1>9 DEF Evict, Remembered, MemoLifetime
  <2>2. \A c \in Call : Status(c)' = Status(c) /\ Shown(c)' = Shown(c)
    BY <1>9 DEF Evict, forkVars, Status, Shown
  <2>3. Memo!Forget
    BY <1>9, <2>1, <2>2 DEF Evict, forkVars, Memo!Forget, Question
  <2> QED
    BY <2>3 DEF Memo!Next
<1>10. ASSUME UNCHANGED vars PROVE UNCHANGED Memo!vars
  BY <1>10, Unseen DEF vars, forkVars
<1> QED
  BY <1>1, <1>2, <1>3, <1>4, <1>5, <1>6, <1>7, <1>8, <1>9, <1>10, Steps
  DEF Memo!Next

\* The decorator implements the memoised fork (simulation_cache.go:49-80).
THEOREM CacheImplementsMemo == Spec => Memoised
  BY MemoInit, MemoNext, CacheCorrect, PTL DEF Spec, Memo!Spec, Memoised
=============================================================================
