------------------------------ MODULE SimCache ------------------------------
(***************************************************************************)
(* SimulationCacheRepo (internal/repo/simulation_cache.go), the Redis      *)
(* decorator over ArchiveNodeFork: several simulations run at once, each   *)
(* a GET, on a miss the calls of ArchiveFork, and a SET.                   *)
(*                                                                         *)
(* Redis is external: one entry per key; left is the remaining time to     *)
(* live, in seconds, and 0 means that the entry has no expiry.             *)
(***************************************************************************)
EXTENDS ArchiveFork

CONSTANTS
  FinalizedTTLSecs,  \* cfg.EVM.CacheTTLSeconds
  PendingTTLSecs     \* cfg.EVM.PendingCacheTTLSeconds

ASSUME TTLAssumption == FinalizedTTLSecs \in Int /\ PendingTTLSecs \in Int

VARIABLE redis       \* set of [key, raw, left]

vars == <<forkVars, redis>>

\* NewSimulationCacheRepo: a negative configuration is no expiry either.
Duration(secs) == IF secs > 0 THEN secs ELSE 0

\* Bug: the two lifetimes swapped.
TTLSwapped(block) ==
  Duration(IF block = Latest THEN FinalizedTTLSecs ELSE PendingTTLSecs)

TTL(block) ==
  Duration(IF block = Latest THEN PendingTTLSecs ELSE FinalizedTTLSecs)

\* Bug: the block number left out of the hash.
CacheKeyWithoutBlock(r) == [block |-> Latest, tx |-> r.tx]

\* The hash of everything but the gas limit.
CacheKey(r) == [block |-> r.block, tx |-> r.tx]

Key == [block : Block \cup {Latest}, tx : Tx]

\* rdb.Get finds a blob that can be read.
CacheHit(c) ==
  /\ pc[c] = "get"
  /\ ctx[c] # "cancelled"
  /\ \E e \in redis : /\ e.key = CacheKey(req[c])
                      /\ raw' = [raw EXCEPT ![c] = e.raw]
  /\ Goto(c, "done")
  /\ UNCHANGED <<head, req, ctx, redis>>

\* No entry, or any error of Redis or of the decoding: the fork is run.
CacheMiss(c) ==
  /\ pc[c] = "get"
  /\ req[c].tx \notin Undecodable
  /\ Goto(c, "eth_call")
  /\ UNCHANGED <<head, req, raw, ctx, redis>>

\* The fork gives up at hex.DecodeString: the error goes to the caller.
DecodeFails(c) ==
  /\ pc[c] = "get"
  /\ req[c].tx \in Undecodable
  /\ Goto(c, "failed")
  /\ UNCHANGED <<head, req, raw, ctx, redis>>

Entry(c) ==
  [key |-> CacheKey(req[c]), raw |-> raw[c], left |-> TTL(req[c].block)]

\* rdb.Set runs under the caller's context, not under the fork's timeout.
CacheSet(c) ==
  /\ pc[c] = "set"
  /\ ctx[c] # "cancelled"
  /\ redis' = {e \in redis : e.key # CacheKey(req[c])} \cup {Entry(c)}
  /\ Goto(c, "done")
  /\ UNCHANGED <<head, req, raw, ctx>>

\* A failed SET is only logged.
CacheSetFails(c) ==
  /\ pc[c] = "set"
  /\ Goto(c, "done")
  /\ UNCHANGED <<head, req, raw, ctx, redis>>

ForkCall(c) == Simulate(c) /\ UNCHANGED redis

\* One second passes in Redis.
Tick ==
  /\ \E e \in redis : e.left > 0
  /\ redis' = {e \in redis : e.left = 0}
              \cup {[e EXCEPT !.left = @ - 1] : e \in {x \in redis : x.left > 1}}
  /\ UNCHANGED forkVars

\* Redis evicts an entry, or restarts without it.
Evict ==
  /\ \E e \in redis : redis' = redis \ {e}
  /\ UNCHANGED forkVars

Init == ForkInit /\ redis = {}

Next ==
  \/ \E c \in Call :
       \/ CacheHit(c) \/ CacheMiss(c) \/ DecodeFails(c)
       \/ ForkCall(c)
       \/ CacheSet(c) \/ CacheSetFails(c)
       \/ Expire(c) /\ UNCHANGED redis
       \/ HangUp(c) /\ UNCHANGED redis
  \/ Mine /\ UNCHANGED redis
  \/ Tick
  \/ Evict

Spec == Init /\ [][Next]_vars

\* A running goroutine is scheduled; a node that stays silent is left after
\* the timeout, and a call on an expired context returns.
Fairness ==
  \A c \in Call :
    /\ WF_vars(CacheHit(c) \/ CacheMiss(c) \/ DecodeFails(c))
    /\ WF_vars(Expire(c) /\ UNCHANGED redis)
    /\ WF_vars(ctx[c] # "live" /\ ForkCall(c))
    /\ WF_vars(CacheSet(c) \/ CacheSetFails(c))

FairSpec == Spec /\ Fairness

-----------------------------------------------------------------------------
\* Every variable keeps its type, and Redis one entry per key at most.
TypeOK ==
  /\ ForkTypeOK
  /\ redis \subseteq [key : Key, raw : RawSimResult, left : Nat]

\* A result that belongs to a request for block b was computed there: the
\* call and the trace at b or not at all, and b is the block reported.
AtBlock(b, x) ==
  b # Latest => /\ x.call \in {b, NoAnswer}
                /\ x.trace \in {b, NoAnswer}
                /\ x.block = b

\* Whoever filled the cache, a caller who pins a block is answered with the
\* state of that block (fork.go, blockNum; simulation_cache.go, cacheKey).
PinnedReplies == \A c \in Call : pc[c] = "done" => AtBlock(req[c].block, raw[c])

(***************************************************************************)
(* The inductive invariant behind PinnedReplies and Memoised: whatever a   *)
(* pinned call has gathered so far was computed at its block, the block is *)
(* reported from the third call on, and an entry of Redis says nothing     *)
(* else for its key and never outlives the lifetime of its kind.           *)
(***************************************************************************)
GatheredAtBlock(c) ==
  Pinned(req[c]) =>
    /\ raw[c].call  \in {req[c].block, NoAnswer}
    /\ raw[c].trace \in {req[c].block, NoAnswer}
    /\ pc[c] \in {"trace", "alchemy", "set", "done"} =>
         raw[c].block = req[c].block

EntryOK(e) ==
  /\ AtBlock(e.key.block, e.raw)
  /\ TTL(e.key.block) = 0 => e.left = 0
  /\ TTL(e.key.block) > 0 => e.left \in 1..TTL(e.key.block)

CacheInv ==
  /\ TypeOK
  /\ \A c \in Call : GatheredAtBlock(c)
  /\ \A e \in redis : EntryOK(e)

\* The parts of one answer that did not fail were evaluated at blocks that
\* never go back, in the order of the calls, and none beyond the head: also
\* in an answer that another call put into the cache.  (They need not be the
\* same block: see the README.)
PartsInOrder(x) ==
  LET ran == {x.call, x.estimate, x.block, x.trace, x.alchemy}
      before(p, q) == p > 0 /\ q > 0 => p <= q
  IN  /\ \A b \in ran : b <= head
      /\ before(x.call, x.estimate) /\ before(x.estimate, x.block)
      /\ before(x.call, x.block)    /\ before(x.block, x.trace)
      /\ before(x.estimate, x.trace) /\ before(x.call, x.trace)
      /\ before(x.trace, x.alchemy) /\ before(x.block, x.alchemy)
      /\ before(x.estimate, x.alchemy) /\ before(x.call, x.alchemy)

LatestPartsAdvance ==
  \A c \in Call : ~Pinned(req[c]) => PartsInOrder(raw[c])

\* Asset changes come from Alchemy's estimate at the head only where the
\* trace showed no log and the call succeeded (fork.go:114-118): never for a
\* reply that reports a failure.
AlchemyIsLastResort ==
  \A c \in Call : raw[c].alchemy # NoAnswer =>
                    ~raw[c].logs /\ Success(req[c], raw[c])

(***************************************************************************)
(* The inductive invariant behind the two: every answer, in the making or  *)
(* in Redis, has both properties (the key of an entry stands for the       *)
(* request), what a call has not come to yet is empty, and Alchemy is only *)
(* asked where it is needed.                                               *)
(***************************************************************************)
AnswerOK(r, x) ==
  /\ ~Pinned(r) => PartsInOrder(x)
  /\ x.alchemy # NoAnswer => ~x.logs /\ Success(r, x)

NotYet(c) ==
  /\ pc[c] \in {"get", "eth_call"} => raw[c].call = NoAnswer
  /\ pc[c] \in {"get", "eth_call", "estimate"} => raw[c].estimate = NoAnswer
  /\ pc[c] \in {"get", "eth_call", "estimate", "header"} => raw[c].block = 0
  /\ pc[c] \in {"get"} \cup ForkStep =>
       /\ pc[c] # "alchemy" => raw[c].trace = NoAnswer
       /\ raw[c].alchemy = NoAnswer

ReplyInv ==
  /\ TypeOK
  /\ \A c \in Call : /\ AnswerOK(req[c], raw[c])
                     /\ NotYet(c)
                     /\ pc[c] = "alchemy" => NeedsAlchemy(c, raw[c].logs)
  /\ \A e \in redis : AnswerOK(e.key, e.raw)

(***************************************************************************)
(* The decorator implements the memoised fork: a hit replays an answer     *)
(* that was given to the same question and has not outlived its lifetime   *)
(* (config.go:69-73: for ever, and 15 seconds for the latest block); every *)
(* other answer is the call's own.                                         *)
(***************************************************************************)
Question(r) == [block |-> r.block, tx |-> r.tx]
MemoLifetime(q) ==
  Duration(IF q.block = Latest THEN PendingTTLSecs ELSE FinalizedTTLSecs)
MemoAdmissible(q, x) == x \in RawSimResult /\ AtBlock(q.block, x)

Status(c) ==
  CASE pc[c] = "get"   -> "asking"
    [] pc[c] \in Ended -> pc[c]
    [] OTHER           -> "running"

Shown(c) == IF pc[c] = "done" THEN raw[c] ELSE NoResult(req[c])

Remembered(e) ==
  [question |-> e.key, answer |-> e.raw, age |-> MemoLifetime(e.key) - e.left]

Memo == INSTANCE MemoisedFork WITH
  Lifetime   <- MemoLifetime,
  Admissible <- MemoAdmissible,
  asked  <- [c \in Call |-> Question(req[c])],
  status <- [c \in Call |-> Status(c)],
  answer <- [c \in Call |-> Shown(c)],
  memo   <- {Remembered(e) : e \in redis}

\* Everything SimulationUseCase sees of the decorator is a step of the memoised
\* fork or no step at all (simulation_cache.go:49-80).
Memoised == Memo!Spec

\* Every simulation that is begun ends, whatever the node and Redis do.
EveryCallEnds == \A c \in Call : <>(pc[c] \in Ended)

-----------------------------------------------------------------------------
(***************************************************************************)
(* What simulation_cache.go:17 says of the cache, "Same chainID +          *)
(* blockNumber + tx params -> same result", and the code does not do.      *)
(***************************************************************************)

\* The same block and transaction have the same result: what the cache holds
\* for a pinned block is the outcome of executing it there, whichever attempt
\* put it there (fork.go:92, 129: an RPC error, a timeout and a revert are all
\* one callErr).
CachedResultIsTheChains ==
  \A e \in redis : e.key.block # Latest => e.raw.call = e.key.block

\* A caller is answered for the gas limit of his own request
\* (entity/simulation.go:15; cacheKey leaves it out).
GasLimitIsHonoured ==
  \A c \in Call : pc[c] = "done" => raw[c].gas = GasLimit(req[c])
=============================================================================
