---------------------------- MODULE ArchiveFork ----------------------------
(***************************************************************************)
(* ArchiveNodeFork.Simulate (internal/repo/evm/fork.go) with the two RPC   *)
(* wrappers of CallTracer (internal/repo/evm/tracer.go): one simulation is *)
(* up to five calls on a node whose chain grows meanwhile.                 *)
(*                                                                         *)
(* What a call answers is abstracted to WHERE it was evaluated: each part  *)
(* of a RawSimResult is the number of the block whose state produced it,   *)
(* or NoAnswer where the call gave an error instead.  Equal block numbers  *)
(* stand for equal answers, because the EVM is deterministic.              *)
(***************************************************************************)
EXTENDS Integers

CONSTANTS
  Call,         \* simulations in flight: one goroutine each
  Tx,           \* chain id, from, to, value, gas price, calldata, overrides
  Undecodable,  \* the Tx whose calldata is not hex
  Request,      \* the entity.SimulationRequests the callers may send
  MaxGas,       \* cfg.EVM.MaxGasLimit
  Reverting,    \* <<tx, gas limit, block>>: executions that the EVM reverts
  MaxHead       \* bound: the last block mined

Latest   == -1      \* a nil BlockNumber
NoAnswer == -2      \* err # nil, whatever the reason
Block    == Nat

ASSUME RequestAssumption ==
  \A r \in Request : r \in [block : Block \cup {Latest}, gas : Nat, tx : Tx]

ASSUME NodeAssumption == MaxGas \in Nat /\ MaxHead \in Nat

VARIABLES
  head,   \* the node's latest block
  req,    \* [Call -> Request]
  pc,     \* [Call -> Step]
  raw,    \* [Call -> RawSimResult], filled in as the calls return
  ctx     \* [Call -> Context]

forkVars == <<head, req, pc, raw, ctx>>

ForkStep == {"eth_call", "estimate", "header", "trace", "alchemy"}
Ended    == {"done", "failed"}
Step     == ForkStep \cup Ended \cup {"get", "set"}

\* "expired": the fork's own timeout is over; "cancelled": the caller has gone.
Context == {"live", "expired", "cancelled"}

Answer == Block \cup {NoAnswer}

(***************************************************************************)
(* RawSimResult.  gas is the limit the message carried; call, estimate,    *)
(* trace and alchemy say where eth_call, eth_estimateGas, debug_traceCall  *)
(* and alchemy_simulateAssetChanges ran; block is the number reported to   *)
(* the caller, 0 also where the header could not be read; logs is TRUE     *)
(* where the trace carried some.                                           *)
(***************************************************************************)
RawSimResult ==
  [gas : Nat, call : Answer, estimate : Answer, block : Nat,
   trace : Answer, logs : BOOLEAN, alchemy : Answer]

GasLimit(r) == IF r.gas = 0 THEN MaxGas ELSE r.gas

NoResult(r) ==
  [gas |-> GasLimit(r), call |-> NoAnswer, estimate |-> NoAnswer, block |-> 0,
   trace |-> NoAnswer, logs |-> FALSE, alchemy |-> NoAnswer]

Pinned(r) == r.block # Latest

Reverts(r, g, b) == <<r.tx, g, b>> \in Reverting

\* raw.Success: callErr = nil, so a revert and a lost call look the same.
Success(r, x) == x.call # NoAnswer /\ ~Reverts(r, x.gas, x.call)

----------------------------------------------------------------------------
\* Bug: the client is not given the context, and waits for ever.
NodeHangs(c, b) == {a \in {NoAnswer, b} : ctx[c] = "live"}

(***************************************************************************)
(* The node.  A call for block b can be answered while its context lives   *)
(* and b exists; any call may instead come back with an error.             *)
(***************************************************************************)
NodeAnswers(c, b) ==
  {NoAnswer} \cup {a \in {b} : ctx[c] = "live" /\ b \in 0..head}

\* blockNum, or the head of the moment for nil.
Target(c) == IF Pinned(req[c]) THEN req[c].block ELSE head

Goto(c, step) == pc' = [pc EXCEPT ![c] = step]

\* client.CallContract(ctx, msg, blockNum)
EthCall(c) ==
  /\ pc[c] = "eth_call"
  /\ \E b \in NodeAnswers(c, Target(c)) : raw' = [raw EXCEPT ![c].call = b]
  /\ Goto(c, "estimate")
  /\ UNCHANGED <<head, req, ctx>>

\* client.EstimateGas(ctx, msg): takes no block, and fails where the
\* transaction reverts; the error is dropped and gasUsed stays 0.
EstimateGas(c) ==
  /\ pc[c] = "estimate"
  /\ \E b \in NodeAnswers(c, head) :
       raw' = [raw EXCEPT ![c].estimate =
                 IF Reverts(req[c], raw[c].gas, b) THEN NoAnswer ELSE b]
  /\ Goto(c, "header")
  /\ UNCHANGED <<head, req, ctx>>

\* Bug: reports a pinned block as if the caller had asked for the latest.
ResolveBlockAlwaysHead(c) ==
  /\ pc[c] = "header"
  /\ \E b \in NodeAnswers(c, head) :
       raw' = [raw EXCEPT ![c].block = IF b = NoAnswer THEN 0 ELSE b]
  /\ Goto(c, "trace")
  /\ UNCHANGED <<head, req, ctx>>

\* blockNum.Uint64(), or client.HeaderByNumber(ctx, nil)
ResolveBlock(c) ==
  /\ pc[c] = "header"
  /\ \/ /\ Pinned(req[c])
        /\ raw' = [raw EXCEPT ![c].block = req[c].block]
     \/ /\ ~Pinned(req[c])
        /\ \E b \in NodeAnswers(c, head) :
             raw' = [raw EXCEPT ![c].block = IF b = NoAnswer THEN 0 ELSE b]
  /\ Goto(c, "trace")
  /\ UNCHANGED <<head, req, ctx>>

\* Bug: falls back whenever the trace has no logs, after a failed call too.
SilentTrace(c, logs) == ~logs

\* len(traceResult.Logs) == 0 && callErr == nil
NeedsAlchemy(c, logs) == ~logs /\ Success(req[c], raw[c])

\* Bug: traces at the parent of the block that was called.
TraceCallAtParent(c) ==
  /\ pc[c] = "trace"
  /\ \E b \in NodeAnswers(c, Target(c) - 1), l \in BOOLEAN :
       raw' = [raw EXCEPT ![c].trace = b, ![c].logs = l /\ b # NoAnswer]
  /\ Goto(c, "set")
  /\ UNCHANGED <<head, req, ctx>>

\* CallTracer.TraceCall: a failed call leaves frame and logs empty, and a
\* reverted transaction has a frame and no logs.
TraceCall(c) ==
  /\ pc[c] = "trace"
  /\ \E b \in NodeAnswers(c, Target(c)), l \in BOOLEAN :
       /\ l => b # NoAnswer /\ ~Reverts(req[c], raw[c].gas, b)
       /\ raw' = [raw EXCEPT ![c].trace = b, ![c].logs = l]
       /\ Goto(c, IF NeedsAlchemy(c, l) THEN "alchemy" ELSE "set")
  /\ UNCHANGED <<head, req, ctx>>

\* CallTracer.AlchemySimulate: always at the head.  NoAnswer also stands for
\* an empty list of changes.
AlchemySimulate(c) ==
  /\ pc[c] = "alchemy"
  /\ \E b \in NodeAnswers(c, head) : raw' = [raw EXCEPT ![c].alchemy = b]
  /\ Goto(c, "set")
  /\ UNCHANGED <<head, req, ctx>>

Simulate(c) ==
  EthCall(c) \/ EstimateGas(c) \/ ResolveBlock(c) \/ TraceCall(c)
             \/ AlchemySimulate(c)

\* context.WithTimeout(ctx, f.timeout): every later call of this simulation
\* on the node fails at once.
Expire(c) ==
  /\ pc[c] \in ForkStep
  /\ ctx[c] = "live"
  /\ ctx' = [ctx EXCEPT ![c] = "expired"]
  /\ UNCHANGED <<head, req, pc, raw>>

\* The HTTP client goes away and net/http cancels the request's context.
HangUp(c) ==
  /\ pc[c] \notin Ended
  /\ ctx[c] # "cancelled"
  /\ ctx' = [ctx EXCEPT ![c] = "cancelled"]
  /\ UNCHANGED <<head, req, pc, raw>>

\* The chain grows by a block.
Mine ==
  /\ head < MaxHead
  /\ head' = head + 1
  /\ UNCHANGED <<req, pc, raw, ctx>>

ForkInit ==
  /\ head = 1
  /\ req \in [Call -> Request]
  /\ pc = [c \in Call |-> "get"]
  /\ raw = [c \in Call |-> NoResult(req[c])]
  /\ ctx = [c \in Call |-> "live"]

ForkTypeOK ==
  /\ head \in Block
  /\ req \in [Call -> Request]
  /\ pc \in [Call -> Step]
  /\ raw \in [Call -> RawSimResult]
  /\ ctx \in [Call -> Context]
=============================================================================
