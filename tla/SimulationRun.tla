--------------------------- MODULE SimulationRun ----------------------------
(***************************************************************************)
(* SimulationUseCase.Run (internal/usecase/simulation.go) on what a node   *)
(* tells of one execution: the transaction is executed (Evm), reported as  *)
(* far as the node's plan goes (tracer.go, fork.go), made into asset       *)
(* changes (AssetChanges) and flagged (RiskRules).                         *)
(*                                                                         *)
(* All calls on the node see one execution here; how they come apart is    *)
(* the subject of ArchiveFork, and what token lookups do of TokenCache.    *)
(***************************************************************************)
EXTENDS Evm, AssetChanges, RiskRules

VARIABLES
  raw,    \* RawSimResult
  result  \* of SimulationResult: changes, flags and the level of its row

vars == <<evmVars, raw, result>>

None == [none |-> TRUE]

\* By plan of the node: debug_traceCall with logs, without them, or refused.
Tracing == {"logs", "frames", "none"}

TraceCall(tracing) ==
  [callTrace |-> IF tracing = "none" THEN <<>> ELSE frames,
   logs      |-> IF tracing = "logs" THEN CollectLogs(frames) ELSE <<>>]

\* What alchemy_simulateAssetChanges says of an event.
HumanOf(n, decimals) ==
  IF n % TenTo[decimals] = 0
  THEN [neg |-> FALSE, whole |-> n \div TenTo[decimals], frac |-> <<>>]
  ELSE FormatAmount(n, decimals)

Item(type, e, decimals) ==
  [assetType |-> type, from |-> e.from, to |-> e.to, rawAmount |-> e.amount,
   amount |-> HumanOf(e.amount, decimals), decimals |-> decimals,
   contractAddress |-> e.contract]

AlchemyItem(e) ==
  CASE e.kind = "native" -> Item("NATIVE", e, NativeDecimals)
    [] e.kind \in {"transfer", "approve"} -> Item("ERC20", e, CoinDecimals)
    [] e.kind = "nft" -> Item("ERC721", e, 0)

AlchemyItems ==
  [i \in {j \in DOMAIN journal : journal[j].kind # "operator"} |->
     AlchemyItem(journal[i])]

\* callErr is a revert of the transaction.  Alchemy is asked where it succeeds
\* and there are no logs, and has an answer where the node is Alchemy's.
Simulated(tracing, alchemy) ==
  LET traced  == TraceCall(tracing)
      success == ~frames[1].error
  IN  [success        |-> success,
       callTrace      |-> traced.callTrace,
       logs           |-> traced.logs,
       alchemyChanges |-> IF traced.logs = <<>> /\ success /\ alchemy
                          THEN ConvertAlchemyChanges(AlchemyItems)
                          ELSE {}]

AssetChangesOf(sim) ==
  IF sim.alchemyChanges # {} THEN sim.alchemyChanges
  ELSE Decode(sim.logs, sim.callTrace)

Run(tracing, alchemy) ==
  /\ Executed /\ raw = None
  /\ raw' = Simulated(tracing, alchemy)
  /\ LET flags == Analyze(Sender, raw', AssetChangesOf(raw'))
     IN  result' = [changes   |-> AssetChangesOf(raw'),
                    flags     |-> flags,
                    riskLevel |-> DeriveRiskLevel(flags)]
  /\ UNCHANGED evmVars

Init == EvmInit /\ raw = None /\ result = None

Next ==
  \/ raw = None /\ Execute /\ UNCHANGED <<raw, result>>
  \/ \E tracing \in Tracing, alchemy \in BOOLEAN : Run(tracing, alchemy)

Spec == Init /\ [][Next]_vars

-----------------------------------------------------------------------------
\* What an answer relies on.
Answered    == result # None
FromAlchemy == raw.alchemyChanges # {}
FromLogs    == raw.logs # <<>>
FromTrace   == ~FromAlchemy /\ raw.callTrace # <<>>

ShownOf(type, token, a) ==
  LET of == {c \in result.changes : c.type = type /\ c.token = token /\ c.address = a}
  IN  SumFunctionOnSet([c \in of |-> c.raw], of)

\* The events that contracts have emitted and no revert has taken back.
Events == {journal[i] : i \in {j \in DOMAIN journal : journal[j].kind # "native"}}

\* What a node may have told of the execution: no logs, or all that count and
\* no other; no call tree, or the whole; Alchemy's changes only of a transaction
\* that has not failed, beside no logs.
ToldOK ==
  /\ Executed
  /\ raw.logs # <<>> => {raw.logs[p] : p \in DOMAIN raw.logs} = Events
  /\ raw.callTrace \in {<<>>, frames}
  /\ raw.alchemyChanges \in {{}, ConvertAlchemyChanges(AlchemyItems)}
  /\ FromAlchemy => ~FromLogs /\ ~frames[1].error

\* An answer is about the execution as it has ended, however much of it the
\* node has told: its flags are those of what it shows, its level is theirs
\* (simulation.go:34-72, fork.go:105-145, simulation_postgres.go:36-60).
AnswerInv ==
  IF raw = None THEN result = None
  ELSE /\ ToldOK
       /\ result.changes = AssetChangesOf(raw)
       /\ result.flags = Analyze(Sender, raw, result.changes)
       /\ result.riskLevel = DeriveRiskLevel(result.flags)

RunInv == EvmInv /\ AnswerInv

NativeShown == \A a \in Addr : ShownOf("native", NoToken, a) = NetOf("native", NoToken, a)

\* All value that frames carry is moved once, and stays: none of them is a
\* DELEGATECALL, has failed or runs inside a frame that has.
PlainTree ==
  \A i \in Walk(frames) :
    /\ frames[i].type # "DELEGATECALL"
    /\ \A j \in DOMAIN frames : j = i \/ i \in InsideOf(j) => ~frames[j].error

\* The native changes of an answer are what the balances gain and lose: with
\* Alchemy's list always, with a call tree if it is plain, whatever calls what
\* and whichever way the value takes (token_decoder.go:160-200,
\* fork.go:152-166).
NativeIsBalanceChange ==
  Answered => (FromAlchemy \/ (FromTrace /\ PlainTree) => NativeShown)

\* For each address and coin, the erc20 changes of an answer add up to what
\* the address gains or loses and what it may spend by approvals, which
\* Alchemy's list also takes from the owner.  What a failed frame has emitted
\* counts nowhere, at any depth (token_decoder.go:66-153, fork.go:168-189).
CoinChangesAddUp ==
  Answered /\ (FromAlchemy \/ FromLogs) =>
    \A a \in Addr, coin \in Coin :
      LET given    == {i \in Happened("approve") :
                         journal[i].contract = coin /\ journal[i].to = a}
          approved == SumFunctionOnSet([i \in given |-> journal[i].amount], given)
      IN  ShownOf("erc20", coin, a) =
            NetOf("transfer", coin, a)
              + IF FromAlchemy THEN NetOf("approve", coin, a) ELSE approved

\* Reading a human amount, in the unit its change says, gives the raw amount
\* back: no digit is lost or moved.  An amount of Alchemy's list is in the coin's
\* own unit, beside the low byte of its decimals, and reads back where that byte
\* is all of them (token_decoder.go:267-287, fork.go:169-189,
\* asset_change.go:59-74).
ReadBack(h, decimals) ==
  LET digits == {i \in DOMAIN h.frac : h.frac[i] # 0}
      size   == h.whole * TenTo[decimals]
                  + SumFunctionOnSet([i \in digits |-> h.frac[i] * TenTo[decimals - i]],
                                     digits)
  IN  IF h.neg THEN -size ELSE size

HumanAmountsReadBack ==
  Answered /\ (FromAlchemy => CoinUnit = CoinDecimals) => \A c \in result.changes :
    c.type # "erc721" =>
      c.raw = ReadBack(c.human, IF c.type = "native" THEN NativeDecimals ELSE c.decimals)

-----------------------------------------------------------------------------
\* What is grave of what the transaction has done and no revert has taken back.
Unlimited  == {i \in Happened("approve") : journal[i].amount = MaxUint256}
Granted    == {i \in Happened("operator") : journal[i].amount = 1}
Destructed == {i \in DOMAIN frames : frames[i].type = "SELFDESTRUCT"}
Failed     == {i \in Destructed :
                 \E j \in DOMAIN frames : frames[j].error /\ i \in InsideOf(j)}

\* What an answer knows of it: an approval without limit, an operator of NFTs that
\* is granted, a contract that destructs itself where nothing around it fails.
Grave ==
  \/ Unlimited # {} /\ (FromAlchemy \/ FromLogs)
  \/ Granted # {} /\ FromLogs
  \/ Destructed \ Failed # {} /\ raw.callTrace # <<>>

\* An answer that knows of something grave is critical, beside whatever else
\* there is to warn of (risk_analyzer.go:47-136 and 200-213,
\* simulation_postgres.go:110-122).
GraveIsCritical == Answered /\ Grave => result.riskLevel = "critical"

\* Movements of a coin that come to MaxUint256 for somebody are taken for an
\* approval: the rule reads amounts only (risk_analyzer.go:47-67).
LooksUnlimited ==
  \E c \in result.changes, i \in Happened("transfer") \cup Happened("nft") :
    /\ c.type = "erc20" /\ c.raw = MaxUint256
    /\ c.token = journal[i].contract

\* The rules raise three false alarms: that one; ApprovalForAll(false), where
\* README.md:191 names setApprovalForAll(operator, true), since they do not look at
\* its data (risk_analyzer.go:119-136); and a SELFDESTRUCT frame that a failed frame
\* has taken back, since they do not look at errors (risk_analyzer.go:200-213).
FalseAlarm ==
  \/ LooksUnlimited
  \/ Happened("operator") \ Granted # {} /\ FromLogs
  \/ Failed # {} /\ raw.callTrace # <<>>

\* There is no other.  No level is critical for much or many of what is to be
\* warned of, nor for an event, of whatever kind, that a revert has taken back, nor
\* for what the node has not told (risk_analyzer.go:28-44, tracer.go:203-215).
CriticalHasReason ==
  Answered /\ result.riskLevel = "critical" => Grave \/ FalseAlarm

Flagged(code, about) == \E f \in result.flags : f.code = code /\ f.about = about

\* A contract that is entered again while it runs, through any number of other
\* contracts, is flagged wherever there is a call tree (risk_analyzer.go:181-198).
ReentryIsFlagged ==
  Answered /\ raw.callTrace # <<>> =>
    \A i \in DOMAIN frames : \A j \in InsideOf(i) :
      frames[j].to = frames[i].to => Flagged("REENTRANCY_PATTERN", frames[i].to)

Loss(i) == journal[i].from = Sender /\ journal[i].amount >= HighNativeThreshold

\* Alchemy's list shows every movement by itself: one that costs the sender the
\* threshold or more is enough (risk_analyzer.go:138-164, fork.go:152-166).
ItemLossIsFlagged ==
  Answered /\ FromAlchemy /\ (\E i \in Happened("native") : Loss(i)) =>
    Flagged("HIGH_NATIVE_TRANSFER", Sender)

\* A sender who loses the threshold or more, in however many frames, is warned
\* where the changes come from a plain call tree (risk_analyzer.go:138-164,
\* token_decoder.go:160-200).
HighLossIsFlagged ==
  LET high == -NetOf("native", NoToken, Sender) >= HighNativeThreshold
  IN  Answered /\ FromTrace /\ PlainTree /\ high =>
        Flagged("HIGH_NATIVE_TRANSFER", Sender)

-----------------------------------------------------------------------------
\* "walks the call tree summing ETH value transfers per address"
\* (token_decoder.go:159): native changes that come from a call tree are what
\* has been transferred.
NativeChangesAreTransfers == Answered /\ FromTrace => NativeShown
=============================================================================
