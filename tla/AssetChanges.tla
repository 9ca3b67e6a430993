--------------------------- MODULE AssetChanges ----------------------------
(***************************************************************************)
(* What a simulation shows of the assets that move: Decode and             *)
(* extractNativeChanges of internal/repo/evm/token_decoder.go, collectLogs *)
(* of tracer.go, convertAlchemyChanges of fork.go.  Operators on a call    *)
(* tree (frames in the order they were entered) and on its events.         *)
(*                                                                         *)
(* Changes are a set, since Go iterates maps in any order; at tells apart  *)
(* those that agree in all else: the place of the log, or the item and its *)
(* side, that a change stands for, <<>> where it stands for a sum.         *)
(***************************************************************************)
EXTENDS Integers, Sequences, FiniteSets, SequencesExt, FiniteSetsExt

CONSTANTS
  NativeDecimals, \* 18
  CoinDecimals    \* what decimals() of every coin returns

ASSUME DecimalsAssumption == NativeDecimals \in Nat /\ CoinDecimals \in Nat

NoToken == "no_token"

\* uint8(...): a number of decimals is kept in a byte.
Uint8(n) == n % 256

\* What the token metadata says of every coin.
CoinUnit == Uint8(CoinDecimals)

Magnitude(n) == IF n < 0 THEN -n ELSE n

-----------------------------------------------------------------------------
(***************************************************************************)
(* Human amounts: a sign, a whole number and the digits after the point;   *)
(* frac is empty where there is no point.                                  *)
(***************************************************************************)
\* 10 to the n.
TenTo[n \in Nat] == IF n = 0 THEN 1 ELSE 10 * TenTo[n - 1]

Digits(n) ==
  LET width == CHOOSE k \in 1..(n + 1) :
                 n < TenTo[k] /\ (k = 1 \/ n >= TenTo[k - 1])
  IN  [i \in 1..width |-> (n \div TenTo[width - i]) % 10]

\* Bug: the fraction is not padded to its width.
Unpadded(digits, width) == digits

\* %0*s
Padded(digits, width) == [i \in 1..(width - Len(digits)) |-> 0] \o digits

TrimRight(digits) ==
  SubSeq(digits, 1, Max({0} \cup {i \in DOMAIN digits : digits[i] # 0}))

\* Always a point, with at least one digit after it.
NormaliseHumanAmount(h) ==
  IF h.frac = <<>> THEN [h EXCEPT !.frac = <<0>>] ELSE h

FormatAmount(n, decimals) ==
  LET size == Magnitude(n)
      human(frac) == [neg |-> n < 0, whole |-> size \div TenTo[decimals], frac |-> frac]
  IN  IF decimals = 0 THEN human(<<>>)
      ELSE NormaliseHumanAmount(
             human(TrimRight(Padded(Digits(size % TenTo[decimals]), decimals))))

-----------------------------------------------------------------------------
\* entity.AssetChange, without symbol and token id.
AssetChange(type, address, token, decimals, raw, human, at) ==
  [type |-> type, address |-> address, token |-> token, decimals |-> decimals,
   raw |-> raw, human |-> human, at |-> at]

\* A log is at place k among those of frame i.
Places(frames) == UNION {{i} \X DOMAIN frames[i].logs : i \in DOMAIN frames}

\* Bug: the frames under the root are not walked.
CollectLogsOfRoot(frames) ==
  [p \in {q \in Places(frames) : q[1] = 1} |-> frames[p[1]].logs[p[2]]]

\* The logs of every frame, by their place: nothing acts on their order.
CollectLogs(frames) == [p \in Places(frames) |-> frames[p[1]].logs[p[2]]]

\* An NFT's Transfer has the topic of a coin's, but no data: its amount is 0.
TransferLogs(logs) == {i \in DOMAIN logs : logs[i].kind \in {"transfer", "nft"}}

\* What entries i \in S of s bring to address a, and take from it: n[i] each.
Delta(s, S, n, a) ==
  SumFunctionOnSet([i \in S |-> (IF s[i].to = a THEN n[i] ELSE 0)
                                  - (IF s[i].from = a THEN n[i] ELSE 0)], S)

Parties(s, S) == {s[i].from : i \in S} \cup {s[i].to : i \in S}

\* Bug: only the side of the receiver is booked.
TokenDeltaOneSided(logs, a, token) ==
  LET of(i) == IF logs[i].to = a THEN logs[i].amount ELSE 0
  IN  MapThenSumSet(of, {i \in TransferLogs(logs) : logs[i].contract = token})

TokenDelta(logs, a, token) ==
  Delta(logs, {i \in TransferLogs(logs) : logs[i].contract = token},
        [i \in DOMAIN logs |-> logs[i].amount], a)

TokenChanges(logs) ==
  LET moves == TransferLogs(logs)
      keys  == Parties(logs, moves) \X {logs[i].contract : i \in moves}
  IN  {AssetChange("erc20", k[1], k[2], CoinUnit, TokenDelta(logs, k[1], k[2]),
                   FormatAmount(TokenDelta(logs, k[1], k[2]), CoinUnit), <<>>) :
         k \in {key \in keys : TokenDelta(logs, key[1], key[2]) # 0}}

\* An approval is shown as a change of its spender, in base units.
ApprovalChanges(logs) ==
  {AssetChange("erc20", logs[i].to, logs[i].contract, 0, logs[i].amount,
               NormaliseHumanAmount(FormatAmount(logs[i].amount, 0)), i) :
     i \in {j \in DOMAIN logs : logs[j].kind = "approve"}}

\* Bug: only the calls that the transaction makes itself are walked.
WalkOneLevel(frames) == {i \in DOMAIN frames : frames[i].caller \in {0, 1}}

\* The frames that walk finds a value in: of any type, failed or not.
Walk(frames) == {i \in DOMAIN frames : frames[i].value > 0}

ExtractNativeChanges(frames) ==
  LET delta(a) == Delta(frames, Walk(frames), [i \in DOMAIN frames |-> frames[i].value], a)
  IN  {AssetChange("native", a, NoToken, 0, delta(a),
                   FormatAmount(delta(a), NativeDecimals), <<>>) :
         a \in {p \in Parties(frames, Walk(frames)) : delta(p) # 0}}

Decode(logs, frames) ==
  ExtractNativeChanges(frames) \cup ApprovalChanges(logs) \cup TokenChanges(logs)

-----------------------------------------------------------------------------
\* Alchemy's items: what assetType says they are, who gives, who gets, how much.
Negated(h) == [h EXCEPT !.neg = TRUE]

\* An outflow and an inflow, whatever changeType says.  The amounts are Alchemy's,
\* in the unit that it has found.
BothSides(item, type, token, decimals, at) ==
  {AssetChange(type, item.from, token, decimals, -item.rawAmount,
               NormaliseHumanAmount(Negated(item.amount)), <<at, 1>>),
   AssetChange(type, item.to, token, decimals, item.rawAmount,
               NormaliseHumanAmount(item.amount), <<at, 2>>)}

ConvertAlchemyChange(item, at) ==
  CASE item.assetType = "NATIVE" -> BothSides(item, "native", NoToken, 0, at)
    [] item.assetType = "ERC20"  ->
         BothSides(item, "erc20", item.contractAddress, Uint8(item.decimals), at)
    [] item.assetType = "ERC721" ->
         {AssetChange("erc721", item.to, item.contractAddress, 0, 1,
                      [neg |-> FALSE, whole |-> 1, frac |-> <<0>>], <<at, 2>>)}
    [] OTHER -> {}

ConvertAlchemyChanges(items) ==
  UNION {ConvertAlchemyChange(items[i], i) : i \in DOMAIN items}
=============================================================================
