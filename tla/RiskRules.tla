----------------------------- MODULE RiskRules ------------------------------
(***************************************************************************)
(* DefaultRiskAnalyzer (internal/usecase/risk_analyzer.go): the rules that *)
(* flag a simulation, and the level that the flags come to                 *)
(* (deriveRiskLevel, internal/repo/simulation_postgres.go).                *)
(***************************************************************************)
EXTENDS Integers, Sequences, FiniteSets

CONSTANTS
  MaxUint256,         \* an approval without a limit
  HighNativeThreshold \* wei that are a high transfer

ASSUME RiskAssumption == MaxUint256 \in Nat /\ HighNativeThreshold \in Nat \ {0}

\* entity.RiskFlag: about is the address in its context.
Flag(code, severity, about) == [code |-> code, severity |-> severity, about |-> about]

UnlimitedApproval(severity, c) == Flag("UNLIMITED_APPROVAL", severity, c.address)

Erc20(changes) == {c \in changes : c.type = "erc20"}

CheckUnlimitedApprovals(changes) ==
  {UnlimitedApproval("critical", c) :
     c \in {d \in Erc20(changes) : d.raw = MaxUint256}}

\* Bug: much is as grave as no limit.
CheckAlchemyApprovalsMuch(alchemyChanges) ==
  {UnlimitedApproval("critical", c) :
     c \in {d \in Erc20(alchemyChanges) :
             d.decimals > 0 /\ d.raw >= 10^(d.decimals + 6)}}

\* A million whole coins: a warning, for movements as for approvals.
CheckAlchemyApprovals(alchemyChanges) ==
  CheckUnlimitedApprovals(alchemyChanges)
    \cup {UnlimitedApproval("warning", c) :
            c \in {d \in Erc20(alchemyChanges) :
                     /\ d.raw # MaxUint256
                     /\ d.decimals > 0
                     /\ d.raw >= 10^(d.decimals + 6)}}

\* ApprovalForAll, whether it grants or takes back.
CheckNFTApprovals(logs) ==
  {Flag("SET_APPROVAL_FOR_ALL", "critical", logs[i].contract) :
     i \in {j \in DOMAIN logs : logs[j].kind = "operator"}}

\* Bug: what the sender loses is negative, and no sign is taken away.
CheckHighNativeTransferSigned(from, changes) ==
  {Flag("HIGH_NATIVE_TRANSFER", "warning", from) :
     c \in {d \in changes : /\ d.type = "native" /\ d.address = from
                            /\ d.raw >= HighNativeThreshold}}

\* In both directions, each change by itself.
CheckHighNativeTransfer(from, changes) ==
  {Flag("HIGH_NATIVE_TRANSFER", "warning", from) :
     c \in {d \in changes : /\ d.type = "native" /\ d.address = from
                            /\ d.raw >= HighNativeThreshold
                                 \/ -d.raw >= HighNativeThreshold}}

OfType(frames, type) == {i \in DOMAIN frames : frames[i].type = type}

CheckDelegatecall(frames) ==
  {Flag("UNEXPECTED_DELEGATECALL", "warning", frames[i].to) :
     i \in OfType(frames, "DELEGATECALL")}

\* Bug: only calls that one contract makes twice are counted.
CheckReentrancySiblings(frames) ==
  {Flag("REENTRANCY_PATTERN", "warning", frames[i].to) :
     i \in {j \in DOMAIN frames :
              \E k \in DOMAIN frames \ {j} : /\ frames[k].to = frames[j].to
                                             /\ frames[k].caller = frames[j].caller}}

\* Every address that is the target of two frames, wherever they are.
CheckReentrancy(frames) ==
  {Flag("REENTRANCY_PATTERN", "warning", frames[i].to) :
     i \in {j \in DOMAIN frames :
              \E k \in DOMAIN frames \ {j} : frames[k].to = frames[j].to}}

CheckSelfdestruct(frames) ==
  {Flag("SELFDESTRUCT", "critical", frames[i].from) :
     i \in OfType(frames, "SELFDESTRUCT")}

Analyze(from, raw, changes) ==
  CheckUnlimitedApprovals(changes)
    \cup CheckNFTApprovals(raw.logs)
    \cup CheckAlchemyApprovals(raw.alchemyChanges)
    \cup CheckHighNativeTransfer(from, changes)
    \cup CheckDelegatecall(raw.callTrace)
    \cup CheckReentrancy(raw.callTrace)
    \cup CheckSelfdestruct(raw.callTrace)

\* Bug: the first flag decides, and the warnings come first.
DeriveRiskLevelFirst(flags) ==
  LET severities == {f.severity : f \in flags}
  IN  CASE "warning" \in severities  -> "warning"
        [] severities = {"critical"} -> "critical"
        [] OTHER                     -> "none"

DeriveRiskLevel(flags) ==
  LET severities == {f.severity : f \in flags}
  IN  CASE "critical" \in severities -> "critical"
        [] severities = {"warning"}  -> "warning"
        [] OTHER                     -> "none"
=============================================================================
