-------------------------------- MODULE Evm --------------------------------
(***************************************************************************)
(* The node's EVM while it executes the simulated transaction, and what    *)
(* debug_traceCall (callTracer, withLog) records of it: external to this   *)
(* program, modelled as far as tracer.go and token_decoder.go read it.     *)
(*                                                                         *)
(* journal is what the execution really did, in order; a frame that        *)
(* reverts takes back whatever it and the frames under it have done.       *)
(***************************************************************************)
EXTENDS Integers, Sequences, FiniteSets, SequencesExt

CONSTANTS
  Sender,         \* req.From
  Coin,           \* ERC-20 contracts
  Contract,       \* all contracts; those that are no Coin issue NFTs
  TxValue,        \* amounts of wei, of the transaction itself
  Value,          \* and of calls inside it
  TransferAmount, \* amounts of coins
  ApproveAmount,
  MaxSteps        \* bound: frames and their events

Addr == {Sender} \cup Contract

ASSUME EvmAssumption ==
  /\ Coin \subseteq Contract /\ Sender \notin Contract
  /\ TxValue \subseteq Nat /\ Value \subseteq Nat /\ TransferAmount \subseteq Nat
  /\ ApproveAmount \subseteq Nat
  /\ MaxSteps \in Nat

VARIABLES
  frames,   \* traceFrames, in the order in which they were entered
  open,     \* those that are running, outermost first
  journal   \* what has happened and has not been taken back

evmVars == <<frames, open, journal>>

\* caller is the index of the frame around it, 0 for the root; error says that
\* the frame failed; logs are its own.
Frame(type, from, to, v) ==
  [type |-> type, from |-> from, to |-> to, value |-> v, error |-> FALSE,
   logs |-> <<>>,
   caller |-> IF open = <<>> THEN 0 ELSE Last(open).frame]

\* A running frame: whose storage and balance it works on, and the length of
\* the journal when it began.
Running(self) ==
  [frame |-> Len(frames) + 1, self |-> self, mark |-> Len(journal)]

Event(kind, contract, from, to, n) ==
  [kind |-> kind, contract |-> contract, from |-> from, to |-> to, amount |-> n]

Self    == Last(open).self
Current == Last(open).frame
Steps   == FoldLeft(LAMBDA n, f : n + 1 + Len(f.logs), 0, frames)

Moved(from, to, v) ==
  IF v = 0 THEN <<>> ELSE <<Event("native", from, from, to, v)>>

Enter(f, self) ==
  /\ Steps < MaxSteps
  /\ frames' = Append(frames, f)
  /\ open' = Append(open, Running(self))

\* The transaction itself.
Begin(to, v) ==
  /\ frames = <<>>
  /\ Enter(Frame("CALL", Sender, to, v), to)
  /\ journal' = journal \o Moved(Sender, to, v)

\* Code runs; an account without code only returns.
Runs == open # <<>> /\ Self \in Contract

Call(to, v) ==
  /\ Runs
  /\ Enter(Frame("CALL", Self, to, v), to)
  /\ journal' = journal \o Moved(Self, to, v)

\* Runs the code of to on the caller's own account: nothing is moved, and the
\* tracer reports the value of the frame around it once more.
DelegateCall(to) ==
  /\ Runs
  /\ Enter(Frame("DELEGATECALL", Self, to, frames[Current].value), Self)
  /\ UNCHANGED journal

Leave == open' = Front(open)

\* The balance v goes to the heir; the tracer shows it as a frame.
SelfDestruct(to, v) ==
  /\ Runs /\ to # Self
  /\ Steps < MaxSteps
  /\ frames' = Append(frames, Frame("SELFDESTRUCT", Self, to, v))
  /\ journal' = journal \o Moved(Self, to, v)
  /\ Leave

Emit(e) ==
  /\ Steps < MaxSteps
  /\ frames' = [frames EXCEPT ![Current].logs = Append(@, e)]
  /\ journal' = Append(journal, e)
  /\ UNCHANGED open

\* Events of the contract that runs.  "transfer", "nft": Transfer, for an NFT
\* with a fourth topic and no data; "approve": Approval; "operator":
\* ApprovalForAll, 1 for true and 0 for false.
EmitOfCoin ==
  /\ Runs /\ Self \in Coin
  /\ \E a, b \in Addr \ {Self} :
       /\ a # b
       /\ \/ \E n \in TransferAmount : Emit(Event("transfer", Self, a, b, n))
          \/ \E n \in ApproveAmount :
               a = Sender /\ Emit(Event("approve", Self, a, b, n))

EmitOfNft ==
  /\ Runs /\ Self \notin Coin
  /\ \/ Emit(Event("nft", Self, Self, Sender, 0))
     \/ \E operator \in Contract \ {Self}, yes \in {0, 1} :
          Emit(Event("operator", Self, Sender, operator, yes))

Return ==
  /\ open # <<>>
  /\ Leave
  /\ UNCHANGED <<frames, journal>>

\* The frame fails.  The tracer keeps all frames, marks this one, and drops
\* the logs of this one and of those under it.
Revert ==
  /\ Runs
  /\ frames' = [i \in DOMAIN frames |->
                  IF i < Current THEN frames[i]
                  ELSE [frames[i] EXCEPT !.logs = <<>>,
                                         !.error = @ \/ i = Current]]
  /\ journal' = SubSeq(journal, 1, Last(open).mark)
  /\ Leave

EvmInit == frames = <<>> /\ open = <<>> /\ journal = <<>>

Execute ==
  \/ \E to \in Contract, v \in TxValue : Begin(to, v)
  \/ \E to \in Addr, v \in Value : Call(to, v)
  \/ \E to \in Contract : DelegateCall(to)
  \/ \E to \in Addr, v \in Value : SelfDestruct(to, v)
  \/ EmitOfCoin \/ EmitOfNft
  \/ Return \/ Revert

Executed == frames # <<>> /\ open = <<>>

----------------------------------------------------------------------------
\* What an execution comes to, read off the journal.
Happened(kind) == {i \in DOMAIN journal : journal[i].kind = kind}

\* By how much an event changes the balance of a.
Net(e, a) == (IF e.to = a THEN e.amount ELSE 0) - (IF e.from = a THEN e.amount ELSE 0)

\* By how much the balance of a grows: kind and contract say of what.
NetOf(kind, contract, a) ==
  LET of == {i \in Happened(kind) : kind = "native" \/ journal[i].contract = contract}
  IN  SumFunctionOnSet([i \in of |-> Net(journal[i], a)], of)

\* The frames that run while frame i does: those entered after it, up to the first
\* one that a frame around it calls.
InsideOf(i) ==
  {j \in DOMAIN frames : j > i /\ \A k \in (i + 1)..j : frames[k].caller >= i}

----------------------------------------------------------------------------
\* The trees, stacks and journals that an execution builds.
EventRec ==
  [kind : {"native", "transfer", "approve", "nft", "operator"},
   contract : Addr, from : Addr, to : Addr, amount : Nat]

FrameRec ==
  [type : {"CALL", "DELEGATECALL", "SELFDESTRUCT"}, from : Addr, to : Addr,
   value : Nat, error : BOOLEAN, logs : Seq(EventRec), caller : Nat]

EvmTypeOK ==
  /\ frames \in Seq(FrameRec)
  /\ open \in Seq([frame : Nat, self : Addr, mark : Nat])
  /\ journal \in Seq(EventRec)

\* A frame is entered after the one around it; those that run have begun in
\* their order on the stack.
StackInv ==
  /\ \A i \in DOMAIN frames : frames[i].caller < i
  /\ \A m \in DOMAIN open :
       /\ open[m].frame \in DOMAIN frames
       /\ open[m].mark <= Len(journal)
       /\ \A n \in 1..(m - 1) : /\ open[n].frame < open[m].frame
                                /\ open[n].mark <= open[m].mark

\* Entry i of the journal and frame k began on the same side of each frame that
\* still runs: its revert takes both or neither.
SameSide(i, k) ==
  \A m \in DOMAIN open : i <= open[m].mark <=> k < open[m].frame

\* What contracts have emitted and nothing has taken back is in the logs of a
\* frame, and no log of any frame has been taken back.
LogsAreJournal ==
  /\ \A i \in DOMAIN journal :
       journal[i].kind # "native" =>
         \E k \in DOMAIN frames : /\ SameSide(i, k)
                                  /\ \E l \in DOMAIN frames[k].logs :
                                       frames[k].logs[l] = journal[i]
  /\ \A k \in DOMAIN frames : \A l \in DOMAIN frames[k].logs :
       /\ frames[k].logs[l].kind # "native"
       /\ \E i \in DOMAIN journal : /\ SameSide(i, k)
                                    /\ journal[i] = frames[k].logs[l]

EvmInv == EvmTypeOK /\ StackInv /\ LogsAreJournal
=============================================================================
