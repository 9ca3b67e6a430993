----------------------------- MODULE MCSimCache -----------------------------
(***************************************************************************)
(* Instances of SimCache: one transaction that reverts under a gas limit   *)
(* of 1, and at block 2 under any limit; a second one that is not hex.     *)
(***************************************************************************)
EXTENDS SimCache, TLC

CONSTANTS transfer, garbled

MCTx          == {transfer, garbled}
MCUndecodable == {garbled}
MCReverting   == {<<transfer, 1, 1>>} \cup ({transfer} \X {1, 2} \X {2})

Ask(b, g, t) == [block |-> b, gas |-> g, tx |-> t]

\* Pinned to block 1 and to a block that may not exist yet, and latest.
MCRequest ==
  {Ask(1, 0, transfer), Ask(2, 0, transfer), Ask(Latest, 0, transfer),
   Ask(1, 0, garbled)}

\* The same call under two gas limits.
GasRequest == {Ask(1, 0, transfer), Ask(1, 1, transfer)}

\* A block that exists, under one gas limit.
PinnedRequest == {Ask(1, 0, transfer)}
=============================================================================
