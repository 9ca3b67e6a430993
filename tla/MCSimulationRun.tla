-------------------------- MODULE MCSimulationRun ---------------------------
(***************************************************************************)
(* An instance of SimulationRun: a user, a coin, and a pool that issues    *)
(* NFTs.  1 ETH is 100 wei; a coin has 100 units.                          *)
(***************************************************************************)
EXTENDS SimulationRun

CONSTANTS user, coin, pool

\* Two large transfers come to it.
MCMax == 2 * 10^8

\* Five hundredths of a coin, and a million coins.
MCTransfer == {5, 10^8}

\* Taking an approval back, a large one and one without limit.
MCApprove == {0, 10^8, MCMax}
=============================================================================
