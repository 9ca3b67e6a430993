---------------------------- MODULE MCTokenCache ----------------------------
(***************************************************************************)
(* Instances of TokenCache: a token of 6 decimals, and one without a name  *)
(* that returns a number of decimals which does not fit into a byte.       *)
(***************************************************************************)
EXTENDS TokenCache, TLC

CONSTANTS c1, c2, usdc, odd

MCSymbol   == usdc :> "USDC" @@ odd :> "UNKNOWN"
MCDecimals == usdc :> 6 @@ odd :> 258

\* Two transfers of any two tokens, or one beside a swap.
Pairs   == {<<{usdc}, {usdc}>>, <<{usdc}, {odd}>>, <<{odd}, {usdc, odd}>>}
MCMoves == {c1 :> p[1] @@ c2 :> p[2] : p \in Pairs}

\* Transfers of the same token.
SameMoves == {c1 :> {usdc} @@ c2 :> {usdc}}
=============================================================================
