----------------------------- MODULE MCLifecycle ----------------------------
(***************************************************************************)
(* An instance of Lifecycle: two requests.  A unit is the longest that one *)
(* step outside the fork takes; a body may take as long as the whole of    *)
(* the margin, and so may Redis or the lookup with the two queries, so     *)
(* that an answer can be late for each of them and in time for all.        *)
(***************************************************************************)
EXTENDS Lifecycle

CONSTANTS r1, r2
=============================================================================
