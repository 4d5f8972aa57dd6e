--------------------------- MODULE MCMatchingEngine ---------------------------
(***************************************************************************)
(* Two sessions and three orders of one or two units at two prices: one     *)
(* command can trade with two resting orders, of either session, partly or  *)
(* wholly, and be replaced or cancelled by the other session afterwards.    *)
(***************************************************************************)
EXTENDS MatchingEngine, TLC

\* Neither sessions nor orders are told apart by what they are called.
Symmetry == Permutations(Session) \cup Permutations(OrderId)
==============================================================================
