----------------------------- MODULE MCMarketData -----------------------------
(***************************************************************************)
(* The pipeline with a queue of three events, a snapshot after two updates, *)
(* and fewer feed sequences than commands, so that the queue fills, events  *)
(* are dropped in each phase of the snapshot cycle and the sequences run    *)
(* out.                                                                     *)
(***************************************************************************)
EXTENDS MarketData
==============================================================================
