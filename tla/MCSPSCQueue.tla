----------------------------- MODULE MCSPSCQueue -----------------------------
(***************************************************************************)
(* The ring on a small instance.  Four slots and indices modulo 8 let each  *)
(* cached index lag by up to the whole ring and let the indices wrap at     *)
(* every phase of a call; because they wrap, the state space is finite with *)
(* no bound on the number of items.                                         *)
(***************************************************************************)
EXTENDS SPSCQueue
==============================================================================
