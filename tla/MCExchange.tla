------------------------------ MODULE MCExchange ------------------------------
(***************************************************************************)
(* Two connections, with one command each or with two for the first.  The  *)
(* queues hold one or two messages, fewer than the three responses a        *)
(* command may have: both fill up.                                          *)
(***************************************************************************)
EXTENDS Exchange

TwoAndOne == <<2, 1>>
OneEach == <<1, 1>>
==============================================================================
