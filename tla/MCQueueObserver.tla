--------------------------- MODULE MCQueueObserver ---------------------------
(***************************************************************************)
(* The ring of four slots with a thread that calls full().                  *)
(***************************************************************************)
EXTENDS QueueObserver
==============================================================================
