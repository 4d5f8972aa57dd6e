------------------------------ MODULE MCEventLog ------------------------------
(***************************************************************************)
(* Two orders that can be entered once each and cancelled while they rest,  *)
(* so that a log with a gap may be refused on replay; the queue is shorter  *)
(* than the history, so that it fills.                                      *)
(***************************************************************************)
EXTENDS EventLog

CONSTANT Orders

Commands == [kind : {"new", "cancel"}, id : Orders]

\* A new order needs a fresh identifier, a cancel one that rests.
BookAccepts(history, c) ==
    LET kinds == {history[i].kind : i \in {j \in DOMAIN history : history[j].id = c.id}}
    IN  IF c.kind = "new" THEN kinds = {} ELSE kinds = {"new"}
==============================================================================
