---------------------------- MODULE ReferenceBook ----------------------------
(***************************************************************************)
(* The naive order book the differential tests use as an oracle            *)
(* (tests/reference_order_book.hpp): a flat collection of resting orders    *)
(* from which matching picks the best price and, at one price, the lowest   *)
(* sequence number.  It is the abstract specification of OrderBook.         *)
(*                                                                         *)
(* Commands carry the number of their arrival as sequence, as one session   *)
(* of the gateway sends them.  Matching takes one step per execution.       *)
(***************************************************************************)
EXTENDS OrderTypes

CONSTANT MaxCommands   \* bound on the number of commands

VARIABLES book,        \* the resting orders
          seen,        \* every identifier ever accepted
          arrivals,    \* number of commands so far
          incoming,    \* the order being matched, or NoIncoming
          executions,  \* trades of the current (or last) command
          result       \* outcome of the last command

vars == <<book, seen, arrivals, incoming, executions, result>>

Init == /\ book = {} /\ seen = {} /\ arrivals = 0
        /\ incoming = NoIncoming /\ executions = <<>>
        /\ result = Result("none", 0)

Idle == incoming = NoIncoming

\* A command arrives.
Arrive == /\ Idle
          /\ arrivals < MaxCommands
          /\ arrivals' = arrivals + 1
          /\ executions' = <<>>

\* The command is refused and changes nothing.
Refuse(reason) == /\ result' = Result(reason, 0)
                  /\ UNCHANGED <<book, seen, incoming>>

Submit(o) ==
    /\ Arrive
    /\ \/ ~Valid(o) /\ Refuse("invalid_order")
       \/ Valid(o) /\ o.id \in seen /\ Refuse("duplicate_order_id")
       \/ /\ Valid(o) /\ o.id \notin seen
          /\ seen' = seen \cup {o.id}
          /\ incoming' = o
          /\ UNCHANGED <<book, result>>

Resting(id) == {o \in book : o.id = id}

Cancel(id) ==
    /\ Arrive
    /\ \/ Resting(id) = {} /\ Refuse("order_not_found")
       \/ \E o \in Resting(id) :
             /\ book' = book \ {o}
             /\ result' = Result("none", o.units)
             /\ UNCHANGED <<seen, incoming>>

\* A reduction at the same price is done in place and keeps the sequence;
\* anything else takes the order off the book and matches it anew.
Replace(id, price, units) ==
    /\ Arrive
    /\ \/ Resting(id) = {} /\ Refuse("order_not_found")
       \/ \E o \in Resting(id) :
             /\ o.price = price /\ units <= o.units
             /\ book' = (book \ {o}) \cup {[o EXCEPT !.units = units]}
             /\ result' = Result("none", units)
             /\ UNCHANGED <<seen, incoming>>
       \/ \E o \in Resting(id) :
             /\ ~(o.price = price /\ units <= o.units)
             /\ book' = book \ {o}
             /\ incoming' = [id |-> id, side |-> o.side, type |-> "limit",
                             price |-> price, units |-> units]
             /\ UNCHANGED <<seen, result>>

Candidates == {o \in book : o.side # incoming.side /\ Crosses(incoming, o.price)}

\* Price priority, then time priority.
Before(a, b) == \/ Better(a.side, a.price, b.price)
                \/ a.price = b.price /\ a.sequence < b.sequence

\* One turn of the loop in match(): trade with the best candidate.
MatchBest ==
    /\ ~Idle /\ incoming.units > 0
    /\ \E o \in Candidates :
          LET traded == Smaller(incoming.units, o.units) IN
          /\ \A c \in Candidates \ {o} : Before(o, c)
          /\ executions' = Append(executions,
                                  Execution(o.id, incoming.id, o.price, traded))
          /\ incoming' = [incoming EXCEPT !.units = @ - traded]
          /\ book' = (book \ {o}) \cup
                     (IF o.units = traded THEN {}
                      ELSE {[o EXCEPT !.units = @ - traded]})
    /\ UNCHANGED <<seen, arrivals, result>>

\* The loop is over: the remainder of a limit order rests, that of a market
\* order is dropped.
Finish ==
    /\ ~Idle
    /\ incoming.units = 0 \/ Candidates = {}
    /\ LET rests == incoming.type = "limit" /\ incoming.units > 0 IN
          /\ book' = IF rests
                     THEN book \cup {[id |-> incoming.id, sequence |-> arrivals,
                                      side |-> incoming.side, price |-> incoming.price,
                                      units |-> incoming.units]}
                     ELSE book
          /\ result' = Result("none", IF rests THEN incoming.units ELSE 0)
    /\ incoming' = NoIncoming
    /\ UNCHANGED <<seen, arrivals, executions>>

\* The bounded run is over.
NoMoreCommands == Idle /\ arrivals = MaxCommands /\ UNCHANGED vars

Next == \/ \E o \in NewOrder : Submit(o)
        \/ \E id \in OrderId : Cancel(id)
        \/ \E id \in OrderId, price \in Price, units \in Units : Replace(id, price, units)
        \/ MatchBest
        \/ Finish
        \/ NoMoreCommands

Spec == Init /\ [][Next]_vars
==============================================================================
