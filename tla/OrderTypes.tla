------------------------------ MODULE OrderTypes ------------------------------
(***************************************************************************)
(* The domain vocabulary of types.hpp and order_command.hpp, and what the   *)
(* two order books share: which prices are better, which orders cross.      *)
(***************************************************************************)
EXTENDS Integers, Sequences

CONSTANTS OrderId,       \* identifiers clients may use
          NoOrder,       \* not an identifier
          MaxPrice,      \* the largest price (2^63 - 1 in the code)
          Price,         \* prices commands may carry, in ticks
          Units          \* quantities commands may carry

ASSUME OrderIdAssumption == NoOrder \notin OrderId
ASSUME PriceAssumption == MaxPrice \in Nat /\ Price \subseteq 1 .. MaxPrice
ASSUME UnitsAssumption == Units \subseteq Nat \ {0}

Side == {"buy", "sell"}
OrderType == {"limit", "market"}

\* An absent std::optional<Price>.
NoPrice == 0

NewOrder == [id : OrderId, side : Side, type : OrderType,
             price : Price \cup {NoPrice}, units : Units]

\* validate(): a limit order has a price, a market order has none.
Valid(o) == (o.type = "limit") <=> (o.price # NoPrice)

Contra(side) == IF side = "buy" THEN "sell" ELSE "buy"

\* Price p ranks before price q among resting orders of this side.
Better(side, p, q) == IF side = "buy" THEN p > q ELSE p < q

\* The incoming order o may trade at the resting price p.
Crosses(o, p) == \/ o.type = "market"
                 \/ o.side = "buy" /\ p <= o.price
                 \/ o.side = "sell" /\ p >= o.price

Smaller(a, b) == IF a < b THEN a ELSE b

\* The command being matched: the new or replaced order, with the units it
\* still has to trade.  NoIncoming: the book is between commands.
NoIncoming == [id |-> NoOrder, side |-> "buy", type |-> "limit",
               price |-> NoPrice, units |-> 0]

Execution(restingId, incomingId, price, units) ==
    [resting |-> restingId, incoming |-> incomingId, price |-> price, units |-> units]

\* What an operation returns beside its executions: why it was refused, and the
\* units left resting (submit, replace) or taken off the book (cancel).
Result(rejection, units) == [rejection |-> rejection, units |-> units]
Rejections == {"none", "invalid_order", "duplicate_order_id", "order_not_found"}
==============================================================================
