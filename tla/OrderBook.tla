------------------------------ MODULE OrderBook ------------------------------
(***************************************************************************)
(* OrderBook of order_book.cpp: price levels on two sides, each a FIFO list *)
(* of resting orders with the level's aggregated units, and an index from   *)
(* order identifiers to locations.                                          *)
(*                                                                         *)
(* A command is one action when it does not match (cancel, reduction,      *)
(* refusals).  Otherwise it begins with Submit or Replace, goes on with one *)
(* MatchFront per turn of the inner loop of match_against_book and ends     *)
(* with Finish; nothing else can happen in between, as in the code, where   *)
(* the book belongs to one thread.                                          *)
(***************************************************************************)
EXTENDS OrderTypes

CONSTANTS MaxCommands,   \* bound on the number of commands
          UnitModulus    \* total_units wraps here (2^64 in the code)

ASSUME MaxCommandsAssumption == MaxCommands \in Nat

ASSUME UnitModulusAssumption ==
    UnitModulus \in Nat \ {0} /\ Units \subseteq 1 .. UnitModulus - 1

VARIABLES prices,      \* the price levels that exist, by side
          orders,      \* the FIFO list of each level
          total,       \* total_units of each level
          where,       \* resting_orders_: the location of each resting order
          count,       \* resting_order_count_
          seen,        \* seen_order_ids_
          arrivals,    \* number of commands so far
          incoming,    \* the order being matched, or NoIncoming
          executions,  \* trades of the current (or last) command
          result,      \* outcome of the last command
          ledger       \* history: units submitted, executed and cancelled by order

bookVars == <<prices, orders, total, where, count>>
vars == <<bookVars, seen, arrivals, incoming, executions, result, ledger>>

Nowhere == [side |-> "none", price |-> NoPrice]
NoEntries == [submitted |-> 0, executed |-> 0, cancelled |-> 0]

Init == /\ prices = [s \in Side |-> {}]
        /\ orders = [s \in Side |-> [p \in Price |-> <<>>]]
        /\ total = [s \in Side |-> [p \in Price |-> 0]]
        /\ where = [id \in OrderId |-> Nowhere]
        /\ count = 0 /\ seen = {} /\ arrivals = 0
        /\ incoming = NoIncoming /\ executions = <<>>
        /\ result = Result("none", 0)
        /\ ledger = [id \in OrderId |-> NoEntries]

Idle == incoming = NoIncoming

Book(entry, id, units) == [ledger EXCEPT ![id][entry] = @ + units]

------------------------------------------------------------------------------
\* Levels and the index

\* The level at (side, price) gets this list and this total.  A level whose
\* list is empty is erased; one that does not exist is created.
SetLevel(side, price, list, units) ==
    /\ orders' = [orders EXCEPT ![side][price] = list]
    /\ total' = [total EXCEPT ![side][price] =
                    IF list = <<>> THEN 0 ELSE units % UnitModulus]
    /\ prices' = [prices EXCEPT ![side] =
                    IF list = <<>> THEN @ \ {price} ELSE @ \cup {price}]

\* orders.erase(it) for the order at this position.
Erase(list, i) == SubSeq(list, 1, i - 1) \o SubSeq(list, i + 1, Len(list))

\* Where the stored iterator of a resting order points to.
Position(id) ==
    LET list == orders[where[id].side][where[id].price]
    IN  CHOOSE i \in DOMAIN list : list[i].id = id

Node(id) == orders[where[id].side][where[id].price][Position(id)]

InsertRestingOrder(o) ==
    /\ SetLevel(o.side, o.price,
                Append(orders[o.side][o.price],
                       [id |-> o.id, sequence |-> arrivals, units |-> o.units]),
                total[o.side][o.price] + o.units)
    /\ where' = [where EXCEPT ![o.id] = [side |-> o.side, price |-> o.price]]
    /\ count' = count + 1

\* Fault: the index keeps its entry.
RemoveKeepsIndex(id) ==
    LET side == where[id].side
        price == where[id].price
    IN  /\ SetLevel(side, price, Erase(orders[side][price], Position(id)),
                    total[side][price] - Node(id).units)
        /\ where' = where
        /\ count' = count - 1

RemoveRestingOrder(id) ==
    LET side == where[id].side
        price == where[id].price
    IN  /\ SetLevel(side, price, Erase(orders[side][price], Position(id)),
                    total[side][price] - Node(id).units)
        /\ where' = [where EXCEPT ![id] = Nowhere]
        /\ count' = count - 1

------------------------------------------------------------------------------
\* Operations

Arrive == /\ Idle
          /\ arrivals < MaxCommands
          /\ arrivals' = arrivals + 1
          /\ executions' = <<>>

Refuse(reason) == /\ result' = Result(reason, 0)
                  /\ UNCHANGED <<bookVars, seen, incoming, ledger>>

Submit(o) ==
    /\ Arrive
    /\ \/ ~Valid(o) /\ Refuse("invalid_order")
       \/ Valid(o) /\ o.id \in seen /\ Refuse("duplicate_order_id")
       \/ /\ Valid(o) /\ o.id \notin seen
          /\ seen' = seen \cup {o.id}
          /\ incoming' = o
          /\ ledger' = Book("submitted", o.id, o.units)
          /\ UNCHANGED <<bookVars, result>>

Cancel(id) ==
    /\ Arrive
    /\ \/ where[id] = Nowhere /\ Refuse("order_not_found")
       \/ /\ where[id] # Nowhere
          /\ RemoveRestingOrder(id)
          /\ result' = Result("none", Node(id).units)
          /\ ledger' = Book("cancelled", id, Node(id).units)
          /\ UNCHANGED <<seen, incoming>>

\* Fault: an increase keeps the place in the queue as well.
KeepsPriorityOnIncrease(id, price, units) == price = where[id].price

\* Priority is kept when the price is unchanged and the quantity not increased.
KeepsPriority(id, price, units) ==
    price = where[id].price /\ units <= Node(id).units

\* Fault: the level still counts the units taken off the order.
ReduceKeepsTotal(id, units) ==
    LET side == where[id].side
        price == where[id].price
    IN  /\ SetLevel(side, price,
                    [orders[side][price] EXCEPT ![Position(id)].units = units],
                    total[side][price])
        /\ UNCHANGED <<where, count>>

\* Reduction in place; the stored sequence number stays.
ReduceInPlace(id, units) ==
    LET side == where[id].side
        price == where[id].price
    IN  /\ SetLevel(side, price,
                    [orders[side][price] EXCEPT ![Position(id)].units = units],
                    total[side][price] - (Node(id).units - units))
        /\ UNCHANGED <<where, count>>

Replace(id, price, units) ==
    /\ Arrive
    /\ \/ where[id] = Nowhere /\ Refuse("order_not_found")
       \/ /\ where[id] # Nowhere /\ KeepsPriority(id, price, units)
          /\ ReduceInPlace(id, units)
          /\ result' = Result("none", units)
          /\ ledger' = Book("submitted", id, units - Node(id).units)
          /\ UNCHANGED <<seen, incoming>>
       \/ /\ where[id] # Nowhere /\ ~KeepsPriority(id, price, units)
          /\ RemoveRestingOrder(id)
          /\ incoming' = [id |-> id, side |-> where[id].side, type |-> "limit",
                          price |-> price, units |-> units]
          /\ ledger' = Book("submitted", id, units - Node(id).units)
          /\ UNCHANGED <<seen, result>>

\* The first level of the map of this side.
Best(side, p) == /\ p \in prices[side]
                 /\ \A q \in prices[side] \ {p} : Better(side, p, q)

\* Fault: a filled order stays at the front.
AfterTradeKeepsFilled(list, traded) == [list EXCEPT ![1].units = @ - traded]

\* Fault: a partial fill does not reduce the resting order.
AfterTradeKeepsUnits(list, traded) ==
    IF Head(list).units = traded THEN Tail(list) ELSE list

\* The list of a level after its front has traded: a filled order is dropped.
AfterTrade(list, traded) ==
    IF Head(list).units = traded THEN Tail(list)
    ELSE [list EXCEPT ![1].units = @ - traded]

\* One turn of the inner loop of match_against_book: trade with the front of
\* the best level; an emptied level is erased.
MatchFront ==
    LET side == Contra(incoming.side) IN
    /\ ~Idle /\ incoming.units > 0
    /\ \E p \in prices[side] :
          LET list == orders[side][p]
              front == Head(list)
              traded == Smaller(incoming.units, front.units)
              filled == front.units = traded
          IN
          /\ Best(side, p) /\ Crosses(incoming, p)
          /\ executions' = Append(executions,
                                  Execution(front.id, incoming.id, p, traded))
          /\ incoming' = [incoming EXCEPT !.units = @ - traded]
          /\ SetLevel(side, p, AfterTrade(list, traded), total[side][p] - traded)
          /\ where' = IF filled THEN [where EXCEPT ![front.id] = Nowhere] ELSE where
          /\ count' = IF filled THEN count - 1 ELSE count
          /\ ledger' = [ledger EXCEPT ![front.id].executed = @ + traded,
                                      ![incoming.id].executed = @ + traded]
    /\ UNCHANGED <<seen, arrivals, result>>

\* Matching is over: the remainder of a limit order rests, that of a market
\* order is dropped.
Finish ==
    /\ ~Idle
    /\ \/ incoming.units = 0
       \/ \A p \in prices[Contra(incoming.side)] :
             Best(Contra(incoming.side), p) => ~Crosses(incoming, p)
    /\ \/ /\ incoming.type = "limit" /\ incoming.units > 0
          /\ InsertRestingOrder(incoming)
          /\ result' = Result("none", incoming.units)
          /\ UNCHANGED ledger
       \/ /\ ~(incoming.type = "limit" /\ incoming.units > 0)
          /\ result' = Result("none", 0)
          /\ ledger' = Book("cancelled", incoming.id, incoming.units)
          /\ UNCHANGED bookVars
    /\ incoming' = NoIncoming
    /\ UNCHANGED <<seen, arrivals, executions>>

\* The bounded run is over.
NoMoreCommands == Idle /\ arrivals = MaxCommands /\ UNCHANGED vars

Next == \/ \E o \in NewOrder : Submit(o)
        \/ \E id \in OrderId : Cancel(id)
        \/ \E id \in OrderId, price \in Price, units \in Units : Replace(id, price, units)
        \/ MatchFront
        \/ Finish
        \/ NoMoreCommands

Spec == Init /\ [][Next]_vars

------------------------------------------------------------------------------
\* Properties

RestingOrder == [id : OrderId, sequence : Nat, units : Nat \ {0}]
Location == [side : Side, price : Price] \cup {Nowhere}
Incoming == [id : OrderId, side : Side, type : OrderType,
             price : Price \cup {NoPrice}, units : Nat] \cup {NoIncoming}

TypeOK ==
    /\ prices \in [Side -> SUBSET Price]
    /\ orders \in [Side -> [Price -> Seq(RestingOrder)]]
    /\ total \in [Side -> [Price -> 0 .. UnitModulus - 1]]
    /\ where \in [OrderId -> Location]
    /\ count \in Int
    /\ seen \in SUBSET OrderId
    /\ arrivals \in 0 .. MaxCommands
    /\ incoming \in Incoming
    /\ executions \in Seq([resting : OrderId, incoming : OrderId, price : Price,
                           units : Nat \ {0}])
    /\ result \in [rejection : Rejections, units : Nat]
    /\ ledger \in [OrderId -> [submitted : Int, executed : Int, cancelled : Int]]

\* The spread invariant: a bid never meets an ask, not even while a command is
\* being matched.
Uncrossed == \A bid \in prices["buy"], ask \in prices["sell"] : bid < ask

\* The index and the lists agree: each order in a list is indexed there, each
\* index entry leads to exactly one order in the list it names, a level exists
\* iff its list is not empty, and an order being matched is in no list.
IndexAgrees ==
    /\ \A s \in Side, p \in Price : p \in prices[s] <=> orders[s][p] # <<>>
    /\ \A s \in Side, p \in Price : \A i \in DOMAIN orders[s][p] :
          where[orders[s][p][i].id] = [side |-> s, price |-> p]
    /\ \A id \in OrderId : where[id] # Nowhere =>
          \E i \in DOMAIN orders[where[id].side][where[id].price] :
             orders[where[id].side][where[id].price][i].id = id
    /\ \A s \in Side, p \in Price : \A i, j \in DOMAIN orders[s][p] :
          orders[s][p][i].id = orders[s][p][j].id => i = j
    /\ ~Idle => where[incoming.id] = Nowhere

\* Conservation, order by order: units submitted = executed + cancelled + still
\* resting or being matched.
Balance(id) == ledger[id].submitted - ledger[id].executed - ledger[id].cancelled

Conservation ==
    /\ \A s \in Side, p \in Price : \A i \in DOMAIN orders[s][p] :
          Balance(orders[s][p][i].id) = orders[s][p][i].units
    /\ ~Idle => Balance(incoming.id) = incoming.units
    /\ \A id \in OrderId :
          where[id] = Nowhere /\ incoming.id # id => Balance(id) = 0

\* The book implements the naive reference book: the same trades at the same
\* prices with the same counterparties, the same outcomes, the same resting
\* orders.  In particular the FIFO lists give price-time priority.
FlatLevel(s, p) ==
    {[id |-> orders[s][p][i].id, sequence |-> orders[s][p][i].sequence,
      side |-> s, price |-> p, units |-> orders[s][p][i].units]
        : i \in DOMAIN orders[s][p]}
FlatBook == UNION {FlatLevel(s, p) : s \in Side, p \in Price}
Reference == INSTANCE ReferenceBook WITH book <- FlatBook
ImplementsReference == Reference!Spec
==============================================================================
