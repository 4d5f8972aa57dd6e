--------------------------- MODULE OrderBookProofs ---------------------------
(***************************************************************************)
(* The order book for any set of identifiers, prices and quantities and any *)
(* number of commands: its lists and its index agree, units are conserved,  *)
(* and bids and asks stay apart.                                            *)
(***************************************************************************)
EXTENDS OrderBookLevels, WellFoundedInduction

------------------------------------------------------------------------------
(* The best level *)

LEMMA LeastExists ==
    ASSUME NEW T \in SUBSET Nat, T # {}
    PROVE  \E x \in T : \A y \in T : x <= y
  <1>1. PICK x \in T : \A y \in T : ~ (<<y, x>> \in OpToRel(<, Nat))
    BY Zenon, WFMin, NatLessThanWellFounded
  <1>2. \A y \in T : ~ (y < x)
    BY Zenon, <1>1 DEF OpToRel
  <1> QED BY <1>2

LEMMA GreatestExists ==
    ASSUME NEW N \in Nat, NEW T \in SUBSET (1 .. N), T # {}
    PROVE  \E x \in T : \A y \in T : y <= x
  <1> DEFINE U == {N - y : y \in T}
  <1>1. U \in SUBSET Nat /\ U # {}
    <2>1. \A y \in T : N - y \in Nat
      OBVIOUS
    <2>2. PICK y \in T : TRUE
      BY Zenon
    <2>3. N - y \in U
      OBVIOUS
    <2> QED BY <2>1, <2>3
  <1>2. PICK u \in U : \A v \in U : u <= v
    <2> HIDE DEF U
    <2> QED BY <1>1, LeastExists
  <1>3. PICK x \in T : u = N - x
    OBVIOUS
  <1>4. \A y \in T : N - x <= N - y
    BY Zenon, <1>2, <1>3
  <1> QED BY <1>4

\* A side that has levels has a best one.
LEMMA BestExists ==
    ASSUME IInv, NEW s \in Side, prices[s] # {}
    PROVE  \E p \in prices[s] : Best(s, p)
  <1>1. prices[s] \subseteq 1 .. MaxPrice /\ MaxPrice \in Nat
    BY Zenon, PriceAssumption DEF IInv, TypeOK
  <1>2. CASE s = "buy"
    <2>1. PICK p \in prices[s] : \A q \in prices[s] : q <= p
      BY Zenon, <1>1, GreatestExists
    <2>2. \A q \in prices[s] \ {p} : p > q
      BY <1>1, <2>1
    <2> QED BY <1>2, <2>2 DEF Best, Better
  <1>3. CASE s = "sell"
    <2>1. PICK p \in prices[s] : \A q \in prices[s] : p <= q
      <3>1. prices[s] \in SUBSET Nat BY <1>1
      <3> QED BY <3>1, LeastExists
    <2>2. \A q \in prices[s] \ {p} : p < q
      BY <1>1, <2>1
    <2> QED BY <1>3, <2>2 DEF Best, Better
  <1> QED BY <1>2, <1>3 DEF Side

\* When the best level of the other side does not cross, no level does.
LEMMA NoneCrosses ==
    ASSUME IInv, ~Idle,
           \A p \in prices[Contra(incoming.side)] :
              Best(Contra(incoming.side), p) => ~Crosses(incoming, p)
    PROVE  \A q \in prices[Contra(incoming.side)] : ~Crosses(incoming, q)
  <1> DEFINE s == Contra(incoming.side)
  <1> SUFFICES ASSUME NEW q \in prices[s] PROVE ~Crosses(incoming, q)
    OBVIOUS
  <1>1. s \in Side /\ incoming.side \in Side
    BY IncomingFacts
  <1>2. PICK p \in prices[s] : Best(s, p)
    BY <1>1, BestExists
  <1>3. ~Crosses(incoming, p)
    BY <1>2
  <1>4. p = q \/ Better(s, p, q)
    BY <1>2 DEF Best
  <1>5. p \in Nat /\ q \in Nat /\ incoming.price \in Nat
    <2>1. Price \subseteq Nat
      BY PriceAssumption
    <2>2. p \in Price /\ q \in Price
      BY <1>1 DEF IInv, TypeOK
    <2>3. incoming.price \in Price \cup {NoPrice}
      BY IncomingFacts
    <2>4. incoming.price \in Nat
      <3>1. NoPrice \in Nat BY DEF NoPrice
      <3> QED BY Zenon, <2>1, <2>3, <3>1
    <2> HIDE DEF s
    <2>5. p \in Nat /\ q \in Nat
      BY <2>1, <2>2
    <2> QED BY <2>4, <2>5
  <1> QED BY <1>1, <1>3, <1>4, <1>5 DEF Crosses, Better, Side, Contra
------------------------------------------------------------------------------
(* The invariant holds. *)

LEMMA InitIInv == Init => IInv
  <1> SUFFICES ASSUME Init PROVE IInv
    OBVIOUS
  <1> USE DEF Init
  <1>1. TypeOK
    <2>1. 0 \in 0 .. UnitModulus - 1 /\ 0 \in 0 .. MaxCommands
      BY UnitModulusAssumption, MaxCommandsAssumption
    <2>2. total \in [Side -> [Price -> 0 .. UnitModulus - 1]]
      BY <2>1
    <2>3. result \in [rejection : Rejections, units : Nat]
      BY DEF Result, Rejections
    <2>4. ledger \in [OrderId -> [submitted : Int, executed : Int, cancelled : Int]]
      BY DEF NoEntries
    <2>5. orders \in [Side -> [Price -> Seq(RestingOrder)]]
      <3>1. <<>> \in Seq(RestingOrder) BY EmptySeq
      <3> QED BY <3>1
    <2>6. executions \in Seq([resting : OrderId, incoming : OrderId, price : Price,
                              units : Nat \ {0}])
      BY EmptySeq
    <2> QED BY <2>1, <2>2, <2>3, <2>4, <2>5, <2>6 DEF TypeOK, Location, Incoming
  <1>2. Idle /\ Last = 0
    BY DEF Idle, Last
  <1>3. Levels
    <2> SUFFICES ASSUME NEW s \in Side, NEW p \in Price
                 PROVE  /\ Good(<<>>, 0, ledger)
                        /\ Ids(<<>>) = {id \in OrderId : Nowhere = Loc(s, p)}
                        /\ orders[s][p] = <<>> /\ p \notin prices[s]
      BY <1>2 DEF Levels
    <2>1. Nowhere # Loc(s, p)
      BY DEF Loc, Nowhere, Side
    <2>2. <<>> \in Seq(RestingOrder) /\ DOMAIN <<>> = {}
      BY EmptySeq
    <2>3. Good(<<>>, 0, ledger)
      BY <2>2 DEF Good, Queued, Paid
    <2>4. Ids(<<>>) = {}
      BY <2>2 DEF Ids
    <2> QED BY <2>1, <2>3, <2>4
  <1>4. Settled
    BY DEF Settled, Left, NoEntries
  <1>5. Uncrossed
    BY DEF Uncrossed, Side
  <1> QED BY <1>1, <1>2, <1>3, <1>4, <1>5 DEF IInv, Matching, Known

\* A command arrives and something is entered in the book's records, but no
\* level changes.
LEMMA LevelsStand ==
    ASSUME IInv, UNCHANGED bookVars, Last' \in Nat, Last <= Last',
           \A x \in OrderId : where[x] # Nowhere => Left(ledger', x) = Left(ledger, x)
    PROVE  Levels'
  <1> SUFFICES ASSUME NEW s \in Side, NEW p \in Price
               PROVE  /\ Good(orders'[s][p], Last', ledger')
                      /\ Ids(orders'[s][p]) = {id \in OrderId : where'[id] = Loc(s, p)}
                      /\ p \in prices'[s] <=> orders'[s][p] # <<>>
    BY DEF Levels
  <1>1. /\ Good(orders[s][p], Last, ledger)
        /\ Ids(orders[s][p]) = {id \in OrderId : where[id] = Loc(s, p)}
        /\ p \in prices[s] <=> orders[s][p] # <<>>
    BY DEF IInv, Levels
  <1>2. prices' = prices /\ orders' = orders /\ where' = where
    BY DEF bookVars
  <1>3. Loc(s, p) # Nowhere
    BY DEF Loc, Nowhere, Side
  <1>4. \A id \in Ids(orders[s][p]) : Left(ledger', id) = Left(ledger, id)
    BY <1>1, <1>3
  <1>5. Good(orders[s][p], Last', ledger')
    BY <1>1, <1>4, LastType, GoodFrame
  <1> QED BY <1>1, <1>2, <1>5

\* A refused command.
LEMMA RefuseIInv ==
    ASSUME IInv, Arrive, NEW reason \in Rejections, Refuse(reason)
    PROVE  IInv'
  <1>1. /\ Idle' /\ arrivals' = arrivals + 1 /\ arrivals' \in 0 .. MaxCommands
        /\ executions' = <<>> /\ result' = Result(reason, 0)
        /\ UNCHANGED <<bookVars, seen, incoming, ledger>>
        /\ Last' = arrivals + 1 /\ Last = arrivals /\ arrivals \in Nat
    BY MaxCommandsAssumption DEF IInv, TypeOK, Arrive, Refuse, Idle, Last
  <1>2. TypeOK'
    <2>1. result' \in [rejection : Rejections, units : Nat]
      BY <1>1 DEF Result
    <2>2. executions' \in Seq([resting : OrderId, incoming : OrderId, price : Price,
                               units : Nat \ {0}])
      BY <1>1, EmptySeq
    <2> QED BY <1>1, <2>1, <2>2 DEF IInv, TypeOK, bookVars
  <1>3. Levels'
    BY <1>1, LevelsStand
  <1> QED BY <1>1, <1>2, <1>3 DEF IInv, Matching, Known, Settled, Uncrossed, bookVars
\* What every command begins with.
LEMMA ArriveFacts ==
    ASSUME IInv, Arrive
    PROVE  /\ Idle /\ arrivals \in Nat /\ Last = arrivals
           /\ arrivals' = arrivals + 1 /\ arrivals' \in 0 .. MaxCommands
           /\ executions' \in Seq([resting : OrderId, incoming : OrderId, price : Price,
                                   units : Nat \ {0}])
           /\ \A id \in OrderId : incoming.id # id
  <1>1. executions' = <<>> /\ Idle
    BY DEF Arrive
  <1>2. \A id \in OrderId : incoming.id # id
    BY <1>1, OrderIdAssumption DEF Idle, NoIncoming
  <1>3. executions' \in Seq([resting : OrderId, incoming : OrderId, price : Price,
                             units : Nat \ {0}])
    BY <1>1, EmptySeq
  <1> QED BY <1>1, <1>2, <1>3, MaxCommandsAssumption DEF IInv, TypeOK, Arrive, Last

\* A new order is accepted and goes to matching.
LEMMA SubmitIInv ==
    ASSUME IInv, NEW o \in NewOrder, Arrive, Valid(o), o.id \notin seen,
           seen' = seen \cup {o.id}, incoming' = o,
           ledger' = Book("submitted", o.id, o.units), UNCHANGED <<bookVars, result>>
    PROVE  IInv'
  <1>1. /\ o \in [id : OrderId, side : Side, type : OrderType,
                  price : Price \cup {NoPrice}, units : Nat]
        /\ o.id \in OrderId /\ o.units \in Nat
    BY Zenon, UnitsAssumption DEF NewOrder
  <1>2. /\ Idle /\ arrivals \in Nat /\ Last = arrivals
        /\ arrivals' = arrivals + 1 /\ arrivals' \in 0 .. MaxCommands
        /\ executions' \in Seq([resting : OrderId, incoming : OrderId, price : Price,
                                units : Nat \ {0}])
        /\ \A id \in OrderId : incoming.id # id
    BY ArriveFacts
  <1>3. ~Idle' /\ Last' = arrivals
    <2>1. ~Idle'
      BY <1>1, OrderIdAssumption DEF Idle, NoIncoming
    <2> QED BY <1>2, <2>1 DEF Last
  <1>4. where[o.id] = Nowhere
    BY <1>1 DEF IInv, Known
  <1>5. Left(ledger, o.id) = 0
    BY <1>1, <1>2, <1>4 DEF IInv, Settled
  <1> DEFINE id == o.id
             u == o.units
  <1>6. /\ ledger' \in [OrderId -> [submitted : Int, executed : Int, cancelled : Int]]
        /\ Left(ledger', id) = Left(ledger, id) + u
        /\ \A x \in OrderId \ {id} : Left(ledger', x) = Left(ledger, x)
    <2>1. id \in OrderId /\ u \in Int /\ ledger' = Book("submitted", id, u)
      BY <1>1
    <2> HIDE DEF id, u
    <2> QED BY <2>1, BookLedger
  <1>7. TypeOK'
    BY Zenon, <1>1, <1>2, <1>6 DEF IInv, TypeOK, Incoming, bookVars
  <1>8. Levels'
    <2>1. Last' \in Nat /\ Last <= Last'
      BY <1>2, <1>3
    <2>2. \A x \in OrderId : where[x] # Nowhere => Left(ledger', x) = Left(ledger, x)
      BY <1>4, <1>6
    <2> QED BY <2>1, <2>2, LevelsStand
  <1>9. Matching'
    <2>1. o.type = "limit" => o.price \in Price
      BY <1>1 DEF Valid
    <2>2. Left(ledger', o.id) = o.units
      BY <1>1, <1>5, <1>6
    <2> QED BY <1>2, <1>4, <2>1, <2>2 DEF Matching, bookVars
  <1>10. Known' /\ Uncrossed'
    BY DEF IInv, Known, Uncrossed, bookVars
  <1>11. Settled'
    <2> SUFFICES ASSUME NEW x \in OrderId, where'[x] = Nowhere, incoming'.id # x
                 PROVE  Left(ledger', x) = 0
      BY DEF Settled
    <2>1. where[x] = Nowhere /\ incoming.id # x
      BY <1>2 DEF bookVars
    <2> QED BY <1>6, <2>1 DEF IInv, Settled
  <1> QED BY <1>7, <1>8, <1>9, <1>10, <1>11 DEF IInv

\* Levels can only disappear: the sides stay apart.
LEMMA FewerPrices ==
    ASSUME IInv, \A s \in Side : prices'[s] \subseteq prices[s]
    PROVE  Uncrossed'
  BY DEF IInv, Uncrossed, Side

LEMMA CancelIInv ==
    ASSUME IInv, NEW id \in OrderId, Arrive, where[id] # Nowhere,
           RemoveRestingOrder(id), result' = Result("none", Node(id).units),
           ledger' = Book("cancelled", id, Node(id).units), UNCHANGED <<seen, incoming>>
    PROVE  IInv'
  <1>1. Node(id).units \in Nat \ {0} /\ Left(ledger, id) = Node(id).units
    BY Zenon, Indexed
  <1>2. /\ Idle /\ arrivals \in Nat /\ Last = arrivals
        /\ arrivals' = arrivals + 1 /\ arrivals' \in 0 .. MaxCommands
        /\ executions' \in Seq([resting : OrderId, incoming : OrderId, price : Price,
                                units : Nat \ {0}])
        /\ \A x \in OrderId : incoming.id # x
    BY ArriveFacts
  <1>3. Idle' /\ Last' = arrivals + 1
    BY <1>2 DEF Idle, Last
  <1> DEFINE u == Node(id).units
  <1>4. /\ ledger' \in [OrderId -> [submitted : Int, executed : Int, cancelled : Int]]
        /\ Left(ledger', id) = Left(ledger, id) - u
        /\ \A x \in OrderId \ {id} : Left(ledger', x) = Left(ledger, x)
    <2>1. u \in Int /\ ledger' = Book("cancelled", id, u)
      BY <1>1
    <2> HIDE DEF u
    <2> QED BY <2>1, BookLedger
  <1>5. Left(ledger', id) = 0
    BY <1>1, <1>4
  <1>6. /\ LevelsKept
        /\ where' = [where EXCEPT ![id] = Nowhere]
        /\ \A s \in Side : prices'[s] \subseteq prices[s]
    <2>1. Last' \in Nat /\ Last <= Last'
      BY <1>2, <1>3
    <2>2. \A x \in OrderId \ {id} : Left(ledger', x) = Left(ledger, x)
      BY <1>4
    <2> QED BY <2>1, <2>2, RemoveStep
  <1>7. TypeOK'
    <2>1. result' \in [rejection : Rejections, units : Nat]
      BY <1>1 DEF Result, Rejections
    <2> QED BY <1>2, <1>4, <1>6, <2>1 DEF IInv, TypeOK, LevelsKept
  <1>8. Matching' /\ Uncrossed' /\ Levels'
    BY <1>3, <1>6, FewerPrices DEF Matching, LevelsKept
  <1>9. where \in [OrderId -> Location]
    BY DEF IInv, TypeOK
  <1>10. Known'
    BY <1>6, <1>9 DEF IInv, Known
  <1>11. Settled'
    BY <1>4, <1>5, <1>6, <1>9 DEF IInv, Settled
  <1> QED BY <1>7, <1>8, <1>10, <1>11 DEF IInv
\* A replace that keeps its priority.
LEMMA ReduceIInv ==
    ASSUME IInv, NEW id \in OrderId, NEW units \in Units, Arrive, where[id] # Nowhere,
           ReduceInPlace(id, units), result' = Result("none", units),
           ledger' = Book("submitted", id, units - Node(id).units),
           UNCHANGED <<seen, incoming>>
    PROVE  IInv'
  <1>1. /\ Node(id).units \in Nat \ {0} /\ Left(ledger, id) = Node(id).units
        /\ units \in Nat \ {0}
    BY Zenon, Indexed, UnitsAssumption
  <1>2. /\ Idle /\ arrivals \in Nat /\ Last = arrivals
        /\ arrivals' = arrivals + 1 /\ arrivals' \in 0 .. MaxCommands
        /\ executions' \in Seq([resting : OrderId, incoming : OrderId, price : Price,
                                units : Nat \ {0}])
        /\ \A x \in OrderId : incoming.id # x
    BY Zenon, ArriveFacts
  <1>3. Idle' /\ Last' \in Nat /\ Last <= Last'
    BY <1>2 DEF Idle, Last
  <1> DEFINE u == units - Node(id).units
  <1>4. /\ ledger' \in [OrderId -> [submitted : Int, executed : Int, cancelled : Int]]
        /\ Left(ledger', id) = Left(ledger, id) + u
        /\ \A x \in OrderId \ {id} : Left(ledger', x) = Left(ledger, x)
    <2>1. u \in Int /\ ledger' = Book("submitted", id, u)
      BY <1>1
    <2> HIDE DEF u
    <2> QED BY <2>1, BookLedger
  <1>5. Left(ledger', id) = units
    BY <1>1, <1>4
  <1>6. /\ LevelsKept
        /\ where' = where
        /\ \A s \in Side : prices'[s] \subseteq prices[s]
    <2>1. \A x \in OrderId \ {id} : Left(ledger', x) = Left(ledger, x)
      BY <1>4
    <2> QED BY <1>1, <1>3, <1>5, <2>1, ReduceStep
  <1>7. TypeOK'
    <2>1. result' \in [rejection : Rejections, units : Nat]
      BY <1>1 DEF Result, Rejections
    <2> QED BY <1>2, <1>4, <1>6, <2>1 DEF IInv, TypeOK, LevelsKept
  <1>8. Matching' /\ Uncrossed' /\ Levels'
    BY Zenon, <1>3, <1>6, FewerPrices DEF Matching, LevelsKept
  <1>9. Known'
    BY Zenon, <1>6 DEF IInv, Known
  <1>10. Settled'
    BY <1>4, <1>6 DEF IInv, Settled
  <1> QED BY <1>7, <1>8, <1>9, <1>10 DEF IInv

\* A replace that gives its priority up: the order leaves the book and goes to
\* matching.
LEMMA MoveIInv ==
    ASSUME IInv, NEW id \in OrderId, NEW price \in Price, NEW units \in Units,
           Arrive, where[id] # Nowhere, RemoveRestingOrder(id),
           incoming' = [id |-> id, side |-> where[id].side, type |-> "limit",
                        price |-> price, units |-> units],
           ledger' = Book("submitted", id, units - Node(id).units),
           UNCHANGED <<seen, result>>
    PROVE  IInv'
  <1>1. /\ Node(id).units \in Nat \ {0} /\ Left(ledger, id) = Node(id).units
        /\ where[id].side \in Side /\ id \in seen
        /\ units \in Nat \ {0}
    BY Zenon, Indexed, UnitsAssumption
  <1>2. /\ Idle /\ arrivals \in Nat /\ Last = arrivals
        /\ arrivals' = arrivals + 1 /\ arrivals' \in 0 .. MaxCommands
        /\ executions' \in Seq([resting : OrderId, incoming : OrderId, price : Price,
                                units : Nat \ {0}])
        /\ \A x \in OrderId : incoming.id # x
    BY Zenon, ArriveFacts
  <1>3. /\ incoming'.id = id /\ incoming'.units = units /\ incoming'.price = price
        /\ incoming' \in Incoming
    BY <1>1 DEF Incoming, OrderType
  <1>4. ~Idle'
    BY <1>3, OrderIdAssumption DEF Idle, NoIncoming
  <1>5. Last' \in Nat /\ Last <= Last'
    <2>1. Last = arrivals /\ arrivals' = arrivals + 1 /\ arrivals \in Nat
      BY <1>2
    <2>2. Last' = arrivals' - 1
      BY <1>4 DEF Last
    <2> QED BY <2>1, <2>2
  <1> DEFINE u == units - Node(id).units
  <1>6. /\ ledger' \in [OrderId -> [submitted : Int, executed : Int, cancelled : Int]]
        /\ Left(ledger', id) = Left(ledger, id) + u
        /\ \A x \in OrderId \ {id} : Left(ledger', x) = Left(ledger, x)
    <2>1. u \in Int /\ ledger' = Book("submitted", id, u)
      BY <1>1
    <2> HIDE DEF u
    <2> QED BY <2>1, BookLedger
  <1>7. Left(ledger', id) = units
    BY <1>1, <1>6
  <1>8. /\ LevelsKept
        /\ where' = [where EXCEPT ![id] = Nowhere]
        /\ \A s \in Side : prices'[s] \subseteq prices[s]
    <2>1. \A x \in OrderId \ {id} : Left(ledger', x) = Left(ledger, x)
      BY <1>6
    <2> QED BY <1>5, <2>1, RemoveStep
  <1>9. TypeOK'
    BY <1>2, <1>3, <1>6, <1>8 DEF IInv, TypeOK, LevelsKept
  <1>10. Uncrossed' /\ Levels'
    BY Zenon, <1>8, FewerPrices DEF LevelsKept
  <1>11. where \in [OrderId -> Location] /\ where'[id] = Nowhere
    BY <1>8 DEF IInv, TypeOK
  <1>12. Matching'
    <2>1. id \in seen' /\ arrivals' > 0
      BY <1>1, <1>2
    <2>2. where'[incoming'.id] = Nowhere /\ incoming'.id \in seen'
      BY <1>3, <1>11, <2>1
    <2>3. Left(ledger', incoming'.id) = incoming'.units /\ incoming'.price \in Price
      BY <1>1, <1>3, <1>7
    <2> QED BY <2>1, <2>2, <2>3 DEF Matching
  <1>13. Known'
    BY Zenon, <1>8, <1>11 DEF IInv, Known
  <1>14. Settled'
    BY Zenon, <1>2, <1>3, <1>6, <1>8, <1>11 DEF IInv, Settled
  <1> QED BY <1>9, <1>10, <1>12, <1>13, <1>14 DEF IInv
\* A trade with the front of the best level.
LEMMA MatchIInv == ASSUME IInv, MatchFront PROVE IInv'
  <1>1. /\ ~Idle /\ incoming.units > 0
        /\ UNCHANGED <<seen, arrivals, result>>
    BY Zenon DEF MatchFront
  <1>2. PICK p \in prices[Contra(incoming.side)] : TradeAt(p)
    BY Zenon DEF MatchFront, TradeAt
  <1> DEFINE side == Contra(incoming.side)
             front == Head(orders[side][p])
             traded == Smaller(incoming.units, front.units)
             f == front.id
             i == incoming.id
  <1>3. /\ p \in Price /\ f \in OrderId /\ i \in OrderId /\ f # i
        /\ where[f] = Loc(side, p) /\ side \in Side /\ where[i] = Nowhere
        /\ traded \in Nat \ {0} /\ traded <= incoming.units
        /\ incoming.units \in Nat
        /\ Left(ledger, f) = front.units
        /\ Left(ledger, i) = incoming.units
    BY Zenon, <1>1, FrontFacts, IncomingFacts
  <1>4. /\ LevelsKept
        /\ \A s \in Side : prices'[s] \subseteq prices[s]
        /\ ~Idle'
    BY <1>1, <1>2, MatchStep
  <1>5. /\ executions' = Append(executions, Execution(f, i, p, traded))
        /\ incoming' = [incoming EXCEPT !.units = @ - traded]
        /\ where' = IF front.units = traded THEN [where EXCEPT ![f] = Nowhere] ELSE where
        /\ ledger' = Traded(ledger, f, i, traded)
    BY Zenon, <1>2 DEF TradeAt, Traded
  <1>6. incoming \in [id : OrderId, side : Side, type : OrderType,
                      price : Price \cup {NoPrice}, units : Nat]
    BY <1>1, IncomingFacts
  <1>7. /\ incoming'.id = i /\ incoming'.units = incoming.units - traded
        /\ incoming'.price = incoming.price /\ incoming'.type = incoming.type
    BY <1>5, <1>6
  <1> HIDE DEF side, front, traded, f
  <1>8. incoming' \in Incoming
    <2>1. incoming.units - traded \in Nat
      BY <1>3
    <2> QED BY <1>5, <1>6, <2>1 DEF Incoming
  <1> HIDE DEF i
  <1>9. /\ ledger' \in [OrderId -> [submitted : Int, executed : Int, cancelled : Int]]
        /\ Left(ledger', f) = Left(ledger, f) - traded
        /\ Left(ledger', i) = Left(ledger, i) - traded
        /\ \A x \in OrderId \ {f, i} : Left(ledger', x) = Left(ledger, x)
    <2>1. f \in OrderId /\ i \in OrderId /\ f # i /\ traded \in Int
      BY <1>3
    <2>2. /\ Traded(ledger, f, i, traded)
                \in [OrderId -> [submitted : Int, executed : Int, cancelled : Int]]
          /\ Left(Traded(ledger, f, i, traded), f) = Left(ledger, f) - traded
      BY <2>1, TradeLedger
    <2>3. Left(Traded(ledger, f, i, traded), i) = Left(ledger, i) - traded
      BY <2>1, TradeLedger
    <2>4. \A x \in OrderId \ {f, i} : Left(Traded(ledger, f, i, traded), x) = Left(ledger, x)
      BY SMTT(30), <2>1, TradeLedger
    <2> QED BY <1>5, <2>2, <2>3, <2>4
  <1>10. TypeOK'
    <2> DEFINE E == [resting : OrderId, incoming : OrderId, price : Price, units : Nat \ {0}]
    <2>1. Execution(f, i, p, traded) \in E
      BY Zenon, <1>3 DEF Execution
    <2>2. executions \in Seq(E)
      BY DEF IInv, TypeOK
    <2> HIDE DEF E
    <2>3. executions' \in Seq(E)
      BY <1>5, <2>1, <2>2, AppendProperties
    <2> QED BY <1>1, <1>4, <1>8, <1>9, <2>3 DEF IInv, TypeOK, LevelsKept, E
  <1>11. Uncrossed' /\ Levels'
    BY <1>4, FewerPrices DEF LevelsKept
  <1>12. /\ where \in [OrderId -> Location] /\ Loc(side, p) # Nowhere
         /\ \A x \in OrderId \ {f} : where'[x] = where[x]
         /\ where'[f] = Nowhere => front.units = traded
    <2>1. where \in [OrderId -> Location]
      BY DEF IInv, TypeOK
    <2>2. Loc(side, p) # Nowhere
      BY <1>3 DEF Loc, Nowhere, Side
    <2> QED BY <1>3, <1>5, <2>1, <2>2
  <1>13. Matching'
    <2>1. /\ incoming.id \in seen /\ arrivals > 0
          /\ incoming.type = "limit" => incoming.price \in Price
      BY <1>1 DEF IInv, Matching
    <2>2. Left(ledger', i) = incoming.units - traded
      BY <1>3, <1>9
    <2>3. where'[i] = Nowhere
      BY <1>3, <1>12
    <2> QED BY <1>1, <1>7, <2>1, <2>2, <2>3 DEF Matching, i
  <1>14. Known'
    <2> SUFFICES ASSUME NEW x \in OrderId, where'[x] # Nowhere PROVE x \in seen
      BY <1>1 DEF Known
    <2>1. where[x] # Nowhere
      BY <1>3, <1>12
    <2> QED BY <2>1 DEF IInv, Known
  <1>15. Settled'
    <2> SUFFICES ASSUME NEW x \in OrderId, where'[x] = Nowhere, incoming'.id # x
                 PROVE  Left(ledger', x) = 0
      BY DEF Settled
    <2>1. CASE x = f
      BY SMTT(30), <1>3, <1>9, <1>12, <2>1
    <2>2. CASE x # f
      <3>1. x \in OrderId \ {f, i} /\ where[x] = Nowhere /\ incoming.id # x
        BY <1>7, <1>12, <2>2 DEF i
      <3> QED BY <1>9, <3>1 DEF IInv, Settled
    <2> QED BY <2>1, <2>2
  <1> QED BY <1>10, <1>11, <1>13, <1>14, <1>15 DEF IInv
\* Matching is over and the remainder rests.
LEMMA RestIInv ==
    ASSUME IInv, ~Idle,
           \/ incoming.units = 0
           \/ \A p \in prices[Contra(incoming.side)] :
                 Best(Contra(incoming.side), p) => ~Crosses(incoming, p),
           incoming.type = "limit", incoming.units > 0,
           InsertRestingOrder(incoming), result' = Result("none", incoming.units),
           incoming' = NoIncoming, UNCHANGED <<ledger, seen, arrivals, executions>>
    PROVE  IInv'
  <1> DEFINE i == incoming.id
             side == incoming.side
             price == incoming.price
  <1>1. /\ i \in OrderId /\ side \in Side /\ incoming.units \in Nat
        /\ Contra(side) \in Side /\ Contra(side) # side
        /\ price \in Price /\ i \in seen
    BY IncomingFacts DEF IInv, Matching
  <1>2. Idle'
    BY DEF Idle
  <1>3. /\ LevelsKept
        /\ where' = [where EXCEPT ![i] = [side |-> side, price |-> price]]
        /\ prices' = [prices EXCEPT ![side] = @ \cup {price}]
    BY <1>2, InsertStep
  <1>4. /\ where \in [OrderId -> Location] /\ prices \in [Side -> SUBSET Price]
        /\ Price \subseteq Nat
    BY PriceAssumption DEF IInv, TypeOK
  <1>5. TypeOK'
    <2>1. result' \in [rejection : Rejections, units : Nat]
      BY Zenon, <1>1 DEF Result, Rejections
    <2> QED BY Zenon, <1>3, <2>1 DEF IInv, TypeOK, LevelsKept, Incoming
  <1>6. \A q \in prices[Contra(side)] : ~Crosses(incoming, q)
    BY SMTT(30), <1>1, NoneCrosses
  <1>7. Uncrossed'
    <2>1. CASE side = "buy"
      <3>1. \A q \in prices["sell"] : price < q
        <4> SUFFICES ASSUME NEW q \in prices["sell"] PROVE price < q
          OBVIOUS
        <4>1. q \in Nat /\ price \in Nat
          BY Zenon, <1>1, <1>4, <2>1 DEF Side
        <4>2. ~(q <= price)
          BY <1>6, <2>1 DEF Crosses, Contra
        <4> QED BY <4>1, <4>2
      <3> QED BY <1>1, <1>3, <1>4, <2>1, <3>1 DEF IInv, Uncrossed, Side
    <2>2. CASE side = "sell"
      <3>1. \A q \in prices["buy"] : q < price
        <4> SUFFICES ASSUME NEW q \in prices["buy"] PROVE q < price
          OBVIOUS
        <4>1. q \in Nat /\ price \in Nat
          BY Zenon, <1>1, <1>4, <2>2 DEF Side
        <4>2. ~(q >= price)
          BY <1>6, <2>2 DEF Crosses, Contra
        <4> QED BY <4>1, <4>2
      <3> QED BY <1>1, <1>3, <1>4, <2>2, <3>1 DEF IInv, Uncrossed, Side
    <2> QED BY <1>1, <2>1, <2>2 DEF Side
  <1>8. Matching' /\ Levels'
    BY <1>2, <1>3 DEF Matching, LevelsKept
  <1>9. Known'
    BY <1>1, <1>3, <1>4 DEF IInv, Known
  <1>10. Settled'
    <2>1. [side |-> side, price |-> price] # Nowhere
      BY <1>1 DEF Nowhere, Side
    <2> HIDE DEF side, price
    <2>2. \A x \in OrderId : where'[x] = Nowhere => where[x] = Nowhere /\ x # i
      BY <1>1, <1>3, <1>4, <2>1
    <2> QED BY Zenon, <2>2 DEF IInv, Settled
  <1> QED BY <1>5, <1>7, <1>8, <1>9, <1>10 DEF IInv

\* Matching is over and nothing rests.
LEMMA DropIInv ==
    ASSUME IInv, ~Idle, result' = Result("none", 0),
           ledger' = Book("cancelled", incoming.id, incoming.units),
           incoming' = NoIncoming, UNCHANGED <<bookVars, seen, arrivals, executions>>
    PROVE  IInv'
  <1> DEFINE i == incoming.id
             u == incoming.units
  <1>1. /\ i \in OrderId /\ u \in Nat /\ where[i] = Nowhere
        /\ Left(ledger, i) = u /\ arrivals \in Nat /\ arrivals > 0
    BY SMTT(30), IncomingFacts, MaxCommandsAssumption DEF IInv, TypeOK, Matching
  <1>2. Idle' /\ Last' = arrivals /\ Last = arrivals - 1
    BY DEF Idle, Last
  <1>3. /\ ledger' \in [OrderId -> [submitted : Int, executed : Int, cancelled : Int]]
        /\ Left(ledger', i) = Left(ledger, i) - u
        /\ \A x \in OrderId \ {i} : Left(ledger', x) = Left(ledger, x)
    <2>1. u \in Int /\ ledger' = Book("cancelled", i, u)
      BY <1>1
    <2> HIDE DEF i, u
    <2> QED BY <1>1, <2>1, BookLedger
  <1>4. TypeOK'
    <2>1. result' \in [rejection : Rejections, units : Nat]
      BY DEF Result, Rejections
    <2> QED BY <1>3, <2>1 DEF IInv, TypeOK, Incoming, bookVars
  <1>5. Levels'
    <2>1. Last' \in Nat /\ Last <= Last'
      BY <1>1, <1>2
    <2>2. \A x \in OrderId : where[x] # Nowhere => Left(ledger', x) = Left(ledger, x)
      BY <1>1, <1>3
    <2> QED BY <2>1, <2>2, LevelsStand
  <1>6. Matching' /\ Known' /\ Uncrossed'
    BY Zenon, <1>2 DEF IInv, Matching, Known, Uncrossed, bookVars
  <1>7. Settled'
    <2> SUFFICES ASSUME NEW x \in OrderId, where[x] = Nowhere PROVE Left(ledger', x) = 0
      BY DEF Settled, bookVars
    <2>1. CASE x = i
      BY <1>1, <1>3, <2>1
    <2>2. CASE x # i
      BY <1>3, <2>2 DEF IInv, Settled
    <2> QED BY <2>1, <2>2
  <1> QED BY <1>4, <1>5, <1>6, <1>7 DEF IInv

LEMMA NextIInv == IInv /\ [Next]_vars => IInv'
  <1> SUFFICES ASSUME IInv, [Next]_vars PROVE IInv'
    OBVIOUS
  <1>1. ASSUME NEW o \in NewOrder, Submit(o) PROVE IInv'
    BY <1>1, RefuseIInv, SubmitIInv DEF Submit, Rejections
  <1>2. ASSUME NEW id \in OrderId, Cancel(id) PROVE IInv'
    BY <1>2, RefuseIInv, CancelIInv DEF Cancel, Rejections
  <1>3. ASSUME NEW id \in OrderId, NEW price \in Price, NEW units \in Units,
               Replace(id, price, units)
        PROVE  IInv'
    BY <1>3, RefuseIInv, ReduceIInv, MoveIInv DEF Replace, Rejections
  <1>4. CASE MatchFront
    BY <1>4, MatchIInv
  <1>5. CASE Finish
    BY Zenon, <1>5, RestIInv, DropIInv DEF Finish
  <1>6. CASE NoMoreCommands \/ UNCHANGED vars
    <2>1. UNCHANGED <<prices, orders, total, where, count, seen, arrivals, incoming,
                      executions, result, ledger>>
      BY <1>6 DEF NoMoreCommands, vars, bookVars
    <2>2. TypeOK'
      BY <2>1 DEF IInv, TypeOK
    <2>3. Levels'
      BY <2>1 DEF IInv, Levels, Last, Idle
    <2>4. Matching' /\ Known' /\ Settled' /\ Uncrossed'
      BY <2>1 DEF IInv, Matching, Known, Settled, Uncrossed, Idle
    <2> QED BY <2>2, <2>3, <2>4 DEF IInv
  <1> QED BY <1>1, <1>2, <1>3, <1>4, <1>5, <1>6 DEF Next

\* The inductive invariant holds in every reachable state.
THEOREM IInvHolds == Spec => []IInv
  BY InitIInv, NextIInv, PTL DEF Spec

\* Every variable of the book keeps its type.
THEOREM TypeCorrect == Spec => []TypeOK
  <1>1. IInv => TypeOK
    BY DEF IInv
  <1> QED BY <1>1, IInvHolds, PTL

\* The book never locks or crosses: every bid is below every ask, also while a
\* command is being matched.
THEOREM SpreadKept == Spec => []Uncrossed
  <1>1. IInv => Uncrossed
    BY DEF IInv
  <1> QED BY <1>1, IInvHolds, PTL

\* resting_orders_ and the lists of the levels always agree.
THEOREM IndexCorrect == Spec => []IndexAgrees
  <1>1. IInv => IndexAgrees
    <2> SUFFICES ASSUME IInv PROVE IndexAgrees
      OBVIOUS
    <2>1. \A s \in Side, p \in Price : p \in prices[s] <=> orders[s][p] # <<>>
      BY Zenon DEF IInv, Levels
    <2>2. \A s \in Side, p \in Price : \A i \in DOMAIN orders[s][p] :
             where[orders[s][p][i].id] = [side |-> s, price |-> p]
      <3> SUFFICES ASSUME NEW s \in Side, NEW p \in Price, NEW i \in DOMAIN orders[s][p]
                   PROVE  where[orders[s][p][i].id] = Loc(s, p)
        BY Zenon DEF Loc
      <3>1. orders[s][p][i].id \in Ids(orders[s][p])
        BY DEF Ids
      <3> QED BY <3>1 DEF IInv, Levels
    <2>3. \A id \in OrderId : where[id] # Nowhere =>
             \E i \in DOMAIN orders[where[id].side][where[id].price] :
                orders[where[id].side][where[id].price][i].id = id
      BY Zenon, Indexed
    <2>4. \A s \in Side, p \in Price : \A i, j \in DOMAIN orders[s][p] :
             orders[s][p][i].id = orders[s][p][j].id => i = j
      BY Zenon DEF IInv, Levels, Good, Queued
    <2>5. ~Idle => where[incoming.id] = Nowhere
      BY DEF IInv, Matching
    <2> QED BY Zenon, <2>1, <2>2, <2>3, <2>4, <2>5 DEF IndexAgrees
  <1> QED BY <1>1, IInvHolds, PTL

\* Units are conserved, order by order, through trades, cancels and replaces.
THEOREM UnitsConserved == Spec => []Conservation
  <1>1. IInv => Conservation
    <2> SUFFICES ASSUME IInv PROVE Conservation
      OBVIOUS
    <2>1. \A id : Balance(id) = Left(ledger, id)
      BY DEF Balance, Left
    <2>2. \A s \in Side, p \in Price : \A i \in DOMAIN orders[s][p] :
             Left(ledger, orders[s][p][i].id) = orders[s][p][i].units
      BY Zenon DEF IInv, Levels, Good, Paid
    <2>3. ~Idle => Left(ledger, incoming.id) = incoming.units
      BY DEF IInv, Matching
    <2> QED BY <2>1, <2>2, <2>3 DEF IInv, Settled, Conservation
  <1> QED BY <1>1, IInvHolds, PTL
==============================================================================
