------------------------- MODULE MatchingEngineProofs -------------------------
(***************************************************************************)
(* The matching engine service for every set of sessions and orders and     *)
(* every number of commands.                                                *)
(***************************************************************************)
EXTENDS MatchingEngine, TLAPS

------------------------------------------------------------------------------
(* The inductive invariant *)

Limit == Price \cup {NoPrice}
RestingOrder == [id : OrderId, sequence : Nat, side : Side, price : Limit, units : Nat \ {0}]
IncomingOrder == [id : OrderId, side : Side, type : OrderType, price : Limit, units : Nat]
Trade == [resting : OrderId, incoming : OrderId, price : Limit, units : Nat]
Kind == {"new", "cancel", "replace"}
TerminalTypes == {"order_accepted", "order_rejected", "cancel_accepted", "cancel_rejected",
                  "replace_accepted", "replace_rejected"}
Message == [session : Session, type : {"execution"} \cup TerminalTypes, more : BOOLEAN,
            about : Trade \cup [id : OrderId, units : Nat]]

Typed ==
    /\ book \in SUBSET RestingOrder /\ seen \in SUBSET OrderId /\ arrivals \in Nat
    /\ incoming \in IncomingOrder \cup {NoIncoming}
    /\ executions \in Seq(Trade) /\ result \in [rejection : Rejections, units : Nat]
    /\ command \in [session : Session \cup {NoSession}, kind : Kind, id : OrderId \cup {NoOrder}]
    /\ handling \in BOOLEAN /\ reported \in 0 .. Len(executions)
    /\ order_sessions \in [OrderId -> Session \cup {NoSession}]
    /\ entrant \in [OrderId -> Session \cup {NoSession}]
    /\ responses \in Seq(Message)
    /\ handling => arrivals > 0
    /\ arrivals > 0 => command.session \in Session /\ command.id \in OrderId

\* An identifier rests once at most, and only after it was accepted.
OneOrderPerId ==
    /\ \A a, b \in book : a.id = b.id => a = b
    /\ \A o \in book : o.id \in seen

\* While the book matches an order, that order does not rest, and the orders it
\* has traded with are gone, unless it has nothing left to trade.
Matching == incoming # NoIncoming
WhileMatching ==
    Matching =>
       /\ handling /\ command.kind # "cancel" /\ command.id = incoming.id
       /\ incoming.id \in seen /\ ~Contains(incoming.id)
       /\ responses = <<>> /\ reported = 0
       /\ incoming.units > 0 => \A k \in DOMAIN executions : ~Contains(executions[k].resting)
       /\ command.kind = "new" => order_sessions[command.id] = NoSession

\* A command trades with an order once at most, and never with its own.
TradesOnce ==
    /\ \A k, l \in DOMAIN executions : executions[k].resting = executions[l].resting => k = l
    /\ \A k \in DOMAIN executions : executions[k].resting # command.id

\* The trades still to be reported are with orders that may be gone: their owners
\* stay known until then.  The order of the command itself has its owner once the
\* handler is done.
Pending(id) == \E k \in DOMAIN executions : k > reported /\ executions[k].resting = id
Rejected == ~Matching /\ result.rejection # "none"
Settled(id) == ~handling \/ id # command.id \/ Rejected
Owned ==
    \A id \in OrderId : Settled(id) =>
       /\ order_sessions[id] = IF Contains(id) \/ Pending(id) THEN entrant[id] ELSE NoSession
       /\ Contains(id) \/ Pending(id) => entrant[id] \in Session

\* The outcome is that of the book.
Acknowledged == {o.units : o \in Book!Resting(command.id)} = {result.units} \ {0}
Outcome ==
    ~Matching =>
       /\ result.rejection # "none" => executions = <<>>
       /\ arrivals > 0 /\ result.rejection = "none" /\ command.kind # "cancel" => Acknowledged
       /\ handling /\ result.rejection = "none" =>
             /\ command.kind = "new" => order_sessions[command.id] = NoSession
             /\ command.kind = "cancel" => ~Contains(command.id)

\* What has been told: the trades up to the one reported last.
Messages ==
    /\ \A i \in DOMAIN responses : IsExecution(responses[i]) =>
          /\ responses[i].more = (responses[i].session = command.session)
          /\ \E k \in 1 .. reported :
                Tell(i, k) /\ responses[i].session \in Parties(executions[k])
    /\ \A k \in 1 .. reported : \A s \in Parties(executions[k]) :
          \E i \in DOMAIN responses : Tell(i, k) /\ responses[i].session = s
    /\ \A i, j \in DOMAIN responses : \A k, l \in DOMAIN executions :
          i < j /\ responses[i].session = responses[j].session /\ Tell(i, k) /\ Tell(j, l)
             => k < l

\* The terminal response is the last, and the handler ends with it.
Ending ==
    /\ handling => \A i \in DOMAIN responses : IsExecution(responses[i])
    /\ ~handling => ~Matching /\ reported = Len(executions)
    /\ ~handling /\ arrivals > 0 =>
          LET last == Len(responses) IN
          /\ last > 0
          /\ responses[last] = Terminal(command.session,
                                        TerminalType(command.kind, result.rejection),
                                        command.id, result.units)
          /\ \A i \in 1 .. last - 1 : IsExecution(responses[i])

Inv == /\ Typed /\ OneOrderPerId /\ WhileMatching /\ TradesOnce /\ Owned /\ Outcome
       /\ Messages /\ Ending

------------------------------------------------------------------------------
(* Lemmas *)

\* What Append does to the elements and the length.
LEMMA AppendFacts ==
    ASSUME NEW S, NEW s \in Seq(S), NEW e \in S
    PROVE  /\ Append(s, e) \in Seq(S)
           /\ Len(s) \in Nat /\ Len(Append(s, e)) = Len(s) + 1
           /\ DOMAIN s = 1 .. Len(s) /\ DOMAIN Append(s, e) = 1 .. Len(s) + 1
           /\ Append(s, e)[Len(s) + 1] = e
           /\ \A i \in 1 .. Len(s) : Append(s, e)[i] = s[i]
  OBVIOUS

\* The book and the service share the vocabulary of OrderTypes.
LEMMA BookNames ==
    /\ Book!NoIncoming = NoIncoming
    /\ \A rejection, units : Book!Result(rejection, units) = Result(rejection, units)
    /\ \A a, b, price, units : Book!Execution(a, b, price, units) = Execution(a, b, price, units)
    /\ \A a, b : Book!Smaller(a, b) = Smaller(a, b)
  <1>1. Book!NoIncoming = NoIncoming
    BY DEF Book!NoIncoming, NoIncoming, Book!NoPrice, NoPrice
  <1>2. \A rejection, units : Book!Result(rejection, units) = Result(rejection, units)
    BY DEF Book!Result, Result
  <1>3. \A a, b, price, units : Book!Execution(a, b, price, units) = Execution(a, b, price, units)
    BY DEF Book!Execution, Execution
  <1>4. \A a, b : Book!Smaller(a, b) = Smaller(a, b)
    BY DEF Book!Smaller, Smaller
  <1> QED BY <1>1, <1>2, <1>3, <1>4

\* An order of the book rests under its identifier.
LEMMA ContainsMember ==
    \A id : Contains(id) <=> \E o \in book : o.id = id
  BY DEF Contains, Book!Resting

\* The same of the next state.
LEMMA ContainsMemberNext ==
    \A id : Contains(id)' <=> \E o \in book' : o.id = id
  BY DEF Contains, Book!Resting

\* NoIncoming is not an order.
LEMMA NotIncoming ==
    \A o \in IncomingOrder : o # NoIncoming
  BY OrderIdAssumption DEF IncomingOrder, NoIncoming

\* Between commands every entry of order_sessions_ is settled.
LEMMA IdleOwners ==
    ASSUME Inv, ~handling, NEW id \in OrderId
    PROVE  /\ order_sessions[id] = IF Contains(id) THEN entrant[id] ELSE NoSession
           /\ Contains(id) => entrant[id] \in Session
  <1>1. reported = Len(executions) /\ executions \in Seq(Trade)
    BY DEF Inv, Ending, Typed
  <1>2. ~Pending(id)
    BY <1>1 DEF Pending
  <1> QED BY <1>2 DEF Inv, Owned, Settled

------------------------------------------------------------------------------
(* The begin of a command *)

\* A command begins with no trades and no responses; whatever the book does at
\* once, it does to the order the command names, and nothing if it refuses.
LEMMA BeginStep ==
    ASSUME Inv, NEW s \in Session, NEW kind \in Kind, NEW id \in OrderId, Begin(s, kind, id),
           Book!Arrive,
           book' \in SUBSET RestingOrder, seen' \in SUBSET OrderId,
           incoming' \in IncomingOrder \cup {NoIncoming},
           result' \in [rejection : Rejections, units : Nat],
           \A x \in OrderId : x # id => (Contains(x)' <=> Contains(x)),
           Rejected' => (Contains(id)' <=> Contains(id))
    PROVE  Typed' /\ TradesOnce' /\ Owned' /\ Messages' /\ Ending'
  <1>1. /\ ~handling /\ handling' = TRUE /\ reported' = 0 /\ responses' = <<>>
        /\ executions' = <<>> /\ arrivals' = arrivals + 1
        /\ command' = [session |-> s, kind |-> kind, id |-> id]
        /\ UNCHANGED <<order_sessions, entrant>>
    BY DEF Begin, Book!Arrive
  <1>2. command'.session = s /\ command'.id = id
    BY <1>1
  <1>3. DOMAIN <<>> = {} /\ Len(<<>>) = 0 /\ 1 .. 0 = {}
    OBVIOUS
  <1>4. Typed'
    <2>1. command' \in [session : Session \cup {NoSession}, kind : Kind, id : OrderId \cup {NoOrder}]
      BY <1>1
    <2>2. executions' \in Seq(Trade) /\ responses' \in Seq(Message)
      BY <1>1
    <2>3. reported' \in 0 .. Len(executions')
      BY <1>1, <1>3
    <2>4. arrivals' \in Nat /\ arrivals' > 0
      BY <1>1 DEF Inv, Typed
    <2>5. /\ order_sessions' \in [OrderId -> Session \cup {NoSession}]
          /\ entrant' \in [OrderId -> Session \cup {NoSession}]
      BY <1>1 DEF Inv, Typed
    <2> QED BY <1>1, <1>2, <2>1, <2>2, <2>3, <2>4, <2>5 DEF Typed
  <1>5. TradesOnce'
    BY <1>1, <1>3 DEF TradesOnce
  <1>6. Owned'
    <2> SUFFICES ASSUME NEW x \in OrderId, Settled(x)'
                 PROVE  /\ order_sessions'[x] = IF Contains(x)' \/ Pending(x)' THEN entrant'[x]
                                                ELSE NoSession
                        /\ Contains(x)' \/ Pending(x)' => entrant'[x] \in Session
      BY DEF Owned
    <2>1. ~Pending(x)'
      BY <1>1, <1>3 DEF Pending
    <2>2. Contains(x)' <=> Contains(x)
      BY <1>1, <1>2 DEF Settled
    <2>3. /\ order_sessions[x] = IF Contains(x) THEN entrant[x] ELSE NoSession
          /\ Contains(x) => entrant[x] \in Session
      BY <1>1, IdleOwners
    <2> QED BY <1>1, <2>1, <2>2, <2>3
  <1>7. Messages'
    BY <1>1, <1>3 DEF Messages
  <1>8. Ending'
    BY <1>1, <1>3 DEF Ending
  <1> QED BY <1>4, <1>5, <1>6, <1>7, <1>8

\* A refused command leaves the book as it is.
LEMMA RefuseKeeps ==
    ASSUME Inv, NEW s \in Session, NEW kind \in Kind, NEW id \in OrderId, Begin(s, kind, id),
           Book!Arrive, NEW reason \in Rejections \ {"none"}, Book!Refuse(reason)
    PROVE  Inv'
  <1>1. /\ book' = book /\ seen' = seen /\ incoming' = NoIncoming
        /\ result' = [rejection |-> reason, units |-> 0] /\ executions' = <<>>
    BY BookNames DEF Book!Arrive, Book!Refuse, Book!Idle, Result
  <1>2. \A x : Contains(x)' <=> Contains(x)
    BY <1>1 DEF Contains, Book!Resting
  <1>3. Typed' /\ TradesOnce' /\ Owned' /\ Messages' /\ Ending'
    <2>1. /\ book' \in SUBSET RestingOrder /\ seen' \in SUBSET OrderId
      BY <1>1 DEF Inv, Typed
    <2>2. /\ incoming' \in IncomingOrder \cup {NoIncoming}
          /\ result' \in [rejection : Rejections, units : Nat]
      BY <1>1
    <2> QED BY <1>2, <2>1, <2>2, BeginStep
  <1>4. OneOrderPerId'
    BY <1>1 DEF Inv, OneOrderPerId
  <1>5. WhileMatching'
    BY <1>1 DEF WhileMatching, Matching
  <1>6. Outcome'
    BY <1>1 DEF Outcome
  <1> QED BY <1>3, <1>4, <1>5, <1>6 DEF Inv

\* A new order that is accepted has never been seen, so it does not rest.
LEMMA NewOrderKeeps ==
    ASSUME Inv, NEW s \in Session, NEW o \in NewOrder, NewOrderCommand(s, o)
    PROVE  Inv'
  <1>1. Begin(s, "new", o.id) /\ Book!Submit(o) /\ o.id \in OrderId /\ "new" \in Kind
    BY DEF NewOrderCommand, NewOrder, Kind
  <1>2. Book!Arrive
    BY <1>1 DEF Book!Submit
  <1>3. CASE Book!Refuse("invalid_order")
    BY <1>1, <1>2, <1>3, RefuseKeeps DEF Rejections
  <1>4. CASE Book!Refuse("duplicate_order_id")
    BY <1>1, <1>2, <1>4, RefuseKeeps DEF Rejections
  <1>5. CASE /\ o.id \notin seen /\ seen' = seen \cup {o.id} /\ incoming' = o
             /\ book' = book /\ result' = result
    <2>1. \A x : Contains(x)' <=> Contains(x)
      BY <1>5 DEF Contains, Book!Resting
    <2>2. o \in IncomingOrder
      BY UnitsAssumption, Zenon DEF NewOrder, IncomingOrder, Limit
    <2>3. o # NoIncoming
      BY <2>2, NotIncoming
    <2>4. Typed' /\ TradesOnce' /\ Owned' /\ Messages' /\ Ending'
      <3>1. /\ book' \in SUBSET RestingOrder /\ seen' \in SUBSET OrderId
            /\ result' \in [rejection : Rejections, units : Nat]
        BY <1>1, <1>5 DEF Inv, Typed
      <3>2. incoming' \in IncomingOrder \cup {NoIncoming}
        BY <1>5, <2>2
      <3> QED BY <1>1, <1>2, <2>1, <3>1, <3>2, BeginStep
    <2>5. OneOrderPerId'
      BY <1>5 DEF Inv, OneOrderPerId
    <2>6. ~Contains(o.id)
      BY <1>5, ContainsMember DEF Inv, OneOrderPerId
    <2>7. order_sessions[o.id] = NoSession
      BY <1>1, <2>6, IdleOwners DEF Begin
    <2>8. WhileMatching'
      <3>1. /\ handling' = TRUE /\ responses' = <<>> /\ reported' = 0 /\ executions' = <<>>
            /\ command' = [session |-> s, kind |-> "new", id |-> o.id]
            /\ order_sessions' = order_sessions
        BY <1>1, <1>2 DEF Begin, Book!Arrive
      <3>2. command'.kind # "cancel" /\ command'.id = o.id
        BY <3>1
      <3>3. ~Contains(o.id)'
        BY <2>1, <2>6
      <3>4. ~Contains(incoming.id)'
        BY <1>5, <3>3, ContainsMemberNext
      <3> QED BY <1>5, <2>7, <3>1, <3>2, <3>4 DEF WhileMatching
    <2>9. Outcome'
      BY <1>5, <2>3 DEF Outcome, Matching
    <2> QED BY <2>4, <2>5, <2>8, <2>9 DEF Inv
  <1> QED BY <1>1, <1>3, <1>4, <1>5 DEF Book!Submit

\* The order a cancel or a replace takes off the book is the only one of its
\* identifier.
LEMMA TakenOff ==
    ASSUME Inv, NEW id \in OrderId, NEW o \in Book!Resting(id), book' = book \ {o}
    PROVE  /\ book' \in SUBSET RestingOrder
           /\ ~Contains(id)'
           /\ \A x : x # id => (Contains(x)' <=> Contains(x))
           /\ seen' = seen => OneOrderPerId'
  <1>1. o \in book /\ o.id = id
    BY DEF Book!Resting
  <1>2. \A b \in book : b.id = id => b = o
    BY <1>1 DEF Inv, OneOrderPerId
  <1>3. book' \in SUBSET RestingOrder
    BY DEF Inv, Typed
  <1>4. ~Contains(id)'
    BY <1>2, ContainsMemberNext
  <1>5. \A x : x # id => (Contains(x)' <=> Contains(x))
    BY <1>1, ContainsMember, ContainsMemberNext
  <1>6. seen' = seen => OneOrderPerId'
    BY DEF Inv, OneOrderPerId
  <1> QED BY <1>3, <1>4, <1>5, <1>6

\* A cancelled order is gone; its entry is still there when the handler goes on.
LEMMA CancelOrderKeeps ==
    ASSUME Inv, NEW s \in Session, NEW id \in OrderId, CancelOrderCommand(s, id)
    PROVE  Inv'
  <1>1. Begin(s, "cancel", id) /\ Book!Cancel(id) /\ "cancel" \in Kind
    BY DEF CancelOrderCommand, Kind
  <1>2. Book!Arrive
    BY <1>1 DEF Book!Cancel
  <1>3. CASE Book!Refuse("order_not_found")
    BY <1>1, <1>2, <1>3, RefuseKeeps DEF Rejections
  <1>4. ASSUME NEW o \in Book!Resting(id), book' = book \ {o},
               result' = Book!Result("none", o.units), seen' = seen, incoming' = incoming
        PROVE  Inv'
    <2>1. /\ book' \in SUBSET RestingOrder /\ ~Contains(id)'
          /\ \A x : x # id => (Contains(x)' <=> Contains(x))
          /\ OneOrderPerId'
      BY <1>4, TakenOff
    <2>2. result' = [rejection |-> "none", units |-> o.units] /\ o.units \in Nat
      BY <1>4, BookNames DEF Result, Book!Resting, Inv, Typed, RestingOrder
    <2>3. incoming' = NoIncoming
      BY <1>2, <1>4, BookNames DEF Book!Arrive, Book!Idle
    <2>4. Typed' /\ TradesOnce' /\ Owned' /\ Messages' /\ Ending'
      <3>1. seen' \in SUBSET OrderId
        BY <1>4 DEF Inv, Typed
      <3>2. ~Rejected'
        BY <2>2 DEF Rejected
      <3>3. result' \in [rejection : Rejections, units : Nat]
        BY <2>2 DEF Rejections
      <3> QED BY <1>1, <1>2, <2>1, <2>3, <3>1, <3>2, <3>3, BeginStep
    <2>5. WhileMatching'
      BY <2>3 DEF WhileMatching, Matching
    <2>6. Outcome'
      <3>1. command' = [session |-> s, kind |-> "cancel", id |-> id]
        BY <1>1 DEF Begin
      <3>2. command'.kind = "cancel" /\ command'.id = id /\ result'.rejection = "none"
        BY <3>1, <2>2
      <3>3. ~Contains(command.id)'
        BY <2>1, <3>2, ContainsMemberNext
      <3> QED BY <3>2, <3>3 DEF Outcome
    <2> QED BY <2>1, <2>4, <2>5, <2>6 DEF Inv
  <1> QED BY <1>1, <1>3, <1>4 DEF Book!Cancel

\* A reduction in place: the order keeps its identifier and rests with the new
\* units.
LEMMA ReducedInPlace ==
    ASSUME Inv, NEW id \in OrderId, NEW o \in Book!Resting(id), NEW units \in Nat \ {0},
           book' = (book \ {o}) \cup {[o EXCEPT !.units = units]}
    PROVE  /\ book' \in SUBSET RestingOrder
           /\ \A x : Contains(x)' <=> Contains(x)
           /\ seen' = seen => OneOrderPerId'
           /\ \A x : x = id => {b.units : b \in Book!Resting(x)'} = {units}
  <1> DEFINE n == [o EXCEPT !.units = units]
  <1>1. o \in book /\ o.id = id /\ o \in RestingOrder
    BY DEF Book!Resting, Inv, Typed
  <1>2. n \in RestingOrder /\ n.id = id /\ n.units = units
    BY <1>1 DEF RestingOrder
  <1>3. \A b \in book : b.id = id => b = o
    BY <1>1 DEF Inv, OneOrderPerId
  <1>4. book' = (book \ {o}) \cup {n}
    OBVIOUS
  <1> HIDE DEF n
  <1>5. book' \in SUBSET RestingOrder
    BY <1>2, <1>4 DEF Inv, Typed
  <1>6. \A x : Contains(x)' <=> Contains(x)
    BY <1>1, <1>2, <1>4, ContainsMember, ContainsMemberNext
  <1>7. seen' = seen => OneOrderPerId'
    BY <1>1, <1>2, <1>3, <1>4 DEF Inv, OneOrderPerId
  <1>8. \A x : x = id => Book!Resting(x)' = {n}
    BY <1>2, <1>3, <1>4 DEF Book!Resting
  <1> QED BY <1>2, <1>5, <1>6, <1>7, <1>8

\* A replace reduces its order in place, or takes it off the book and matches it.
LEMMA ReplaceOrderKeeps ==
    ASSUME Inv, NEW s \in Session, NEW id \in OrderId, NEW price \in Price, NEW units \in Units,
           ReplaceOrderCommand(s, id, price, units)
    PROVE  Inv'
  <1>1. Begin(s, "replace", id) /\ Book!Replace(id, price, units) /\ "replace" \in Kind
    BY DEF ReplaceOrderCommand, Kind
  <1>2. Book!Arrive
    BY <1>1 DEF Book!Replace
  <1>3. /\ handling' = TRUE /\ responses' = <<>> /\ reported' = 0 /\ executions' = <<>>
        /\ command' = [session |-> s, kind |-> "replace", id |-> id]
    BY <1>1, <1>2 DEF Begin, Book!Arrive
  <1>4. command'.kind = "replace" /\ command'.id = id
    BY <1>3
  <1>5. units \in Nat \ {0}
    BY UnitsAssumption
  <1>6. CASE Book!Refuse("order_not_found")
    BY <1>1, <1>2, <1>6, RefuseKeeps DEF Rejections
  <1>7. ASSUME NEW o \in Book!Resting(id),
               book' = (book \ {o}) \cup {[o EXCEPT !.units = units]},
               result' = Book!Result("none", units), seen' = seen, incoming' = incoming
        PROVE  Inv'
    <2>1. /\ book' \in SUBSET RestingOrder
          /\ \A x : Contains(x)' <=> Contains(x)
          /\ OneOrderPerId'
          /\ \A x : x = id => {b.units : b \in Book!Resting(x)'} = {units}
      BY <1>5, <1>7, ReducedInPlace
    <2>2. result' = [rejection |-> "none", units |-> units]
      BY <1>7, BookNames DEF Result
    <2>3. incoming' = NoIncoming
      BY <1>2, <1>7, BookNames DEF Book!Arrive, Book!Idle
    <2>4. Typed' /\ TradesOnce' /\ Owned' /\ Messages' /\ Ending'
      <3>1. seen' \in SUBSET OrderId
        BY <1>7 DEF Inv, Typed
      <3>2. result' \in [rejection : Rejections, units : Nat]
        BY <1>5, <2>2 DEF Rejections
      <3> QED BY <1>1, <1>2, <2>1, <2>3, <3>1, <3>2, BeginStep
    <2>5. WhileMatching'
      BY <2>3 DEF WhileMatching, Matching
    <2>6. Outcome'
      <3>1. {b.units : b \in Book!Resting(command.id)'} = {units}
        BY <1>4, <2>1
      <3>2. Acknowledged'
        BY <1>5, <2>2, <3>1 DEF Acknowledged
      <3> QED BY <1>4, <2>2, <3>2 DEF Outcome
    <2> QED BY <2>1, <2>4, <2>5, <2>6 DEF Inv
  <1>8. ASSUME NEW o \in Book!Resting(id), book' = book \ {o},
               incoming' = [id |-> id, side |-> o.side, type |-> "limit",
                            price |-> price, units |-> units],
               seen' = seen, result' = result
        PROVE  Inv'
    <2>1. /\ book' \in SUBSET RestingOrder /\ ~Contains(id)'
          /\ \A x : x # id => (Contains(x)' <=> Contains(x))
          /\ OneOrderPerId'
      BY <1>8, TakenOff
    <2>2. o.side \in Side /\ id \in seen
      BY DEF Book!Resting, Inv, Typed, RestingOrder, OneOrderPerId
    <2>3. incoming' \in IncomingOrder /\ incoming'.id = id
      BY <1>5, <1>8, <2>2 DEF IncomingOrder, OrderType, Limit
    <2>4. incoming' # NoIncoming
      BY <2>3, NotIncoming
    <2>5. Typed' /\ TradesOnce' /\ Owned' /\ Messages' /\ Ending'
      <3>1. seen' \in SUBSET OrderId /\ result' \in [rejection : Rejections, units : Nat]
        BY <1>8 DEF Inv, Typed
      <3>2. ~Rejected'
        BY <2>4 DEF Rejected, Matching
      <3>3. incoming' \in IncomingOrder \cup {NoIncoming}
        BY <2>3
      <3> QED BY <1>1, <1>2, <2>1, <3>1, <3>2, <3>3, BeginStep
    <2>6. WhileMatching'
      <3>1. ~Contains(incoming.id)'
        BY <2>1, <2>3, ContainsMemberNext
      <3>2. DOMAIN executions' = {}
        BY <1>3
      <3>3. seen' = seen
        BY <1>8
      <3> QED BY ONLY <1>3, <1>4, <2>2, <2>3, <3>1, <3>2, <3>3 DEF WhileMatching
    <2>7. Outcome'
      BY <2>4 DEF Outcome, Matching
    <2> QED BY <2>1, <2>5, <2>6, <2>7 DEF Inv
  <1> QED BY <1>1, <1>6, <1>7, <1>8 DEF Book!Replace

------------------------------------------------------------------------------
(* Matching *)

\* What stays while the book matches: nothing has been told yet.
LEMMA MatchFrame ==
    ASSUME Inv, Match, Matching
    PROVE  /\ handling /\ handling' = TRUE /\ responses' = <<>> /\ reported' = 0
           /\ command' = command /\ order_sessions' = order_sessions /\ entrant' = entrant
           /\ Messages' /\ Ending'
  <1>1. /\ handling /\ handling' = TRUE /\ responses' = <<>> /\ reported' = 0 /\ reported = 0
        /\ command' = command /\ order_sessions' = order_sessions /\ entrant' = entrant
    BY DEF Inv, WhileMatching, Match, Typed
  <1>2. DOMAIN <<>> = {} /\ 1 .. 0 = {}
    OBVIOUS
  <1>3. Messages'
    BY <1>1, <1>2 DEF Messages
  <1>4. Ending'
    BY <1>1, <1>2 DEF Ending
  <1> QED BY <1>1, <1>3, <1>4

\* A trade: the resting order is new among the traded ones, and it is gone unless
\* the incoming order is.
LEMMA MatchBestKeeps ==
    ASSUME Inv, Match, Book!MatchBest
    PROVE  Inv'
  <1>1. Matching /\ incoming.units > 0
    BY BookNames DEF Book!MatchBest, Book!Idle, Matching
  <1>2. PICK o \in Book!Candidates :
          LET traded == Smaller(incoming.units, o.units) IN
          /\ executions' = Append(executions,
                                  Execution(o.id, incoming.id, o.price, traded))
          /\ incoming' = [incoming EXCEPT !.units = @ - traded]
          /\ book' = (book \ {o}) \cup
                     (IF o.units = traded THEN {}
                      ELSE {[o EXCEPT !.units = @ - traded]})
    BY BookNames, Zenon DEF Book!MatchBest
  <1>3. seen' = seen /\ arrivals' = arrivals /\ result' = result
    BY DEF Book!MatchBest
  <1>4. /\ handling /\ handling' = TRUE /\ responses' = <<>> /\ reported' = 0
        /\ command' = command /\ order_sessions' = order_sessions /\ entrant' = entrant
        /\ Messages' /\ Ending'
    BY <1>1, MatchFrame
  <1> DEFINE traded == Smaller(incoming.units, o.units)
             e == Execution(o.id, incoming.id, o.price, traded)
             n == [o EXCEPT !.units = @ - traded]
             m == [incoming EXCEPT !.units = @ - traded]
  <1>5. o \in book /\ o \in RestingOrder /\ incoming \in IncomingOrder
    BY <1>1 DEF Book!Candidates, Inv, Typed, Matching
  <1>6. /\ traded \in Nat /\ traded <= incoming.units /\ traded <= o.units
        /\ traded = incoming.units \/ traded = o.units
        /\ o.units \in Nat \ {0} /\ incoming.units \in Nat
    BY <1>5 DEF Smaller, RestingOrder, IncomingOrder
  <1>7. e \in Trade /\ e.resting = o.id
    BY <1>5, <1>6 DEF Execution, Trade, RestingOrder, IncomingOrder
  <1>8. /\ m \in IncomingOrder /\ m.id = incoming.id
        /\ m.units = incoming.units - traded
    BY <1>5, <1>6 DEF IncomingOrder
  <1>9. /\ n.id = o.id
        /\ o.units # traded => n \in RestingOrder
    BY <1>5, <1>6 DEF RestingOrder
  <1>10. /\ executions' = Append(executions, e) /\ incoming' = m
         /\ book' = (book \ {o}) \cup (IF o.units = traded THEN {} ELSE {n})
    BY <1>2
  <1> HIDE DEF e, n, m, traded
  <1>11. \A b \in book : b.id = o.id => b = o
    BY <1>5 DEF Inv, OneOrderPerId
  <1>12. /\ \A x : x # o.id => (Contains(x)' <=> Contains(x))
         /\ Contains(o.id)
         /\ o.units = traded => ~Contains(o.id)'
    BY <1>5, <1>9, <1>10, <1>11, ContainsMember, ContainsMemberNext
  <1>13. o.id # incoming.id
    BY <1>1, <1>12 DEF Inv, WhileMatching
  <1>14. \A k \in DOMAIN executions : executions[k].resting # o.id
    BY <1>1, <1>12 DEF Inv, WhileMatching
  <1>15. /\ executions \in Seq(Trade) /\ executions' \in Seq(Trade)
         /\ Len(executions) \in Nat /\ Len(executions') = Len(executions) + 1
         /\ DOMAIN executions = 1 .. Len(executions)
         /\ DOMAIN executions' = 1 .. Len(executions) + 1
         /\ executions'[Len(executions) + 1] = e
         /\ \A k \in 1 .. Len(executions) : executions'[k] = executions[k]
    <2>1. executions \in Seq(Trade)
      BY DEF Inv, Typed
    <2> QED BY <2>1, <1>7, <1>10, AppendFacts
  <1>16. incoming' # NoIncoming
    BY <1>8, <1>10, NotIncoming
  <1>17. Typed'
    <2>1. book' \in SUBSET RestingOrder
      BY <1>9, <1>10 DEF Inv, Typed
    <2>2. reported' \in 0 .. Len(executions')
      BY <1>4, <1>15
    <2>3. incoming' \in IncomingOrder \cup {NoIncoming}
      BY <1>8, <1>10
    <2> QED BY <1>3, <1>4, <1>15, <2>1, <2>2, <2>3 DEF Inv, Typed
  <1>18. OneOrderPerId'
    BY <1>3, <1>5, <1>9, <1>10, <1>11 DEF Inv, OneOrderPerId
  <1>19. WhileMatching'
    <2>1. ~Contains(incoming.id)
      BY <1>1 DEF Inv, WhileMatching
    <2>2. incoming'.id = incoming.id
      BY <1>8, <1>10
    <2>3. ~Contains(incoming.id)'
      BY <1>12, <1>13, <2>1, <2>2, ContainsMemberNext
    <2>4. ASSUME incoming'.units > 0, NEW k \in DOMAIN executions'
          PROVE  ~Contains(executions[k].resting)'
      <3>1. o.units = traded
        BY <1>6, <1>8, <1>10, <2>4
      <3>2. CASE k = Len(executions) + 1
        BY <1>7, <1>12, <1>15, <3>1, <3>2, ContainsMemberNext
      <3>3. CASE k \in 1 .. Len(executions)
        <4>1. executions'[k] = executions[k] /\ executions[k].resting # o.id
          BY <1>14, <1>15, <3>3
        <4>2. ~Contains(executions[k].resting)
          BY <1>1, <1>15, <3>3 DEF Inv, WhileMatching
        <4> DEFINE r == executions[k].resting
        <4>3. \A x : x = r => ~\E b \in book' : b.id = x
          BY <1>12, <4>1, <4>2, ContainsMemberNext
        <4> QED BY <4>1, <4>3, ContainsMemberNext
      <3> QED BY <1>15, <3>2, <3>3
    <2> QED BY <1>1, <1>3, <1>4, <2>2, <2>3, <2>4 DEF Inv, WhileMatching
  <1>20. TradesOnce'
    <2>1. command.id = incoming.id
      BY <1>1 DEF Inv, WhileMatching
    <2>2. \A k, l \in DOMAIN executions' :
             executions'[k].resting = executions'[l].resting => k = l
      BY <1>7, <1>14, <1>15 DEF Inv, TradesOnce
    <2>3. \A k \in DOMAIN executions' : executions'[k].resting # command.id
      BY <1>7, <1>13, <1>15, <2>1 DEF Inv, TradesOnce
    <2> QED BY <1>4, <2>2, <2>3 DEF TradesOnce
  <1>21. Owned'
    <2>1. reported = 0
      BY <1>1 DEF Inv, WhileMatching
    <2> SUFFICES ASSUME NEW x \in OrderId, Settled(x)'
                 PROVE  /\ order_sessions'[x] = IF Contains(x)' \/ Pending(x)' THEN entrant'[x]
                                                ELSE NoSession
                        /\ Contains(x)' \/ Pending(x)' => entrant'[x] \in Session
      BY DEF Owned
    <2>2. Settled(x)
      BY <1>4, <1>16 DEF Settled, Rejected, Matching
    <2>3. CASE x = o.id
      <3>1. Pending(x)'
        BY <1>4, <1>7, <1>15, <2>3 DEF Pending
      <3>2. Contains(x)
        BY <1>12, <2>3
      <3> QED BY <1>4, <2>2, <3>1, <3>2 DEF Inv, Owned
    <2>4. CASE x # o.id
      <3>1. Pending(x)' <=> Pending(x)
        <4>1. ASSUME Pending(x)' PROVE Pending(x)
          BY <1>4, <1>7, <1>15, <2>1, <2>4, <4>1 DEF Pending
        <4>2. ASSUME Pending(x) PROVE Pending(x)'
          BY <1>4, <1>15, <2>1, <4>2 DEF Pending
        <4> QED BY <4>1, <4>2
      <3> QED BY <1>4, <1>12, <2>2, <2>4, <3>1 DEF Inv, Owned
    <2> QED BY <2>3, <2>4
  <1>22. Outcome'
    BY <1>16 DEF Outcome, Matching
  <1> QED BY <1>4, <1>17, <1>18, <1>19, <1>20, <1>21, <1>22 DEF Inv

\* The end of matching: what is left of a limit order rests, and the result says
\* how much.
LEMMA FinishKeeps ==
    ASSUME Inv, Match, Book!Finish
    PROVE  Inv'
  <1>1. Matching
    BY BookNames DEF Book!Finish, Book!Idle, Matching
  <1> DEFINE rests == incoming.type = "limit" /\ incoming.units > 0
             n == [id |-> incoming.id, sequence |-> arrivals, side |-> incoming.side,
                   price |-> incoming.price, units |-> incoming.units]
  <1>2. /\ book' = IF rests THEN book \cup {n} ELSE book
        /\ result' = [rejection |-> "none", units |-> IF rests THEN incoming.units ELSE 0]
        /\ incoming' = NoIncoming
        /\ seen' = seen /\ arrivals' = arrivals /\ executions' = executions
    BY BookNames DEF Book!Finish, Result
  <1>3. /\ handling /\ handling' = TRUE /\ responses' = <<>> /\ reported' = 0
        /\ command' = command /\ order_sessions' = order_sessions /\ entrant' = entrant
        /\ Messages' /\ Ending'
    BY <1>1, MatchFrame
  <1>4. /\ incoming \in IncomingOrder /\ command.id = incoming.id /\ command.kind # "cancel"
        /\ incoming.id \in seen /\ ~Contains(incoming.id) /\ reported = 0
        /\ command.kind = "new" => order_sessions[command.id] = NoSession
    BY <1>1 DEF Inv, Typed, Matching, WhileMatching
  <1>5. /\ rests \in BOOLEAN /\ rests => n \in RestingOrder
        /\ n.id = incoming.id /\ n.units = incoming.units
        /\ (IF rests THEN incoming.units ELSE 0) \in Nat
        /\ rests => incoming.units # 0
    BY <1>4 DEF Inv, Typed, IncomingOrder, RestingOrder
  <1>6. /\ result'.rejection = "none" /\ result'.units = IF rests THEN incoming.units ELSE 0
        /\ result' \in [rejection : Rejections, units : Nat]
    BY <1>2, <1>5 DEF Rejections
  <1> HIDE DEF rests, n
  <1>7. \A x : x # incoming.id => (Contains(x)' <=> Contains(x))
    BY <1>2, <1>5, ContainsMember, ContainsMemberNext
  <1>8. \A b \in book : b.id # incoming.id
    BY <1>4, ContainsMember
  <1>9. Typed'
    <2>1. book' \in SUBSET RestingOrder
      BY <1>2, <1>5, Zenon DEF Inv, Typed
    <2>2. Typed /\ incoming' \in IncomingOrder \cup {NoIncoming} /\ reported = 0
      BY <1>2, <1>4 DEF Inv
    <2>3. /\ seen' = seen /\ arrivals' = arrivals /\ executions' = executions
          /\ command' = command /\ order_sessions' = order_sessions /\ entrant' = entrant
          /\ handling' = handling /\ reported' = reported /\ handling' \in BOOLEAN
      BY <1>2, <1>3, <2>2 DEF Typed
    <2>4. responses' \in Seq(Message)
      BY <1>3
    <2>5. result' \in [rejection : Rejections, units : Nat]
      BY <1>6
    <2> QED BY ONLY <2>1, <2>2, <2>3, <2>4, <2>5, Zenon DEF Typed
  <1>10. OneOrderPerId'
    <2>1. CASE rests
      BY <1>2, <1>4, <1>5, <1>8, <2>1 DEF Inv, OneOrderPerId
    <2>2. CASE ~rests
      BY <1>2, <2>2 DEF Inv, OneOrderPerId
    <2> QED BY <2>1, <2>2
  <1>11. WhileMatching'
    BY <1>2 DEF WhileMatching, Matching
  <1>12. TradesOnce'
    BY <1>2, <1>3 DEF Inv, TradesOnce
  <1>13. Owned'
    <2> SUFFICES ASSUME NEW x \in OrderId, Settled(x)'
                 PROVE  /\ order_sessions'[x] = IF Contains(x)' \/ Pending(x)' THEN entrant'[x]
                                                ELSE NoSession
                        /\ Contains(x)' \/ Pending(x)' => entrant'[x] \in Session
      BY DEF Owned
    <2>1. x # incoming.id
      BY <1>3, <1>4, <1>6 DEF Settled, Rejected
    <2>2. Settled(x)
      BY <1>4, <2>1 DEF Settled
    <2>3. Pending(x)' <=> Pending(x)
      BY <1>2, <1>3, <1>4 DEF Pending
    <2> QED BY <1>3, <1>7, <2>1, <2>2, <2>3 DEF Inv, Owned
  <1>14. Outcome'
    <2>1. \A x : x = incoming.id => Book!Resting(x)' = IF rests THEN {n} ELSE {}
      BY <1>2, <1>5, <1>8 DEF Book!Resting
    <2>2. Book!Resting(command.id)' = IF rests THEN {n} ELSE {}
      BY <1>3, <1>4, <2>1, Zenon
    <2>3. {b.units : b \in Book!Resting(command.id)'} = IF rests THEN {incoming.units} ELSE {}
      BY <1>5, <2>2
    <2>4. Acknowledged'
      BY <1>5, <1>6, <2>3 DEF Acknowledged
    <2> QED BY <1>3, <1>4, <1>6, <2>4 DEF Outcome
  <1> QED BY <1>3, <1>9, <1>10, <1>11, <1>12, <1>13, <1>14 DEF Inv

------------------------------------------------------------------------------
(* Telling the sessions *)

\* The messages about one trade: one for the session of the command, marked
\* "more", and one for the session of the resting order if that is another.
LEMMA TellsFacts ==
    ASSUME Inv, NEW e \in Trade, command.session \in Session,
           order_sessions[e.resting] = entrant[e.resting], entrant[e.resting] \in Session
    PROVE  /\ Tells(e) \in Seq(Message) /\ Len(Tells(e)) \in 1 .. 2
           /\ \A i \in 1 .. Len(Tells(e)) :
                 /\ IsExecution(Tells(e)[i]) /\ Tells(e)[i].about = e
                 /\ Tells(e)[i].session \in Parties(e)
                 /\ Tells(e)[i].more = (Tells(e)[i].session = command.session)
           /\ \A s \in Parties(e) : \E i \in 1 .. Len(Tells(e)) : Tells(e)[i].session = s
           /\ \A i, j \in 1 .. Len(Tells(e)) : i < j => Tells(e)[i].session # Tells(e)[j].session
  <1> DEFINE r == entrant[e.resting]
             a == ExecutionMessage(command.session, TRUE, e)
             b == ExecutionMessage(r, FALSE, e)
  <1>1. /\ a \in Message /\ a.session = command.session /\ a.more = TRUE
        /\ IsExecution(a) /\ a.about = e
    BY DEF ExecutionMessage, Message, IsExecution
  <1>2. /\ b \in Message /\ b.session = r /\ b.more = FALSE
        /\ IsExecution(b) /\ b.about = e
    BY DEF ExecutionMessage, Message, IsExecution
  <1>3. Parties(e) = {command.session, r}
    BY DEF Parties
  <1>4. r # NoSession /\ r \in Session
    BY SessionAssumption
  <1>5. Tells(e) = IF r = command.session THEN <<a>> \o <<>> ELSE <<a>> \o <<b>>
    BY <1>4, Zenon DEF Tells, Owner
  <1> HIDE DEF a, b, r
  <1>6. CASE r = command.session
    <2>1. Tells(e) = <<a>>
      BY <1>1, <1>5, <1>6
    <2>2. Len(Tells(e)) = 1 /\ Tells(e)[1] = a /\ Tells(e) \in Seq(Message)
      BY <1>1, <2>1
    <2>3. \A i \in 1 .. Len(Tells(e)) : i = 1
      BY <2>2
    <2>4. \A i \in 1 .. Len(Tells(e)) :
             /\ IsExecution(Tells(e)[i]) /\ Tells(e)[i].about = e
             /\ Tells(e)[i].session \in Parties(e)
      BY <1>1, <1>3, <2>2, <2>3
    <2>5. \A i \in 1 .. Len(Tells(e)) :
             Tells(e)[i].more = (Tells(e)[i].session = command.session)
      BY <1>1, <2>2, <2>3, Zenon
    <2>6. \A s \in Parties(e) : \E i \in 1 .. Len(Tells(e)) : Tells(e)[i].session = s
      BY <1>1, <1>3, <1>6, <2>2
    <2>7. \A i, j \in 1 .. Len(Tells(e)) : i < j => Tells(e)[i].session # Tells(e)[j].session
      BY <2>2
    <2>8. Len(Tells(e)) \in 1 .. 2
      BY <2>2
    <2> QED BY <2>2, <2>4, <2>5, <2>6, <2>7, <2>8, Zenon
  <1>7. CASE r # command.session
    <2>1. /\ Tells(e) \in Seq(Message) /\ Len(Tells(e)) = 2
          /\ Tells(e)[1] = a /\ Tells(e)[2] = b
      BY <1>1, <1>2, <1>5, <1>7
    <2>2. \A i \in 1 .. Len(Tells(e)) : i = 1 \/ i = 2
      BY <2>1
    <2>3. 1 \in 1 .. Len(Tells(e)) /\ 2 \in 1 .. Len(Tells(e))
      BY <2>1
    <2>4. \A i \in 1 .. Len(Tells(e)) :
             /\ IsExecution(Tells(e)[i]) /\ Tells(e)[i].about = e
             /\ Tells(e)[i].session \in Parties(e)
      BY <1>1, <1>2, <1>3, <2>1, <2>2
    <2>5. \A i \in 1 .. Len(Tells(e)) :
             Tells(e)[i].more = (Tells(e)[i].session = command.session)
      BY <1>1, <1>2, <1>7, <2>1, <2>2, Zenon
    <2>6. \A s \in Parties(e) : \E i \in 1 .. Len(Tells(e)) : Tells(e)[i].session = s
      BY <1>1, <1>2, <1>3, <2>1, <2>3
    <2>7. \A i, j \in 1 .. Len(Tells(e)) : i < j => Tells(e)[i].session # Tells(e)[j].session
      BY <1>1, <1>2, <1>7, <2>1, <2>2
    <2>8. Len(Tells(e)) \in 1 .. 2
      BY <2>1
    <2> QED BY <2>1, <2>4, <2>5, <2>6, <2>7, <2>8, Zenon
  <1> QED BY <1>6, <1>7

\* What \o does to the elements and the length.
LEMMA ConcatFacts ==
    ASSUME NEW S, NEW s \in Seq(S), NEW t \in Seq(S)
    PROVE  /\ s \o t \in Seq(S) /\ Len(s) \in Nat /\ Len(t) \in Nat
           /\ DOMAIN s = 1 .. Len(s) /\ DOMAIN (s \o t) = 1 .. Len(s) + Len(t)
           /\ \A i \in 1 .. Len(s) : (s \o t)[i] = s[i]
           /\ \A i \in 1 .. Len(s) + Len(t) : i > Len(s) =>
                 i - Len(s) \in 1 .. Len(t) /\ (s \o t)[i] = t[i - Len(s)]
           /\ \A i \in 1 .. Len(t) :
                 Len(s) + i \in 1 .. Len(s) + Len(t) /\ (s \o t)[Len(s) + i] = t[i]
  OBVIOUS

\* The trade reported next: its resting order is not the command's, its owner is
\* still known, and no later trade is with it.
LEMMA NextTrade ==
    ASSUME Inv, handling, ~Matching, result.rejection = "none", reported < Len(executions)
    PROVE  LET k == reported + 1
               e == executions[k]
           IN  /\ reported \in Nat /\ k \in DOMAIN executions /\ e \in Trade
               /\ e.resting \in OrderId /\ e.resting # command.id
               /\ order_sessions[e.resting] = entrant[e.resting]
               /\ entrant[e.resting] \in Session
               /\ \A l \in DOMAIN executions : executions[l].resting = e.resting => l = k
  <1> DEFINE k == reported + 1
             e == executions[k]
  <1>1. executions \in Seq(Trade) /\ reported \in 0 .. Len(executions)
    BY DEF Inv, Typed
  <1>2. reported \in Nat /\ k \in DOMAIN executions /\ k > reported
    BY <1>1
  <1>3. e \in Trade /\ e.resting \in OrderId
    <2>1. e \in Trade
      BY <1>1, <1>2
    <2> QED BY <2>1 DEF Trade
  <1>4. e.resting # command.id
    BY <1>2 DEF Inv, TradesOnce
  <1>5. Settled(e.resting) /\ Pending(e.resting)
    BY <1>2, <1>4 DEF Settled, Pending
  <1>6. order_sessions[e.resting] = entrant[e.resting] /\ entrant[e.resting] \in Session
    BY <1>3, <1>5 DEF Inv, Owned
  <1>7. \A l \in DOMAIN executions : executions[l].resting = e.resting => l = k
    BY <1>2 DEF Inv, TradesOnce
  <1> QED BY <1>2, <1>3, <1>4, <1>6, <1>7

\* A turn of the loop over the executions tells the parties of one more trade.
LEMMA ReportMessages ==
    ASSUME Inv, Report
    PROVE  /\ responses' \in Seq(Message)
           /\ Messages'
           /\ \A i \in DOMAIN responses' : IsExecution(responses'[i])
  <1> DEFINE k == reported + 1
             e == executions[k]
             T == Tells(e)
             n == Len(responses)
  <1>1. /\ handling /\ ~Matching /\ result.rejection = "none" /\ reported < Len(executions)
        /\ responses' = responses \o T /\ reported' = k
        /\ executions' = executions /\ command' = command /\ entrant' = entrant
    BY DEF Report, Answerable, Matching, bookVars
  <1>2. /\ reported \in Nat /\ k \in DOMAIN executions /\ e \in Trade
        /\ order_sessions[e.resting] = entrant[e.resting] /\ entrant[e.resting] \in Session
        /\ \A l \in DOMAIN executions : executions[l].resting = e.resting => l = k
    BY <1>1, NextTrade
  <1>3. command.session \in Session /\ responses \in Seq(Message)
    BY <1>1 DEF Inv, Typed
  <1> HIDE DEF e
  <1>4. /\ T \in Seq(Message) /\ Len(T) \in 1 .. 2
        /\ \A i \in 1 .. Len(T) :
              /\ IsExecution(T[i]) /\ T[i].about = e
              /\ T[i].session \in Parties(e)
              /\ T[i].more = (T[i].session = command.session)
        /\ \A s \in Parties(e) : \E i \in 1 .. Len(T) : T[i].session = s
        /\ \A i, j \in 1 .. Len(T) : i < j => T[i].session # T[j].session
    BY <1>2, <1>3, TellsFacts
  <1> HIDE DEF T
  <1>5. /\ responses' \in Seq(Message) /\ n \in Nat /\ Len(T) \in Nat
        /\ DOMAIN responses = 1 .. n /\ DOMAIN responses' = 1 .. n + Len(T)
        /\ \A i \in 1 .. n : responses'[i] = responses[i]
        /\ \A i \in 1 .. n + Len(T) : i > n =>
              i - n \in 1 .. Len(T) /\ responses'[i] = T[i - n]
        /\ \A i \in 1 .. Len(T) : n + i \in 1 .. n + Len(T) /\ responses'[n + i] = T[i]
    BY <1>1, <1>3, <1>4, ConcatFacts
  <1> HIDE DEF n
  <1>6. \A i \in 1 .. n + Len(T) : i > n =>
           /\ IsExecution(responses'[i]) /\ responses'[i].about = e
           /\ responses'[i].session \in Parties(e)
           /\ responses'[i].more = (responses'[i].session = command.session)
    <2> SUFFICES ASSUME NEW i \in 1 .. n + Len(T), i > n
                 PROVE  /\ IsExecution(responses'[i]) /\ responses'[i].about = e
                        /\ responses'[i].session \in Parties(e)
                        /\ responses'[i].more = (responses'[i].session = command.session)
      OBVIOUS
    <2>1. PICK d \in 1 .. Len(T) : responses'[i] = T[d]
      BY <1>5
    <2>2. T[d].more = (T[d].session = command.session)
      BY <1>4
    <2>3. responses'[i].more = (responses'[i].session = command.session)
      BY <2>1, <2>2
    <2> QED BY <1>4, <2>1, <2>3
  <1>7. \A i \in 1 .. n : IsExecution(responses[i])
    BY <1>1, <1>5, Zenon DEF Inv, Ending
  <1>8. \A i \in DOMAIN responses' : i \in 1 .. n \/ (i \in 1 .. n + Len(T) /\ i > n)
    BY <1>5
  <1>9. \A i \in DOMAIN responses' : IsExecution(responses'[i])
    BY <1>5, <1>6, <1>7, <1>8
  <1>10. ASSUME NEW i \in DOMAIN responses'
         PROVE  /\ responses'[i].more = (responses'[i].session = command.session)
                /\ \E m \in 1 .. k : /\ responses'[i].about = executions[m]
                                     /\ responses'[i].session \in Parties(executions[m])
    <2>1. CASE i \in 1 .. n
      <3>1. responses'[i] = responses[i] /\ i \in DOMAIN responses /\ IsExecution(responses[i])
        BY <1>5, <1>7, <2>1
      <3>2. responses[i].more = (responses[i].session = command.session)
        BY <3>1 DEF Inv, Messages
      <3>3. PICK m \in 1 .. reported : Tell(i, m) /\ responses[i].session \in Parties(executions[m])
        BY <3>1 DEF Inv, Messages
      <3>4. m \in 1 .. k
        BY <1>2, <3>3
      <3> QED BY <3>1, <3>2, <3>3, <3>4 DEF Tell
    <2>2. CASE i \in 1 .. n + Len(T) /\ i > n
      <3>1. k \in 1 .. k /\ executions[k] = e
        BY <1>2 DEF e
      <3> QED BY <1>6, <2>2, <3>1
    <2> QED BY <1>8, <2>1, <2>2
  <1>11. ASSUME NEW m \in 1 .. k, NEW s \in Parties(executions[m])
         PROVE  \E i \in DOMAIN responses' :
                   responses'[i].about = executions[m] /\ responses'[i].session = s
    <2>1. CASE m = k
      <3>1. executions[m] = e
        BY <2>1 DEF e
      <3>2. PICK i \in 1 .. Len(T) : T[i].session = s
        BY <1>4, <3>1
      <3>3. n + i \in DOMAIN responses' /\ responses'[n + i] = T[i]
        BY <1>5, Zenon
      <3> QED BY <1>4, <3>1, <3>2, <3>3
    <2>2. CASE m \in 1 .. reported
      <3>1. PICK i \in DOMAIN responses : Tell(i, m) /\ responses[i].session = s
        BY <2>2 DEF Inv, Messages
      <3>2. i \in 1 .. n
        BY <1>5
      <3>3. i \in DOMAIN responses'
        BY <1>5, <3>2
      <3>4. responses'[i] = responses[i]
        BY <1>5, <3>2
      <3>5. responses[i].about = executions[m] /\ responses[i].session = s
        BY <3>1 DEF Tell
      <3> QED BY <3>3, <3>4, <3>5, Zenon
    <2> QED BY <1>2, <2>1, <2>2
  <1>12. ASSUME NEW i \in DOMAIN responses', NEW j \in DOMAIN responses',
                NEW m \in DOMAIN executions, NEW l \in DOMAIN executions,
                i < j, responses'[i].session = responses'[j].session,
                responses'[i].about = executions[m], responses'[j].about = executions[l]
         PROVE  m < l
    <2>1. CASE i \in 1 .. n /\ j \in 1 .. n
      <3>1. /\ i \in DOMAIN responses /\ j \in DOMAIN responses
            /\ responses'[i] = responses[i] /\ responses'[j] = responses[j]
        BY <1>5, <2>1
      <3>2. Tell(i, m) /\ Tell(j, l)
        BY <1>7, <1>12, <2>1, <3>1 DEF Tell
      <3> QED BY <1>12, <3>1, <3>2 DEF Inv, Messages
    <2>2. CASE i \in 1 .. n /\ j \in 1 .. n + Len(T) /\ j > n
      <3>1. executions[l].resting = e.resting
        BY <1>6, <1>12, <2>2
      <3>2. l = k
        BY <1>2, <3>1
      <3>3. responses'[i] = responses[i] /\ i \in DOMAIN responses /\ IsExecution(responses[i])
        BY <1>5, <1>7, <2>2
      <3>4. PICK q \in 1 .. reported : Tell(i, q)
        BY <3>3 DEF Inv, Messages
      <3>5. q \in DOMAIN executions /\ q < k
        <4>1. executions \in Seq(Trade)
          BY DEF Inv, Typed
        <4>2. DOMAIN executions = 1 .. Len(executions) /\ Len(executions) \in Nat
          BY <4>1
        <4>3. q \in 1 .. reported /\ reported \in Nat /\ reported < Len(executions)
          BY <1>1, <1>2
        <4> QED BY ONLY <4>2, <4>3
      <3>6. executions[q].resting = executions[m].resting
        BY <1>12, <3>3, <3>4 DEF Tell
      <3>7. q = m
        BY <3>5, <3>6 DEF Inv, TradesOnce
      <3> QED BY <3>2, <3>5, <3>7
    <2>3. CASE i > n /\ j > n
      <3>1. /\ i - n \in 1 .. Len(T) /\ responses'[i] = T[i - n]
            /\ j - n \in 1 .. Len(T) /\ responses'[j] = T[j - n]
        BY <1>5, <2>3
      <3>2. i - n < j - n
        BY <1>5, <1>12
      <3>3. T[i - n].session = T[j - n].session
        BY <1>12, <3>1
      <3>4. T[i - n].session # T[j - n].session
        BY <1>4, <3>1, <3>2
      <3> QED BY <3>3, <3>4
    <2> QED BY <1>5, <1>8, <1>12, <2>1, <2>2, <2>3
  <1>13. Messages'
    <2>1. \A m : Parties(executions[m])' = Parties(executions[m])
      BY <1>1 DEF Parties
    <2>2. \A i, m : Tell(i, m)' <=> (IsExecution(responses'[i]) /\ responses'[i].about = executions[m])
      BY <1>1 DEF Tell, IsExecution
    <2>3. \A i \in DOMAIN responses' :
             /\ responses'[i].more = (responses'[i].session = command'.session)
             /\ \E m \in 1 .. reported' :
                   Tell(i, m)' /\ responses'[i].session \in Parties(executions[m])'
      <3> SUFFICES ASSUME NEW i \in DOMAIN responses'
                   PROVE  /\ responses'[i].more = (responses'[i].session = command'.session)
                          /\ \E m \in 1 .. reported' :
                                Tell(i, m)' /\ responses'[i].session \in Parties(executions[m])'
        OBVIOUS
      <3>1. responses'[i].more = (responses'[i].session = command'.session)
        BY <1>1, <1>10
      <3>2. PICK m \in 1 .. k : /\ responses'[i].about = executions[m]
                                /\ responses'[i].session \in Parties(executions[m])
        BY <1>10
      <3>3. Tell(i, m)' /\ responses'[i].session \in Parties(executions[m])'
        BY <1>9, <2>1, <2>2, <3>2
      <3>4. m \in 1 .. reported'
        BY <1>1
      <3> QED BY <3>1, <3>3, <3>4
    <2>4. \A m \in 1 .. reported' : \A s \in Parties(executions[m])' :
             \E i \in DOMAIN responses' : Tell(i, m)' /\ responses'[i].session = s
      <3>1. ASSUME NEW m \in 1 .. k, NEW s \in Parties(executions[m])
            PROVE  \E i \in DOMAIN responses' : Tell(i, m)' /\ responses'[i].session = s
        <4>1. PICK i \in DOMAIN responses' :
                responses'[i].about = executions[m] /\ responses'[i].session = s
          BY <1>11
        <4> QED BY <1>9, <2>2, <4>1
      <3> SUFFICES ASSUME NEW m \in 1 .. reported', NEW s \in Parties(executions[m])'
                   PROVE  \E i \in DOMAIN responses' : Tell(i, m)' /\ responses'[i].session = s
        OBVIOUS
      <3>2. m \in 1 .. k
        BY <1>1
      <3>3. s \in Parties(executions[m])
        BY <2>1
      <3> QED BY <3>1, <3>2, <3>3
    <2>5. \A i, j \in DOMAIN responses' : \A m, l \in DOMAIN executions' :
             i < j /\ responses'[i].session = responses'[j].session /\ Tell(i, m)' /\ Tell(j, l)'
                => m < l
      BY <1>1, <1>12, <2>2, Zenon
    <2> QED BY <2>3, <2>4, <2>5 DEF Messages
  <1> QED BY <1>5, <1>9, <1>13

\* The rest of the turn: the entry of an order that is gone is erased after its
\* session has been told.
LEMMA ReportKeeps ==
    ASSUME Inv, Report
    PROVE  Inv'
  <1> DEFINE k == reported + 1
             e == executions[k]
             r == e.resting
  <1>1. /\ handling /\ ~Matching /\ result.rejection = "none" /\ reported < Len(executions)
        /\ reported' = k
        /\ order_sessions' = IF Contains(r) THEN order_sessions
                             ELSE [order_sessions EXCEPT ![r] = NoSession]
        /\ UNCHANGED <<book, seen, arrivals, incoming, executions, result>>
        /\ UNCHANGED <<command, handling, entrant>>
    BY DEF Report, Answerable, Matching, bookVars
  <1>2. /\ reported \in Nat /\ k \in DOMAIN executions
        /\ r \in OrderId /\ r # command.id
        /\ order_sessions[r] = entrant[r] /\ entrant[r] \in Session
        /\ \A l \in DOMAIN executions : executions[l].resting = r => l = k
    BY <1>1, NextTrade
  <1>3. executions[k].resting = r
    OBVIOUS
  <1> HIDE DEF r
  <1>4. /\ responses' \in Seq(Message) /\ Messages'
        /\ \A i \in DOMAIN responses' : IsExecution(responses'[i])
    BY ReportMessages
  <1>5. \A x : Contains(x)' <=> Contains(x)
    BY <1>1 DEF Contains, Book!Resting
  <1>6. \A x \in OrderId : order_sessions'[x] = IF x = r /\ ~Contains(r) THEN NoSession
                                                ELSE order_sessions[x]
    BY <1>1 DEF Inv, Typed
  <1>7. Typed'
    <2>1. reported' \in 0 .. Len(executions')
      BY <1>1, <1>2 DEF Inv, Typed
    <2>2. order_sessions' \in [OrderId -> Session \cup {NoSession}]
      BY <1>1, <1>2 DEF Inv, Typed
    <2> QED BY <1>1, <1>4, <2>1, <2>2 DEF Inv, Typed
  <1>8. OneOrderPerId' /\ TradesOnce' /\ Ending'
    BY <1>1, <1>4, Zenon DEF Inv, OneOrderPerId, TradesOnce, Ending
  <1>9. WhileMatching'
    BY <1>1 DEF WhileMatching, Matching
  <1>10. Owned'
    <2> SUFFICES ASSUME NEW x \in OrderId, Settled(x)'
                 PROVE  /\ order_sessions'[x] = IF Contains(x)' \/ Pending(x)' THEN entrant'[x]
                                                ELSE NoSession
                        /\ Contains(x)' \/ Pending(x)' => entrant'[x] \in Session
      BY DEF Owned
    <2>1. Settled(x)
      BY <1>1 DEF Settled, Rejected, Matching
    <2>2. CASE x = r
      <3>1. ~Pending(x)'
        BY <1>1, <1>2, <2>2 DEF Pending
      <3> QED BY <1>1, <1>2, <1>5, <1>6, <2>2, <3>1
    <2>3. CASE x # r
      <3>1. Pending(x)' <=> Pending(x)
        <4>1. \A l \in DOMAIN executions : l > reported /\ executions[l].resting = x => l > k
          <5>1. executions \in Seq(Trade)
            BY DEF Inv, Typed
          <5> QED BY <1>2, <1>3, <2>3, <5>1
        <4>2. \A l \in DOMAIN executions : l > k => l > reported
          <5>1. executions \in Seq(Trade)
            BY DEF Inv, Typed
          <5>2. DOMAIN executions \subseteq Nat /\ reported \in Nat
            BY <1>2, <5>1
          <5> QED BY ONLY <5>2
        <4> QED BY <1>1, <4>1, <4>2 DEF Pending
      <3> QED BY <1>1, <1>5, <1>6, <2>1, <2>3, <3>1 DEF Inv, Owned
    <2> QED BY <2>2, <2>3
  <1>11. Outcome'
    <2>1. command.id \in OrderId
      BY <1>1 DEF Inv, Typed
    <2>2. order_sessions'[command.id] = order_sessions[command.id]
      BY <1>2, <1>6, <2>1
    <2>3. /\ Acknowledged' <=> Acknowledged
          /\ Contains(command.id)' <=> Contains(command.id)
          /\ Matching' <=> Matching
      BY <1>1 DEF Acknowledged, Contains, Book!Resting, Matching
    <2> QED BY <1>1, <2>2, <2>3 DEF Inv, Outcome
  <1> QED BY <1>4, <1>7, <1>8, <1>9, <1>10, <1>11 DEF Inv

------------------------------------------------------------------------------
(* The terminal response *)

\* The order of the command rests iff the result leaves it units; its entry after
\* the response names the session of the command, or nobody if it does not rest.
LEMMA OwnersAfterResponse ==
    ASSUME Inv, Respond, result.rejection = "none"
    PROVE  \A x \in OrderId :
              order_sessions'[x] = IF x # command.id THEN order_sessions[x]
                                   ELSE IF Contains(x) THEN command.session ELSE NoSession
  <1> DEFINE rests == RemainingUnits > 0 /\ Contains(command.id)
  <1>1. /\ handling /\ ~Matching /\ reported = Len(executions)
        /\ order_sessions' = OwnersAfter(rests)
    BY DEF Respond, Answerable, Matching, ExecutionsTold
  <1>2. /\ command.id \in OrderId /\ command.kind \in Kind /\ result.units \in Nat
        /\ order_sessions \in [OrderId -> Session \cup {NoSession}] /\ arrivals \in Nat
    BY <1>1 DEF Inv, Typed
  <1>3. /\ command.kind = "new" => order_sessions[command.id] = NoSession
        /\ command.kind = "cancel" => ~Contains(command.id)
    BY <1>1 DEF Inv, Outcome
  <1>4. command.kind # "cancel" => (rests <=> Contains(command.id))
    <2> SUFFICES ASSUME command.kind # "cancel", Contains(command.id) PROVE result.units > 0
      BY DEF RemainingUnits
    <2>1. Acknowledged
      BY <1>1 DEF Inv, Outcome, Typed
    <2>2. PICK o \in Book!Resting(command.id) : TRUE
      BY DEF Contains
    <2>3. o.units \in {result.units} \ {0}
      BY <2>1, <2>2 DEF Acknowledged
    <2> QED BY <1>2, <2>3
  <1> HIDE DEF rests
  <1> SUFFICES ASSUME NEW x \in OrderId
               PROVE  order_sessions'[x] = IF x # command.id THEN order_sessions[x]
                                           ELSE IF Contains(x) THEN command.session ELSE NoSession
    OBVIOUS
  <1>5. CASE command.kind = "new"
    <2>1. order_sessions' = IF rests THEN [order_sessions EXCEPT ![command.id] = command.session]
                            ELSE order_sessions
      BY <1>1, <1>5 DEF OwnersAfter
    <2>2. CASE rests
      BY <1>2, <1>4, <1>5, <2>1, <2>2
    <2>3. CASE ~rests
      BY <1>2, <1>3, <1>4, <1>5, <2>1, <2>3
    <2> QED BY <2>2, <2>3
  <1>6. CASE command.kind = "cancel"
    <2>1. order_sessions' = [order_sessions EXCEPT ![command.id] = NoSession]
      BY <1>1, <1>6 DEF OwnersAfter
    <2> QED BY <1>2, <1>3, <1>6, <2>1
  <1>7. CASE command.kind = "replace"
    <2>1. order_sessions' = [order_sessions EXCEPT ![command.id] =
                                IF rests THEN command.session ELSE NoSession]
      BY <1>1, <1>7 DEF OwnersAfter
    <2>2. CASE rests
      BY <1>2, <1>4, <1>7, <2>1, <2>2
    <2>3. CASE ~rests
      BY <1>2, <1>4, <1>7, <2>1, <2>3
    <2> QED BY <2>2, <2>3
  <1> QED BY <1>2, <1>5, <1>6, <1>7 DEF Kind

\* The response ends the command: everything has been told, the owners are those
\* of the orders that rest, and the response carries the outcome.
LEMMA RespondKeeps ==
    ASSUME Inv, Respond
    PROVE  Inv'
  <1> DEFINE n == Len(responses)
             t == Terminal(command.session, TerminalType(command.kind, result.rejection),
                           command.id, result.units)
             accepted == result.rejection = "none"
  <1>1. /\ handling /\ ~Matching /\ handling' = FALSE
        /\ result.rejection # "none" \/ reported = Len(executions)
        /\ responses' = Append(responses, t)
        /\ entrant' = IF accepted /\ command.kind # "cancel"
                      THEN [entrant EXCEPT ![command.id] = command.session] ELSE entrant
        /\ UNCHANGED <<book, seen, arrivals, incoming, executions, result>>
        /\ UNCHANGED <<command, reported>>
    BY DEF Respond, Answerable, Matching, bookVars, ExecutionsTold, RemainingUnits
  <1>2. /\ arrivals > 0 /\ command.session \in Session /\ command.id \in OrderId
        /\ command.kind \in Kind /\ result.rejection \in Rejections /\ result.units \in Nat
        /\ executions \in Seq(Trade) /\ reported \in 0 .. Len(executions)
        /\ responses \in Seq(Message)
        /\ order_sessions \in [OrderId -> Session \cup {NoSession}]
        /\ entrant \in [OrderId -> Session \cup {NoSession}]
    BY <1>1 DEF Inv, Typed
  <1>3. reported = Len(executions)
    <2>1. CASE result.rejection # "none"
      <3>1. executions = <<>>
        BY <1>1, <2>1, Zenon DEF Inv, Outcome
      <3> QED BY <1>2, <3>1
    <2> QED BY <1>1, <2>1
  <1>4. TerminalType(command.kind, result.rejection) \in TerminalTypes
    BY <1>2 DEF TerminalType, TerminalTypes, Kind
  <1>5. t \in Message /\ t.type # "execution" /\ t.more = FALSE
    BY <1>2, <1>4 DEF Terminal, Message, TerminalTypes
  <1> HIDE DEF t
  <1>6. /\ responses' \in Seq(Message) /\ n \in Nat /\ Len(responses') = n + 1
        /\ DOMAIN responses = 1 .. n /\ DOMAIN responses' = 1 .. n + 1
        /\ responses'[n + 1] = t
        /\ \A i \in 1 .. n : responses'[i] = responses[i]
    <2>1. responses \in Seq(Message) /\ t \in Message /\ responses' = Append(responses, t)
      BY <1>1, <1>2, <1>5
    <2> QED BY ONLY <2>1, AppendFacts
  <1> HIDE DEF n
  <1>7. \A x : Contains(x)' <=> Contains(x)
    BY <1>1 DEF Contains, Book!Resting
  <1>8. \A x \in OrderId : entrant'[x] = IF accepted /\ command.kind # "cancel" /\ x = command.id
                                         THEN command.session ELSE entrant[x]
    BY <1>1, <1>2
  <1>9. \A x \in OrderId : x # command.id \/ ~accepted => order_sessions'[x] = order_sessions[x]
    <2>1. CASE accepted
      BY <2>1, OwnersAfterResponse
    <2>2. CASE ~accepted
      BY <2>2 DEF Respond
    <2> QED BY <2>1, <2>2
  <1>10. \A x : ~Pending(x) /\ ~Pending(x)'
    BY <1>1, <1>2, <1>3 DEF Pending
  <1>11. Typed'
    <2>1. entrant' \in [OrderId -> Session \cup {NoSession}]
      BY <1>1, <1>2
    <2>2. order_sessions' \in [OrderId -> Session \cup {NoSession}]
      <3>1. CASE ~accepted
        BY <1>2, <3>1 DEF Respond
      <3>2. CASE accepted
        <4>1. order_sessions' = OwnersAfter(RemainingUnits > 0 /\ Contains(command.id))
          BY <3>2 DEF Respond
        <4> QED BY <1>2, <4>1 DEF OwnersAfter, Kind
      <3> QED BY <3>1, <3>2
    <2> QED BY <1>1, <1>6, <2>1, <2>2, Zenon DEF Inv, Typed
  <1>12. OneOrderPerId' /\ TradesOnce'
    BY <1>1 DEF Inv, OneOrderPerId, TradesOnce
  <1>13. WhileMatching'
    BY <1>1 DEF WhileMatching, Matching
  <1>14. Owned'
    <2> SUFFICES ASSUME NEW x \in OrderId
                 PROVE  /\ order_sessions'[x] = IF Contains(x)' \/ Pending(x)' THEN entrant'[x]
                                                ELSE NoSession
                        /\ Contains(x)' \/ Pending(x)' => entrant'[x] \in Session
      BY DEF Owned
    <2>1. CASE x # command.id \/ ~accepted
      <3>1. Settled(x)
        BY <1>1, <2>1 DEF Settled, Rejected
      <3> QED BY <1>7, <1>8, <1>9, <1>10, <2>1, <3>1 DEF Inv, Owned
    <2>2. CASE x = command.id /\ accepted
      <3>1. order_sessions'[x] = IF Contains(x) THEN command.session ELSE NoSession
        BY <2>2, OwnersAfterResponse
      <3>2. command.kind = "cancel" => ~Contains(x)
        BY <1>1, <2>2 DEF Inv, Outcome
      <3> QED BY <1>2, <1>7, <1>8, <1>10, <2>2, <3>1, <3>2
    <2> QED BY <2>1, <2>2
  <1>15. Outcome'
    <2>1. /\ Acknowledged' <=> Acknowledged
          /\ Matching' <=> Matching
      BY <1>1 DEF Acknowledged, Book!Resting, Matching
    <2> QED BY <1>1, <2>1 DEF Inv, Outcome
  <1>16. Messages'
    <2>1. \A k \in DOMAIN executions : Parties(executions[k])' = Parties(executions[k])
      <3> SUFFICES ASSUME NEW k \in DOMAIN executions
                   PROVE  entrant'[executions[k].resting] = entrant[executions[k].resting]
        BY <1>1 DEF Parties
      <3>1. executions[k] \in Trade
        BY <1>2
      <3>2. executions[k].resting \in OrderId /\ executions[k].resting # command.id
        BY <3>1 DEF Trade, Inv, TradesOnce
      <3> QED BY <1>8, <3>2
    <2>2. \A i \in DOMAIN responses : \A k : Tell(i, k)' <=> Tell(i, k)
      BY <1>1, <1>6 DEF Tell, IsExecution
    <2>3. \A i \in DOMAIN responses' : IsExecution(responses'[i]) =>
             i \in DOMAIN responses /\ responses'[i] = responses[i]
      BY <1>5, <1>6 DEF IsExecution
    <2>4. \A i \in DOMAIN responses : i \in DOMAIN responses' /\ responses'[i] = responses[i]
      BY <1>6
    <2>5. \A k \in 1 .. reported : k \in DOMAIN executions
      BY <1>2
    <2>6. ASSUME NEW i \in DOMAIN responses', IsExecution(responses'[i])
          PROVE  /\ responses'[i].more = (responses'[i].session = command'.session)
                 /\ \E k \in 1 .. reported' :
                       Tell(i, k)' /\ responses'[i].session \in Parties(executions[k])'
      <3>1. i \in DOMAIN responses /\ responses'[i] = responses[i] /\ IsExecution(responses[i])
        BY <2>3, <2>6
      <3>2. PICK k \in 1 .. reported : Tell(i, k) /\ responses[i].session \in Parties(executions[k])
        BY <3>1 DEF Inv, Messages
      <3>3. Tell(i, k)' /\ responses'[i].session \in Parties(executions[k])'
        BY <2>1, <2>2, <2>5, <3>1, <3>2
      <3>4. responses[i].more = (responses[i].session = command.session)
        BY <3>1 DEF Inv, Messages
      <3> QED BY <1>1, <3>1, <3>3, <3>4
    <2>7. ASSUME NEW k \in 1 .. reported', NEW s \in Parties(executions[k])'
          PROVE  \E i \in DOMAIN responses' : Tell(i, k)' /\ responses'[i].session = s
      <3>1. k \in 1 .. reported /\ k \in DOMAIN executions
        BY <1>1, <2>5
      <3>2. s \in Parties(executions[k])
        BY <2>1, <3>1
      <3>3. PICK i \in DOMAIN responses : Tell(i, k) /\ responses[i].session = s
        BY <3>1, <3>2 DEF Inv, Messages
      <3> QED BY <2>2, <2>4, <3>3
    <2>8. ASSUME NEW i \in DOMAIN responses', NEW j \in DOMAIN responses',
                 NEW k \in DOMAIN executions', NEW l \in DOMAIN executions',
                 i < j, responses'[i].session = responses'[j].session, Tell(i, k)', Tell(j, l)'
          PROVE  k < l
      <3>1. IsExecution(responses'[i]) /\ IsExecution(responses'[j])
        BY <2>8 DEF Tell, IsExecution
      <3>2. /\ i \in DOMAIN responses /\ responses'[i] = responses[i]
            /\ j \in DOMAIN responses /\ responses'[j] = responses[j]
        BY <2>3, <3>1
      <3>3. Tell(i, k) /\ Tell(j, l)
        BY <2>2, <2>8, <3>2
      <3> QED BY <1>1, <2>8, <3>2, <3>3, Zenon DEF Inv, Messages
    <2>9. \A i \in DOMAIN responses' : IsExecution(responses[i])' <=> IsExecution(responses'[i])
      BY DEF IsExecution
    <2> QED BY <2>6, <2>7, <2>8, <2>9 DEF Messages
  <1>17. Ending'
    <2>1. \A i \in 1 .. n : IsExecution(responses'[i])
      BY <1>1, <1>6 DEF Inv, Ending
    <2>2. responses'[Len(responses')] = t
      BY <1>6
    <2>3. t' = t
      BY <1>1 DEF t, Terminal, TerminalType
    <2>4. Len(responses') > 0 /\ 1 .. Len(responses') - 1 = 1 .. n
      BY <1>6
    <2>5. \A i \in 1 .. Len(responses') - 1 : IsExecution(responses[i])'
      BY <2>1, <2>4, Zenon DEF IsExecution
    <2>6. ~Matching'
      BY <1>1 DEF Matching
    <2>7. responses'[Len(responses')] =
             Terminal(command.session, TerminalType(command.kind, result.rejection),
                      command.id, result.units)'
      BY <2>2, <2>3 DEF t
    <2> QED BY <1>1, <1>3, <2>4, <2>5, <2>6, <2>7 DEF Ending
  <1> QED BY <1>11, <1>12, <1>13, <1>14, <1>15, <1>16, <1>17 DEF Inv

------------------------------------------------------------------------------
(* Theorems *)

\* The service starts with an empty book, no owners and nothing told.
LEMMA InitInv == Init => Inv
  <1> SUFFICES ASSUME Init PROVE Inv
    OBVIOUS
  <1>1. /\ book = {} /\ seen = {} /\ arrivals = 0 /\ incoming = NoIncoming
        /\ executions = <<>> /\ result = [rejection |-> "none", units |-> 0]
    BY BookNames DEF Init, Book!Init, Result
  <1>2. /\ command = [session |-> NoSession, kind |-> "cancel", id |-> NoOrder]
        /\ handling = FALSE /\ reported = 0 /\ responses = <<>>
        /\ order_sessions = [id \in OrderId |-> NoSession]
        /\ entrant = [id \in OrderId |-> NoSession]
    BY DEF Init
  <1>3. DOMAIN <<>> = {} /\ 1 .. 0 = {} /\ Len(<<>>) = 0
    OBVIOUS
  <1>4. \A x : ~Contains(x) /\ ~Pending(x)
    BY <1>1, <1>3 DEF Contains, Book!Resting, Pending
  <1>5. Typed
    <2>1. /\ command \in [session : Session \cup {NoSession}, kind : Kind, id : OrderId \cup {NoOrder}]
          /\ result \in [rejection : Rejections, units : Nat]
      BY <1>1, <1>2 DEF Kind, Rejections
    <2>2. /\ order_sessions \in [OrderId -> Session \cup {NoSession}]
          /\ entrant \in [OrderId -> Session \cup {NoSession}]
      BY <1>2
    <2>3. /\ executions \in Seq(Trade) /\ responses \in Seq(Message)
          /\ reported \in 0 .. Len(executions)
      BY <1>1, <1>2
    <2>4. /\ book \in SUBSET RestingOrder /\ seen \in SUBSET OrderId /\ arrivals \in Nat
          /\ incoming \in IncomingOrder \cup {NoIncoming} /\ ~(arrivals > 0)
      BY <1>1
    <2>5. handling \in BOOLEAN /\ ~handling
      BY <1>2, Zenon
    <2> QED BY <2>1, <2>2, <2>3, <2>4, <2>5 DEF Typed
  <1>6. OneOrderPerId /\ WhileMatching /\ TradesOnce
    BY <1>1, <1>3 DEF OneOrderPerId, WhileMatching, Matching, TradesOnce
  <1>7. Owned
    BY <1>2, <1>4 DEF Owned
  <1>8. Outcome
    BY <1>1, <1>2 DEF Outcome
  <1>9. Messages /\ Ending
    <2>1. Messages
      BY <1>2, <1>3, Zenon DEF Messages
    <2>2. DOMAIN responses = {} /\ reported = Len(executions) /\ ~(arrivals > 0) /\ ~Matching
      BY <1>1, <1>2, <1>3 DEF Matching
    <2> QED BY <1>2, <2>1, <2>2 DEF Ending
  <1> QED BY <1>5, <1>6, <1>7, <1>8, <1>9 DEF Inv

\* Every step keeps the invariant.
LEMMA NextInv == Inv /\ [Next]_vars => Inv'
  <1> SUFFICES ASSUME Inv, [Next]_vars PROVE Inv'
    OBVIOUS
  <1>1. ASSUME NEW s \in Session, NEW o \in NewOrder, NewOrderCommand(s, o) PROVE Inv'
    BY <1>1, NewOrderKeeps
  <1>2. ASSUME NEW s \in Session, NEW id \in OrderId, CancelOrderCommand(s, id) PROVE Inv'
    BY <1>2, CancelOrderKeeps
  <1>3. ASSUME NEW s \in Session, NEW id \in OrderId, NEW price \in Price, NEW units \in Units,
               ReplaceOrderCommand(s, id, price, units)
        PROVE  Inv'
    BY <1>3, ReplaceOrderKeeps
  <1>4. CASE Match
    BY <1>4, MatchBestKeeps, FinishKeeps DEF Match
  <1>5. CASE Report
    BY <1>5, ReportKeeps
  <1>6. CASE Respond
    BY <1>6, RespondKeeps
  <1>7. CASE UNCHANGED vars
    <2>1. /\ UNCHANGED <<book, seen, arrivals, incoming, executions, result>>
          /\ UNCHANGED <<command, handling, reported, order_sessions, responses, entrant>>
      BY <1>7 DEF vars, bookVars
    <2>2. /\ \A x : Contains(x)' <=> Contains(x)
          /\ \A x : Pending(x)' <=> Pending(x)
          /\ Contains(command.id)' <=> Contains(command.id)
          /\ Contains(incoming.id)' <=> Contains(incoming.id)
          /\ \A k : Contains(executions[k].resting)' <=> Contains(executions[k].resting)
          /\ Acknowledged' <=> Acknowledged
      BY <2>1, Zenon DEF Contains, Book!Resting, Pending, Acknowledged
    <2>3. Typed' /\ OneOrderPerId' /\ TradesOnce'
      BY <2>1, Zenon DEF Inv, Typed, OneOrderPerId, TradesOnce
    <2>4. /\ Matching' <=> Matching
          /\ \A x : Settled(x)' <=> Settled(x)
          /\ \A k, l : Tell(k, l)' <=> Tell(k, l)
          /\ \A k : IsExecution(responses[k])' <=> IsExecution(responses[k])
          /\ \A k : Parties(executions[k])' = Parties(executions[k])
      BY <2>1 DEF Matching, Settled, Rejected, Tell, IsExecution, Parties
    <2>5. WhileMatching'
      BY <2>1, <2>2, <2>4 DEF Inv, WhileMatching
    <2>6. Outcome'
      BY <2>1, <2>2, <2>4 DEF Inv, Outcome
    <2>7. Owned'
      BY <2>1, <2>2, <2>4 DEF Inv, Owned
    <2>8. Messages'
      <3>1. Messages
        BY DEF Inv
      <3>2. \A i \in DOMAIN responses' : IsExecution(responses[i])' =>
               /\ responses'[i].more = (responses'[i].session = command'.session)
               /\ \E k \in 1 .. reported' :
                     Tell(i, k)' /\ responses'[i].session \in Parties(executions[k])'
        <4> SUFFICES ASSUME NEW i \in DOMAIN responses', IsExecution(responses[i])'
                     PROVE  /\ responses'[i].more = (responses'[i].session = command'.session)
                            /\ \E k \in 1 .. reported' :
                                  Tell(i, k)' /\ responses'[i].session \in Parties(executions[k])'
          OBVIOUS
        <4>1. i \in DOMAIN responses /\ IsExecution(responses[i])
          BY <2>1, <2>4, Zenon
        <4>2. responses[i].more = (responses[i].session = command.session)
          BY <3>1, <4>1, Zenon DEF Messages
        <4>3. responses'[i].more = (responses'[i].session = command'.session)
          BY <2>1, <4>2, Zenon
        <4>4. PICK k \in 1 .. reported :
                Tell(i, k) /\ responses[i].session \in Parties(executions[k])
          BY <3>1, <4>1, Zenon DEF Messages
        <4>5. Tell(i, k)' /\ responses'[i].session \in Parties(executions[k])'
          BY <2>1, <2>4, <4>4, Zenon
        <4>6. k \in 1 .. reported'
          BY <2>1, Zenon
        <4> QED BY <4>3, <4>5, <4>6, Zenon
      <3>3. \A k \in 1 .. reported' : \A s \in Parties(executions[k])' :
               \E i \in DOMAIN responses' : Tell(i, k)' /\ responses'[i].session = s
        <4> SUFFICES ASSUME NEW k \in 1 .. reported', NEW s \in Parties(executions[k])'
                     PROVE  \E i \in DOMAIN responses' : Tell(i, k)' /\ responses'[i].session = s
          OBVIOUS
        <4>1. k \in 1 .. reported /\ s \in Parties(executions[k])
          BY <2>1, <2>4, Zenon
        <4>2. PICK i \in DOMAIN responses : Tell(i, k) /\ responses[i].session = s
          BY <3>1, <4>1, Zenon DEF Messages
        <4> QED BY <2>1, <2>4, <4>2, Zenon
      <3>4. \A i, j \in DOMAIN responses' : \A k, l \in DOMAIN executions' :
               i < j /\ responses'[i].session = responses'[j].session /\ Tell(i, k)' /\ Tell(j, l)'
                  => k < l
        <4> SUFFICES ASSUME NEW i \in DOMAIN responses', NEW j \in DOMAIN responses',
                            NEW k \in DOMAIN executions', NEW l \in DOMAIN executions',
                            i < j, responses'[i].session = responses'[j].session,
                            Tell(i, k)', Tell(j, l)'
                     PROVE  k < l
          BY Zenon
        <4>1. /\ i \in DOMAIN responses /\ j \in DOMAIN responses
              /\ k \in DOMAIN executions /\ l \in DOMAIN executions
          BY <2>1, Zenon
        <4>2. responses[i].session = responses[j].session /\ Tell(i, k) /\ Tell(j, l)
          BY <2>1, <2>4, Zenon
        <4> QED BY <3>1, <4>1, <4>2, Zenon DEF Messages
      <3> QED BY ONLY <3>2, <3>3, <3>4, Zenon DEF Messages
    <2>9. Ending'
      BY <2>1, Zenon DEF Inv, Ending, Matching, IsExecution, Terminal, TerminalType
    <2> QED BY <2>3, <2>5, <2>6, <2>7, <2>8, <2>9 DEF Inv
  <1> QED BY <1>1, <1>2, <1>3, <1>4, <1>5, <1>6, <1>7 DEF Next, NoMoreCommands

\* Inv holds in every state the service reaches.
THEOREM Invariance == Spec => []Inv
  BY InitInv, NextInv, PTL DEF Spec

\* order_sessions_ of the matching engine service never goes stale: between
\* commands it names, for every resting order and for no other, the session that
\* entered it or was the last to replace it.
THEOREM OwnersKnown == Spec => []OwnersCurrent
  <1>1. Inv => OwnersCurrent
    BY IdleOwners, Zenon DEF OwnersCurrent
  <1> QED BY <1>1, Invariance, PTL

\* Every execution of a command is told to its parties, to nobody else, once and
\* in order, although filled orders lose their owner while the loop over the
\* executions runs.
THEOREM PartiesInformed == Spec => []PartiesTold
  <1>1. ASSUME Inv, ~handling
        PROVE  /\ \A k, l \in DOMAIN executions :
                     executions[k].resting = executions[l].resting => k = l
               /\ \A k \in DOMAIN executions : \A s \in Parties(executions[k]) :
                     \E i \in DOMAIN responses : Tell(i, k) /\ responses[i].session = s
               /\ \A i \in DOMAIN responses : IsExecution(responses[i]) =>
                     \E k \in DOMAIN executions :
                        Tell(i, k) /\ responses[i].session \in Parties(executions[k])
               /\ \A i, j \in DOMAIN responses : \A k, l \in DOMAIN executions :
                     i < j /\ responses[i].session = responses[j].session
                       /\ Tell(i, k) /\ Tell(j, l)
                        => k < l
    <2>1. reported = Len(executions) /\ executions \in Seq(Trade)
      BY <1>1 DEF Inv, Ending, Typed
    <2>2. DOMAIN executions = 1 .. reported
      BY <2>1
    <2>3. TradesOnce /\ Messages
      BY <1>1 DEF Inv
    <2> QED BY <2>2, <2>3, Zenon DEF TradesOnce, Messages
  <1>2. Inv => PartiesTold
    BY <1>1 DEF PartiesTold
  <1> QED BY <1>2, Invariance, PTL

\* What the handlers push for a command ends with its terminal response, and the
\* "more" flags say so to the session of the command.
THEOREM TerminalLast == Spec => []TerminalEndsCommand
  <1>1. ASSUME Inv, ~handling, arrivals > 0
        PROVE  /\ Len(responses) > 0
               /\ \A i \in DOMAIN responses :
                     /\ IsExecution(responses[i]) = (i < Len(responses))
                     /\ responses[i].session = command.session
                           => responses[i].more = (i < Len(responses))
               /\ responses[Len(responses)].session = command.session
    <2> DEFINE last == Len(responses)
               t == Terminal(command.session, TerminalType(command.kind, result.rejection),
                             command.id, result.units)
    <2>1. /\ last > 0 /\ responses[last] = t
          /\ \A i \in 1 .. last - 1 : IsExecution(responses[i])
      BY <1>1 DEF Inv, Ending
    <2>2. /\ responses \in Seq(Message) /\ last \in Nat /\ DOMAIN responses = 1 .. last
          /\ command.kind \in Kind /\ result.rejection \in Rejections
      BY <1>1 DEF Inv, Typed
    <2>3. TerminalType(command.kind, result.rejection) \in TerminalTypes
      BY <2>2 DEF TerminalType, TerminalTypes, Kind
    <2>4. t.session = command.session /\ t.more = FALSE /\ t.type \in TerminalTypes
      BY <2>3 DEF Terminal
    <2>5. ~IsExecution(t)
      BY <2>4 DEF IsExecution, TerminalTypes
    <2> HIDE DEF t
    <2>6. ASSUME NEW i \in DOMAIN responses
          PROVE  /\ IsExecution(responses[i]) = (i < last)
                 /\ responses[i].session = command.session
                       => responses[i].more = (i < last)
      <3>1. CASE i = last
        <4>1. ~(i < last)
          BY <2>2, <3>1
        <4>2. IsExecution(responses[i]) \in BOOLEAN
          BY DEF IsExecution
        <4>3. responses[i].more = FALSE /\ ~IsExecution(responses[i])
          BY <2>1, <2>4, <2>5, <3>1
        <4>4. (i < last) = FALSE
          BY <4>1
        <4>5. IsExecution(responses[i]) = (i < last)
          BY <4>1, <4>2, <4>3
        <4> QED BY <4>3, <4>4, <4>5, Zenon
      <3>2. CASE i # last
        <4>1. i < last /\ IsExecution(responses[i])
          BY <2>1, <2>2, <3>2
        <4>2. responses[i].more = (responses[i].session = command.session)
          BY <1>1, <4>1 DEF Inv, Messages
        <4>3. IsExecution(responses[i]) \in BOOLEAN
          BY DEF IsExecution
        <4> QED BY <4>1, <4>2, <4>3, Zenon
      <3> QED BY <3>1, <3>2
    <2> QED BY <2>1, <2>4, <2>6
  <1>2. Inv => TerminalEndsCommand
    BY <1>1 DEF TerminalEndsCommand
  <1> QED BY <1>2, Invariance, PTL

\* An accepted order or replacement is acknowledged with exactly the units that
\* rest under its identifier when the handler is done, zero if none do.
THEOREM AcknowledgementTrue == Spec => []AcknowledgesResting
  <1>1. ASSUME Inv, ~handling, arrivals > 0,
               responses[Len(responses)].type \in {"order_accepted", "replace_accepted"}
        PROVE  {o.units : o \in Book!Resting(command.id)} =
                  {responses[Len(responses)].about.units} \ {0}
    <2> DEFINE t == Terminal(command.session, TerminalType(command.kind, result.rejection),
                             command.id, result.units)
    <2>1. responses[Len(responses)] = t /\ ~Matching
      BY <1>1 DEF Inv, Ending
    <2>2. command.kind \in Kind
      BY <1>1 DEF Inv, Typed
    <2>3. t.type = TerminalType(command.kind, result.rejection) /\ t.about.units = result.units
      BY DEF Terminal
    <2>4. command.kind # "cancel" /\ result.rejection = "none"
      BY <1>1, <2>1, <2>2, <2>3 DEF TerminalType, Kind
    <2>5. Acknowledged
      BY <1>1, <2>1, <2>4 DEF Inv, Outcome
    <2> HIDE DEF t
    <2> QED BY <2>1, <2>3, <2>5 DEF Acknowledged
  <1>2. Inv => AcknowledgesResting
    BY <1>1, Zenon DEF AcknowledgesResting
  <1> QED BY <1>2, Invariance, PTL
==============================================================================
