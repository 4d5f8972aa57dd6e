------------------------- MODULE OrderBookRefinement -------------------------
(***************************************************************************)
(* The order book implements the reference book: levels, lists and index    *)
(* give the trades that a search of all resting orders by price and         *)
(* sequence number gives.                                                   *)
(***************************************************************************)
EXTENDS OrderBookProofs

------------------------------------------------------------------------------
(* Lists as sets *)

Elements(L) == {L[i] : i \in DOMAIN L}

LEMMA AppendElements ==
    ASSUME NEW S, NEW L \in Seq(S), NEW e \in S
    PROVE  Elements(Append(L, e)) = Elements(L) \cup {e}
  <1> DEFINE M == Append(L, e)
  <1>1. /\ Len(L) \in Nat /\ DOMAIN L = 1 .. Len(L)
        /\ DOMAIN M = 1 .. Len(L) + 1
        /\ \A i \in 1 .. Len(L) : M[i] = L[i]
        /\ M[Len(L) + 1] = e
    BY AppendProperties, LenProperties
  <1> HIDE DEF M
  <1> QED BY <1>1 DEF Elements, M

LEMMA EraseElements ==
    ASSUME NEW L, NEW last, NEW l, Good(L, last, l), NEW k \in DOMAIN L
    PROVE  Elements(Erase(L, k)) = Elements(L) \ {L[k]}
  <1> DEFINE M == Erase(L, k)
  <1>1. /\ L \in Seq(RestingOrder) /\ Len(L) \in Nat
        /\ DOMAIN L = 1 .. Len(L)
    BY DEF Good
  <1>2. /\ DOMAIN M = 1 .. Len(L) - 1
        /\ \A i \in 1 .. Len(L) - 1 : M[i] = IF i < k THEN L[i] ELSE L[i + 1]
    BY Zenon, <1>1, EraseValue
  <1> HIDE DEF M
  <1>3. \A i, j \in DOMAIN L : L[i] = L[j] => i = j
    BY DEF Good, Queued
  <1>4. \A i \in DOMAIN M : \E n \in DOMAIN L \ {k} : M[i] = L[n]
    <2> SUFFICES ASSUME NEW i \in DOMAIN M PROVE \E n \in DOMAIN L \ {k} : M[i] = L[n]
      OBVIOUS
    <2>1. CASE i < k
      BY <1>1, <1>2, <2>1
    <2>2. CASE i >= k
      <3>1. i + 1 \in DOMAIN L \ {k} /\ M[i] = L[i + 1]
        BY <1>1, <1>2, <2>2
      <3> QED BY <3>1
    <2>3. i < k \/ i >= k
      BY <1>1, <1>2
    <2> QED BY <2>1, <2>2, <2>3
  <1>5. \A n \in DOMAIN L \ {k} : \E i \in DOMAIN M : M[i] = L[n]
    <2> SUFFICES ASSUME NEW n \in DOMAIN L \ {k} PROVE \E i \in DOMAIN M : M[i] = L[n]
      OBVIOUS
    <2>1. CASE n < k
      <3>1. n \in DOMAIN M /\ M[n] = L[n]
        BY <1>1, <1>2, <2>1
      <3> QED BY <3>1
    <2>2. CASE n > k
      <3>1. n - 1 \in DOMAIN M /\ ~(n - 1 < k) /\ (n - 1) + 1 = n
        BY <1>1, <1>2, <2>2
      <3>2. M[n - 1] = L[n]
        BY <1>2, <3>1
      <3> QED BY <3>1, <3>2
    <2>3. n < k \/ n > k
      BY <1>1
    <2> QED BY <2>1, <2>2, <2>3
  <1> QED BY <1>3, <1>4, <1>5 DEF Elements, M

LEMMA ReducedElements ==
    ASSUME NEW L, NEW last, NEW l, Good(L, last, l), NEW k \in DOMAIN L, NEW u
    PROVE  Elements(Reduced(L, k, u))
              = (Elements(L) \ {L[k]}) \cup {[L[k] EXCEPT !.units = u]}
  <1> DEFINE M == Reduced(L, k, u)
             e == [L[k] EXCEPT !.units = u]
  <1>1. \A i, j \in DOMAIN L : L[i] = L[j] => i = j
    BY DEF Good, Queued
  <1>2. DOMAIN M = DOMAIN L /\ M[k] = e /\ \A i \in DOMAIN L \ {k} : M[i] = L[i]
    BY DEF Reduced, Good
  <1> HIDE DEF M, e
  <1> QED BY <1>1, <1>2 DEF Elements, M, e

------------------------------------------------------------------------------
(* The book as a set of orders *)

FlatOrder(e, s, p) == [id |-> e.id, sequence |-> e.sequence,
                       side |-> s, price |-> p, units |-> e.units]

\* Two orders in the flat book are one if the orders in the lists are.
LEMMA FlatInjective ==
    ASSUME NEW e \in RestingOrder, NEW f \in RestingOrder, NEW s, NEW t, NEW p, NEW q,
           FlatOrder(e, s, p) = FlatOrder(f, t, q)
    PROVE  e = f /\ s = t /\ p = q
  BY DEF FlatOrder, RestingOrder

LEMMA FlatMember ==
    ASSUME NEW o
    PROVE  o \in FlatBook <=> \E s \in Side, p \in Price : \E e \in Elements(orders[s][p]) :
                                 o = FlatOrder(e, s, p)
  <1>1. o \in FlatBook <=> \E s \in Side, p \in Price : o \in FlatLevel(s, p)
    BY DEF FlatBook
  <1>2. ASSUME NEW s \in Side, NEW p \in Price
        PROVE  o \in FlatLevel(s, p) <=> \E e \in Elements(orders[s][p]) : o = FlatOrder(e, s, p)
    BY DEF FlatLevel, FlatOrder, Elements
  <1> QED BY <1>1, <1>2

LEMMA FlatMemberNext ==
    ASSUME NEW o
    PROVE  o \in FlatBook' <=> \E s \in Side, p \in Price : \E e \in Elements(orders'[s][p]) :
                                  o = FlatOrder(e, s, p)
  <1>1. o \in FlatBook' <=> \E s \in Side, p \in Price : o \in FlatLevel(s, p)'
    BY DEF FlatBook
  <1>2. ASSUME NEW s \in Side, NEW p \in Price
        PROVE  o \in FlatLevel(s, p)' <=> \E e \in Elements(orders'[s][p]) : o = FlatOrder(e, s, p)
    BY DEF FlatLevel, FlatOrder, Elements
  <1> QED BY <1>1, <1>2

\* The elements of a list are resting orders.
LEMMA ElementType ==
    ASSUME IInv, NEW s \in Side, NEW p \in Price, NEW e \in Elements(orders[s][p])
    PROVE  /\ e \in RestingOrder
           /\ \E i \in DOMAIN orders[s][p] : orders[s][p][i] = e
  <1>1. Good(orders[s][p], Last, ledger)
    BY DEF IInv, Levels
  <1>2. PICK i \in DOMAIN orders[s][p] : orders[s][p][i] = e
    BY DEF Elements
  <1> QED BY <1>1, <1>2, GoodElement

\* One level changes: an order e leaves it and the orders D join it.
LEMMA FlatChange ==
    ASSUME IInv, NEW side \in Side, NEW price \in Price, NEW list, NEW units,
           SetLevel(side, price, list, units),
           NEW C, NEW D, C \subseteq Elements(orders[side][price]),
           Elements(list) = (Elements(orders[side][price]) \ C) \cup D
    PROVE  FlatBook' = (FlatBook \ {FlatOrder(e, side, price) : e \in C})
                       \cup {FlatOrder(d, side, price) : d \in D}
  <1>1. orders \in [Side -> [Price -> Seq(RestingOrder)]]
    BY DEF IInv, TypeOK
  <1>2. /\ orders'[side][price] = list
        /\ \A s \in Side, p \in Price :
              ~(s = side /\ p = price) => orders'[s][p] = orders[s][p]
    BY <1>1 DEF SetLevel
  <1>3. \A o : o \in FlatBook' <=>
                  \E s \in Side, p \in Price : \E e \in Elements(orders'[s][p]) :
                     o = FlatOrder(e, s, p)
    BY FlatMemberNext
  <1>4. \A s \in Side, p \in Price : \A e \in Elements(orders[s][p]) : e \in RestingOrder
    BY ElementType
  <1>5. ASSUME NEW o \in FlatBook'
        PROVE  o \in (FlatBook \ {FlatOrder(e, side, price) : e \in C})
                     \cup {FlatOrder(d, side, price) : d \in D}
    <2>1. PICK s \in Side, p \in Price : \E e \in Elements(orders'[s][p]) :
             o = FlatOrder(e, s, p)
      BY <1>3, <1>5
    <2>2. PICK e \in Elements(orders'[s][p]) : o = FlatOrder(e, s, p)
      BY <2>1
    <2>3. CASE s = side /\ p = price /\ e \in D
      BY <2>2, <2>3
    <2>4. CASE ~(s = side /\ p = price /\ e \in D)
      <3>1. e \in Elements(orders[s][p]) /\ (s = side /\ p = price => e \notin C)
        BY <1>2, <2>4
      <3>2. o \in FlatBook
        BY <2>2, <3>1, FlatMember
      <3>3. \A c \in C : o # FlatOrder(c, side, price)
        BY <1>4, <2>2, <3>1, FlatInjective
      <3> QED BY <3>2, <3>3
    <2> QED BY <2>3, <2>4
  <1>6. ASSUME NEW o \in FlatBook, o \notin {FlatOrder(e, side, price) : e \in C}
        PROVE  o \in FlatBook'
    <2>1. PICK s \in Side, p \in Price : \E e \in Elements(orders[s][p]) :
             o = FlatOrder(e, s, p)
      BY <1>6, FlatMember
    <2>2. PICK e \in Elements(orders[s][p]) : o = FlatOrder(e, s, p)
      BY <2>1
    <2>3. e \in Elements(orders'[s][p])
      BY <1>2, <1>6, <2>2
    <2> QED BY <1>3, <2>2, <2>3
  <1>7. ASSUME NEW d \in D PROVE FlatOrder(d, side, price) \in FlatBook'
    BY <1>2, <1>3, <1>7
  <1> QED BY <1>5, <1>6, <1>7
\* The orders of a level in the flat book.
LEMMA FlatIndexed ==
    ASSUME IInv, NEW s \in Side, NEW p \in Price, NEW e \in Elements(orders[s][p])
    PROVE  e.id \in OrderId /\ where[e.id] = Loc(s, p)
  <1>1. e \in RestingOrder
    BY ElementType
  <1>2. e.id \in Ids(orders[s][p])
    BY DEF Elements, Ids
  <1> QED BY <1>1, <1>2 DEF IInv, Levels, RestingOrder

\* What the reference book finds for an identifier is what the index leads to.
LEMMA RestingNone ==
    ASSUME IInv, NEW id \in OrderId, where[id] = Nowhere
    PROVE  Reference!Resting(id) = {}
  <1> SUFFICES ASSUME NEW o \in FlatBook, o.id = id PROVE FALSE
    BY DEF Reference!Resting
  <1>1. PICK s \in Side, p \in Price : \E e \in Elements(orders[s][p]) : o = FlatOrder(e, s, p)
    BY FlatMember
  <1>2. PICK e \in Elements(orders[s][p]) : o = FlatOrder(e, s, p)
    BY <1>1
  <1>3. o.id = e.id
    BY <1>2 DEF FlatOrder
  <1>4. where[id] = Loc(s, p)
    BY <1>3, FlatIndexed
  <1> QED BY <1>4 DEF Loc, Nowhere, Side

LEMMA RestingOne ==
    ASSUME IInv, NEW id \in OrderId, where[id] # Nowhere
    PROVE  /\ Reference!Resting(id) = {FlatOrder(Node(id), where[id].side, where[id].price)}
           /\ FlatOrder(Node(id), where[id].side, where[id].price) \in FlatBook
  <1> DEFINE side == where[id].side
             price == where[id].price
             L == orders[side][price]
             k == Position(id)
             o == FlatOrder(Node(id), side, price)
  <1>1. /\ side \in Side /\ price \in Price /\ where[id] = Loc(side, price)
        /\ Good(L, Last, ledger) /\ k \in DOMAIN L /\ L[k].id = id
        /\ Node(id) = L[k]
    BY Indexed
  <1>2. Node(id) \in Elements(L)
    BY <1>1 DEF Elements
  <1>3. o \in FlatBook
    BY <1>1, <1>2, FlatMember
  <1>4. o.id = id
    BY <1>1 DEF FlatOrder
  <1>5. ASSUME NEW c \in FlatBook, c.id = id PROVE c = o
    <2>1. PICK s \in Side, p \in Price : \E e \in Elements(orders[s][p]) : c = FlatOrder(e, s, p)
      BY <1>5, FlatMember
    <2>2. PICK e \in Elements(orders[s][p]) : c = FlatOrder(e, s, p)
      BY <2>1
    <2>3. c.id = e.id
      BY <2>2 DEF FlatOrder
    <2>4. Loc(s, p) = Loc(side, price)
      BY Zenon, <1>1, <1>5, <2>3, FlatIndexed
    <2>5. s = side /\ p = price
      BY <2>4 DEF Loc
    <2>6. PICK i \in DOMAIN L : L[i] = e
      BY <2>2, <2>5 DEF Elements
    <2>7. i = k
      BY Zenon, <1>1, <1>5, <2>3, <2>6 DEF Good, Queued
    <2> QED BY <1>1, <2>2, <2>5, <2>6, <2>7
  <1> HIDE DEF o
  <1>6. Reference!Resting(id) = {o}
    BY <1>3, <1>4, <1>5 DEF Reference!Resting
  <1> QED BY <1>3, <1>6 DEF o

\* The removal of an order, in the flat book.
LEMMA FlatRemove ==
    ASSUME IInv, NEW id \in OrderId, where[id] # Nowhere, RemoveRestingOrder(id)
    PROVE  FlatBook' = FlatBook \ {FlatOrder(Node(id), where[id].side, where[id].price)}
  <1> DEFINE side == where[id].side
             price == where[id].price
             L == orders[side][price]
             k == Position(id)
             list == Erase(L, k)
             units == total[side][price] - Node(id).units
             C == {Node(id)}
             D == {}
  <1>1. /\ side \in Side /\ price \in Price
        /\ Good(L, Last, ledger) /\ k \in DOMAIN L /\ Node(id) = L[k]
    BY Indexed
  <1>2. SetLevel(side, price, list, units)
    BY DEF RemoveRestingOrder
  <1>3. Elements(list) = (Elements(L) \ C) \cup D
    BY <1>1, EraseElements
  <1>4. C \subseteq Elements(L)
    BY <1>1 DEF Elements
  <1> HIDE DEF side, price, list, units, C, D
  <1>5. FlatBook' = (FlatBook \ {FlatOrder(e, side, price) : e \in C})
                    \cup {FlatOrder(d, side, price) : d \in D}
    BY Zenon, <1>1, <1>2, <1>3, <1>4, FlatChange
  <1> QED BY <1>5 DEF C, D, side, price

\* A reduction in place, in the flat book.
LEMMA FlatReduce ==
    ASSUME IInv, NEW id \in OrderId, where[id] # Nowhere, NEW u, ReduceInPlace(id, u)
    PROVE  LET o == FlatOrder(Node(id), where[id].side, where[id].price)
           IN  FlatBook' = (FlatBook \ {o}) \cup {[o EXCEPT !.units = u]}
  <1> DEFINE side == where[id].side
             price == where[id].price
             L == orders[side][price]
             k == Position(id)
             list == Reduced(L, k, u)
             units == total[side][price] - (Node(id).units - u)
             e == Node(id)
             d == [e EXCEPT !.units = u]
             C == {e}
             D == {d}
             o == FlatOrder(e, side, price)
  <1>1. /\ side \in Side /\ price \in Price
        /\ Good(L, Last, ledger) /\ k \in DOMAIN L /\ e = L[k] /\ e \in RestingOrder
    BY Indexed
  <1>2. SetLevel(side, price, list, units)
    BY Zenon DEF ReduceInPlace, Reduced
  <1>3. Elements(list) = (Elements(L) \ C) \cup D
    <2> HIDE DEF e, k, L
    <2> QED BY <1>1, ReducedElements
  <1>4. C \subseteq Elements(L)
    BY <1>1 DEF Elements
  <1>5. FlatOrder(d, side, price) = [o EXCEPT !.units = u]
    <2> HIDE DEF e, side, price
    <2> QED BY <1>1 DEF FlatOrder, RestingOrder
  <1> HIDE DEF side, price, list, units, C, D
  <1>6. FlatBook' = (FlatBook \ {FlatOrder(x, side, price) : x \in C})
                    \cup {FlatOrder(x, side, price) : x \in D}
    BY ZenonT(30), <1>1, <1>2, <1>3, <1>4, FlatChange
  <1> HIDE DEF e, d
  <1>7. FlatBook' = (FlatBook \ {FlatOrder(e, side, price)}) \cup {FlatOrder(d, side, price)}
    BY <1>6 DEF C, D
  <1> QED BY <1>5, <1>7 DEF e, side, price

------------------------------------------------------------------------------
(* Each step of the book is a step of the reference book. *)

\* The lists did not change, nor did the flat book.
LEMMA FlatUnchanged ==
    ASSUME UNCHANGED orders PROVE FlatBook' = FlatBook
  BY DEF FlatBook, FlatLevel

LEMMA InitReference == Init => Reference!Init
  <1> SUFFICES ASSUME Init PROVE Reference!Init
    OBVIOUS
  <1>1. \A s \in Side, p \in Price : orders[s][p] = <<>>
    BY DEF Init
  <1>2. \A s \in Side, p \in Price : Elements(orders[s][p]) = {}
    BY <1>1 DEF Elements
  <1>3. FlatBook = {}
    BY <1>2, FlatMember
  <1> QED BY <1>3 DEF Init, Reference!Init, NoIncoming, Reference!NoIncoming, NoPrice,
                      Reference!NoPrice, Result, Reference!Result

LEMMA ArriveReference == Arrive => Reference!Arrive
  BY DEF Arrive, Reference!Arrive, Idle, Reference!Idle, NoIncoming, Reference!NoIncoming,
         NoPrice, Reference!NoPrice

LEMMA RefuseReference ==
    ASSUME NEW reason, Refuse(reason) PROVE Reference!Refuse(reason)
  <1>1. FlatBook' = FlatBook
    BY FlatUnchanged DEF Refuse, bookVars
  <1> QED BY <1>1 DEF Refuse, Reference!Refuse, Result, Reference!Result

LEMMA SubmitReference ==
    ASSUME NEW o \in NewOrder, Submit(o) PROVE Reference!Submit(o)
  <1>1. Reference!Arrive
    BY ArriveReference DEF Submit
  <1>2. Valid(o) <=> Reference!Valid(o)
    BY DEF Valid, Reference!Valid, NoPrice, Reference!NoPrice
  <1>3. CASE Refuse("invalid_order") /\ ~Valid(o)
    BY <1>1, <1>2, <1>3, RefuseReference DEF Reference!Submit
  <1>4. CASE Refuse("duplicate_order_id") /\ Valid(o) /\ o.id \in seen
    BY <1>1, <1>2, <1>4, RefuseReference DEF Reference!Submit
  <1>5. CASE /\ Valid(o) /\ o.id \notin seen
             /\ seen' = seen \cup {o.id}
             /\ incoming' = o
             /\ UNCHANGED <<bookVars, result>>
    <2>1. FlatBook' = FlatBook
      BY <1>5, FlatUnchanged DEF bookVars
    <2> QED BY <1>1, <1>2, <1>5, <2>1 DEF Reference!Submit
  <1> QED BY <1>3, <1>4, <1>5 DEF Submit

LEMMA CancelReference ==
    ASSUME IInv, NEW id \in OrderId, Cancel(id) PROVE Reference!Cancel(id)
  <1>1. Reference!Arrive
    BY ArriveReference DEF Cancel
  <1>2. CASE where[id] = Nowhere /\ Refuse("order_not_found")
    BY <1>1, <1>2, RestingNone, RefuseReference DEF Reference!Cancel
  <1>3. CASE /\ where[id] # Nowhere
             /\ RemoveRestingOrder(id)
             /\ result' = Result("none", Node(id).units)
             /\ UNCHANGED <<seen, incoming>>
    <2> DEFINE o == FlatOrder(Node(id), where[id].side, where[id].price)
    <2>1. Reference!Resting(id) = {o}
      BY <1>3, RestingOne
    <2>2. FlatBook' = FlatBook \ {o}
      BY <1>3, FlatRemove
    <2>3. o.units = Node(id).units
      BY DEF FlatOrder
    <2>4. result' = Reference!Result("none", o.units)
      BY <1>3, <2>3 DEF Result, Reference!Result
    <2> HIDE DEF o
    <2> QED BY <1>1, <1>3, <2>1, <2>2, <2>4 DEF Reference!Cancel
  <1> QED BY <1>2, <1>3 DEF Cancel

LEMMA ReplaceReference ==
    ASSUME IInv, NEW id \in OrderId, NEW price \in Price, NEW units \in Units,
           Replace(id, price, units)
    PROVE  Reference!Replace(id, price, units)
  <1> DEFINE o == FlatOrder(Node(id), where[id].side, where[id].price)
  <1>1. Reference!Arrive
    BY ArriveReference DEF Replace
  <1>2. CASE where[id] = Nowhere /\ Refuse("order_not_found")
    BY <1>1, <1>2, RestingNone, RefuseReference DEF Reference!Replace
  <1>3. o.units = Node(id).units /\ o.price = where[id].price /\ o.side = where[id].side
    BY DEF FlatOrder
  <1>4. KeepsPriority(id, price, units) <=> (o.price = price /\ units <= o.units)
    BY <1>3 DEF KeepsPriority
  <1>5. where[id] # Nowhere => Reference!Resting(id) = {o}
    BY RestingOne
  <1>6. CASE /\ where[id] # Nowhere /\ KeepsPriority(id, price, units)
             /\ ReduceInPlace(id, units)
             /\ result' = Result("none", units)
             /\ UNCHANGED <<seen, incoming>>
    <2>1. FlatBook' = (FlatBook \ {o}) \cup {[o EXCEPT !.units = units]}
      BY <1>6, FlatReduce
    <2>2. result' = Reference!Result("none", units)
      BY <1>6 DEF Result, Reference!Result
    <2> HIDE DEF o
    <2> QED BY <1>1, <1>4, <1>5, <1>6, <2>1, <2>2 DEF Reference!Replace
  <1>7. CASE /\ where[id] # Nowhere /\ ~KeepsPriority(id, price, units)
             /\ RemoveRestingOrder(id)
             /\ incoming' = [id |-> id, side |-> where[id].side, type |-> "limit",
                             price |-> price, units |-> units]
             /\ UNCHANGED <<seen, result>>
    <2>1. FlatBook' = FlatBook \ {o}
      BY <1>7, FlatRemove
    <2>2. incoming' = [id |-> id, side |-> o.side, type |-> "limit",
                       price |-> price, units |-> units]
      BY <1>3, <1>7
    <2> HIDE DEF o
    <2> QED BY <1>1, <1>4, <1>5, <1>7, <2>1, <2>2 DEF Reference!Replace
  <1> QED BY <1>2, <1>6, <1>7 DEF Replace
\* The orders the reference book searches: those in the lists of the other side
\* at prices that cross.
LEMMA CandidateFacts ==
    ASSUME IInv, ~Idle, NEW c
    PROVE  c \in Reference!Candidates <=>
              \E q \in prices[Contra(incoming.side)] :
                 \E e \in Elements(orders[Contra(incoming.side)][q]) :
                    /\ Crosses(incoming, q)
                    /\ c = FlatOrder(e, Contra(incoming.side), q)
  <1> DEFINE side == Contra(incoming.side)
  <1>1. /\ side \in Side /\ incoming.side \in Side
        /\ \A s \in Side : s # incoming.side <=> s = side
    BY IncomingFacts DEF Side, Contra
  <1>2. \A q : Crosses(incoming, q) <=> Reference!Crosses(incoming, q)
    BY DEF Crosses, Reference!Crosses
  <1>3. prices[side] \subseteq Price
    BY <1>1 DEF IInv, TypeOK
  <1> HIDE DEF side
  <1>4. ASSUME c \in Reference!Candidates
        PROVE  \E q \in prices[side] : \E e \in Elements(orders[side][q]) :
                  Crosses(incoming, q) /\ c = FlatOrder(e, side, q)
    <2>1. /\ c \in FlatBook /\ c.side # incoming.side
          /\ Reference!Crosses(incoming, c.price)
      BY <1>4 DEF Reference!Candidates
    <2>2. PICK s \in Side, q \in Price : \E e \in Elements(orders[s][q]) : c = FlatOrder(e, s, q)
      BY <2>1, FlatMember
    <2>3. PICK e \in Elements(orders[s][q]) : c = FlatOrder(e, s, q)
      BY <2>2
    <2>4. c.side = s /\ c.price = q
      BY <2>3 DEF FlatOrder
    <2>5. s = side
      BY <1>1, <2>1, <2>4
    <2>6. orders[side][q] # <<>>
      BY <2>3, <2>5 DEF Elements
    <2>7. q \in prices[side]
      BY <1>1, <2>6 DEF IInv, Levels
    <2>8. Crosses(incoming, q)
      BY <1>2, <2>1, <2>4
    <2> QED BY <2>3, <2>5, <2>7, <2>8
  <1>5. ASSUME NEW q \in prices[side], NEW e \in Elements(orders[side][q]),
               Crosses(incoming, q), c = FlatOrder(e, side, q)
        PROVE  c \in Reference!Candidates
    <2>1. c \in FlatBook
      BY <1>1, <1>3, <1>5, FlatMember
    <2>2. c.side = side /\ c.price = q
      BY <1>5 DEF FlatOrder
    <2> QED BY <1>1, <1>2, <1>5, <2>1, <2>2 DEF Reference!Candidates
  <1> QED BY <1>4, <1>5 DEF side

\* The front of the best level comes before every other candidate.
LEMMA FrontIsFirst ==
    ASSUME IInv, ~Idle, incoming.units > 0, NEW p \in prices[Contra(incoming.side)],
           Best(Contra(incoming.side), p), Crosses(incoming, p)
    PROVE  LET side == Contra(incoming.side)
               o == FlatOrder(Head(orders[side][p]), side, p)
           IN  /\ o \in Reference!Candidates
               /\ \A c \in Reference!Candidates \ {o} : Reference!Before(o, c)
  <1> DEFINE side == Contra(incoming.side)
             list == orders[side][p]
             front == Head(list)
             o == FlatOrder(front, side, p)
  <1>1. /\ side \in Side /\ p \in Price
        /\ Good(list, Last, ledger) /\ 1 \in DOMAIN list /\ front = list[1]
    BY Zenon, FrontFacts
  <1>2. front \in Elements(list)
    BY <1>1 DEF Elements
  <1>3. o \in Reference!Candidates
    BY <1>2, CandidateFacts
  <1>4. o.side = side /\ o.price = p /\ o.sequence = front.sequence
    BY DEF FlatOrder
  <1>5. ASSUME NEW c \in Reference!Candidates \ {o} PROVE Reference!Before(o, c)
    <2>1. PICK q \in prices[side] : \E e \in Elements(orders[side][q]) : c = FlatOrder(e, side, q)
      BY CandidateFacts
    <2>2. PICK e \in Elements(orders[side][q]) : c = FlatOrder(e, side, q)
      BY <2>1
    <2>3. c.price = q /\ c.sequence = e.sequence
      BY <2>2 DEF FlatOrder
    <2> HIDE DEF o, list, front
    <2>4. CASE q = p
      <3>1. PICK i \in DOMAIN list : list[i] = e
        BY <2>2, <2>4 DEF Elements, list
      <3>2. i # 1
        BY <1>1, <1>5, <2>2, <2>4, <3>1 DEF o
      <3>3. DOMAIN list = 1 .. Len(list) /\ Len(list) \in Nat
        BY <1>1 DEF Good
      <3>4. 1 < i
        BY <3>2, <3>3
      <3>5. front.sequence < e.sequence
        BY <1>1, <3>1, <3>4 DEF Good, Queued
      <3> QED BY <1>4, <2>3, <2>4, <3>5 DEF Reference!Before
    <2>5. CASE q # p
      <3>1. Better(side, p, q)
        BY <2>5 DEF Best
      <3> QED BY <1>4, <2>3, <3>1 DEF Reference!Before, Better, Reference!Better
    <2> QED BY <2>4, <2>5
  <1> QED BY <1>3, <1>5

\* A trade with the front of a level, in the flat book.
LEMMA FlatTrade ==
    ASSUME IInv, ~Idle, incoming.units > 0, NEW p \in prices[Contra(incoming.side)],
           TradeAt(p)
    PROVE  LET side == Contra(incoming.side)
               front == Head(orders[side][p])
               traded == Smaller(incoming.units, front.units)
               o == FlatOrder(front, side, p)
           IN  FlatBook' = (FlatBook \ {o}) \cup
                           (IF o.units = traded THEN {}
                            ELSE {[o EXCEPT !.units = @ - traded]})
  <1> DEFINE side == Contra(incoming.side)
             list == orders[side][p]
             front == Head(list)
             traded == Smaller(incoming.units, front.units)
             left == front.units - traded
             o == FlatOrder(front, side, p)
             after == AfterTrade(list, traded)
             units == total[side][p] - traded
             C == {front}
             D == IF front.units = traded THEN {} ELSE {[front EXCEPT !.units = left]}
  <1>1. /\ side \in Side /\ p \in Price
        /\ Good(list, Last, ledger)
        /\ Tail(list) = Erase(list, 1) /\ 1 \in DOMAIN list /\ front = list[1]
        /\ front \in RestingOrder
    BY Zenon, FrontFacts
  <1>2. SetLevel(side, p, after, units)
    BY Zenon DEF TradeAt
  <1>3. o.units = front.units
    BY DEF FlatOrder
  <1>4. FlatOrder([front EXCEPT !.units = left], side, p) = [o EXCEPT !.units = @ - traded]
    <2> HIDE DEF front, traded, side
    <2> QED BY <1>1 DEF FlatOrder, RestingOrder
  <1> HIDE DEF list, side, traded
  <1>5. after = IF front.units = traded THEN Erase(list, 1) ELSE Reduced(list, 1, left)
    BY Zenon, <1>1 DEF AfterTrade, Reduced
  <1> HIDE DEF front, left
  <1>6. Elements(after) = (Elements(list) \ C) \cup D
    <2>1. CASE front.units = traded
      <3>1. Elements(Erase(list, 1)) = Elements(list) \ {list[1]}
        BY <1>1, EraseElements
      <3> QED BY <1>1, <1>5, <2>1, <3>1
    <2>2. CASE front.units # traded
      <3>1. Elements(Reduced(list, 1, left))
               = (Elements(list) \ {list[1]}) \cup {[list[1] EXCEPT !.units = left]}
        BY <1>1, ReducedElements
      <3> QED BY <1>1, <1>5, <2>2, <3>1
    <2> QED BY <2>1, <2>2
  <1>7. C \subseteq Elements(orders[side][p])
    BY <1>1 DEF Elements, list
  <1>8. Elements(after) = (Elements(orders[side][p]) \ C) \cup D
    BY <1>6 DEF list
  <1> HIDE DEF after, units, C, D
  <1>9. FlatBook' = (FlatBook \ {FlatOrder(x, side, p) : x \in C})
                    \cup {FlatOrder(x, side, p) : x \in D}
    BY <1>1, <1>2, <1>7, <1>8, FlatChange
  <1>10. {FlatOrder(x, side, p) : x \in C} = {o}
    BY DEF C
  <1>11. {FlatOrder(x, side, p) : x \in D}
            = IF o.units = traded THEN {} ELSE {[o EXCEPT !.units = @ - traded]}
    <2>1. CASE front.units = traded
      BY <1>3, <2>1 DEF D
    <2>2. CASE front.units # traded
      BY <1>3, <1>4, <2>2 DEF D
    <2> QED BY <2>1, <2>2
  <1> QED BY <1>9, <1>10, <1>11 DEF side, front, traded, list
LEMMA IdleReference == Idle <=> Reference!Idle
  BY DEF Idle, Reference!Idle, NoIncoming, Reference!NoIncoming, NoPrice, Reference!NoPrice

LEMMA MatchReference ==
    ASSUME IInv, MatchFront PROVE Reference!MatchBest
  <1>1. /\ ~Idle /\ incoming.units > 0
        /\ UNCHANGED <<seen, arrivals, result>>
    BY Zenon DEF MatchFront
  <1>2. PICK p \in prices[Contra(incoming.side)] : TradeAt(p)
    BY Zenon DEF MatchFront, TradeAt
  <1> DEFINE side == Contra(incoming.side)
             front == Head(orders[side][p])
             traded == Smaller(incoming.units, front.units)
             o == FlatOrder(front, side, p)
  <1>3. /\ Best(side, p) /\ Crosses(incoming, p)
        /\ executions' = Append(executions, Execution(front.id, incoming.id, p, traded))
        /\ incoming' = [incoming EXCEPT !.units = @ - traded]
    BY Zenon, <1>2 DEF TradeAt
  <1>4. /\ o \in Reference!Candidates
        /\ \A c \in Reference!Candidates \ {o} : Reference!Before(o, c)
    BY <1>1, <1>3, FrontIsFirst
  <1>5. FlatBook' = (FlatBook \ {o}) \cup
                    (IF o.units = traded THEN {} ELSE {[o EXCEPT !.units = @ - traded]})
    BY <1>1, <1>2, FlatTrade
  <1>6. o.id = front.id /\ o.price = p /\ o.units = front.units
    BY DEF FlatOrder
  <1> HIDE DEF o, front
  <1>7. traded = Reference!Smaller(incoming.units, o.units)
    BY <1>6 DEF Smaller, Reference!Smaller
  <1> HIDE DEF traded
  <1>8. executions' = Append(executions,
                             Reference!Execution(o.id, incoming.id, o.price, traded))
    BY <1>3, <1>6 DEF Execution, Reference!Execution
  <1> QED BY Zenon, <1>1, <1>3, <1>4, <1>5, <1>7, <1>8, IdleReference DEF Reference!MatchBest

\* When the loop ends with units left, the reference book finds no candidate.
LEMMA FinishGuard ==
    ASSUME IInv, ~Idle,
           \A p \in prices[Contra(incoming.side)] :
              Best(Contra(incoming.side), p) => ~Crosses(incoming, p)
    PROVE  Reference!Candidates = {}
  <1>1. \A q \in prices[Contra(incoming.side)] : ~Crosses(incoming, q)
    BY NoneCrosses
  <1> QED BY <1>1, CandidateFacts

\* The remainder joins its level, in the flat book.
LEMMA FlatInsert ==
    ASSUME IInv, ~Idle, incoming.type = "limit", incoming.units > 0,
           InsertRestingOrder(incoming)
    PROVE  FlatBook' = FlatBook \cup {[id |-> incoming.id, sequence |-> arrivals,
                                       side |-> incoming.side, price |-> incoming.price,
                                       units |-> incoming.units]}
  <1> DEFINE side == incoming.side
             price == incoming.price
             L == orders[side][price]
             e == [id |-> incoming.id, sequence |-> arrivals, units |-> incoming.units]
             list == Append(L, e)
             units == total[side][price] + incoming.units
             C == {}
             D == {e}
  <1>1. /\ side \in Side /\ price \in Price /\ incoming.id \in OrderId
        /\ incoming.units \in Nat
    BY IncomingFacts DEF IInv, Matching
  <1>2. SetLevel(side, price, list, units)
    BY DEF InsertRestingOrder
  <1>3. L \in Seq(RestingOrder)
    BY <1>1 DEF IInv, TypeOK
  <1>4. e \in RestingOrder
    <2>1. arrivals \in Nat
      BY MaxCommandsAssumption DEF IInv, TypeOK
    <2>2. incoming.units \in Nat \ {0}
      BY <1>1
    <2> QED BY <1>1, <2>1, <2>2 DEF RestingOrder
  <1>5. FlatOrder(e, side, price)
           = [id |-> incoming.id, sequence |-> arrivals, side |-> incoming.side,
              price |-> incoming.price, units |-> incoming.units]
    BY DEF FlatOrder
  <1> HIDE DEF e
  <1>6. Elements(list) = (Elements(L) \ C) \cup D
    <2> HIDE DEF L
    <2>1. Elements(list) = Elements(L) \cup {e}
      BY <1>3, <1>4, AppendElements
    <2> QED BY <2>1
  <1>7. C \subseteq Elements(L)
    OBVIOUS
  <1> HIDE DEF side, price, list, units, C, D
  <1>8. FlatBook' = (FlatBook \ {FlatOrder(x, side, price) : x \in C})
                    \cup {FlatOrder(x, side, price) : x \in D}
    BY <1>1, <1>2, <1>6, <1>7, FlatChange
  <1>9. FlatBook' = FlatBook \cup {FlatOrder(e, side, price)}
    BY <1>8 DEF C, D
  <1> QED BY <1>5, <1>9

LEMMA FinishReference ==
    ASSUME IInv, Finish PROVE Reference!Finish
  <1>1. /\ ~Idle /\ incoming' = NoIncoming
        /\ UNCHANGED <<seen, arrivals, executions>>
    BY DEF Finish
  <1>2. incoming.units = 0 \/ Reference!Candidates = {}
    BY <1>1, FinishGuard DEF Finish
  <1>3. incoming' = Reference!NoIncoming
    BY <1>1 DEF NoIncoming, Reference!NoIncoming, NoPrice, Reference!NoPrice
  <1>4. CASE /\ incoming.type = "limit" /\ incoming.units > 0
             /\ InsertRestingOrder(incoming)
             /\ result' = Result("none", incoming.units)
    <2>1. FlatBook' = FlatBook \cup {[id |-> incoming.id, sequence |-> arrivals,
                                      side |-> incoming.side, price |-> incoming.price,
                                      units |-> incoming.units]}
      BY <1>1, <1>4, FlatInsert
    <2>2. result' = Reference!Result("none", incoming.units)
      BY <1>4 DEF Result, Reference!Result
    <2> QED BY <1>1, <1>2, <1>3, <1>4, <2>1, <2>2, IdleReference DEF Reference!Finish
  <1>5. CASE /\ ~(incoming.type = "limit" /\ incoming.units > 0)
             /\ result' = Result("none", 0)
             /\ UNCHANGED bookVars
    <2>1. FlatBook' = FlatBook
      BY <1>5, FlatUnchanged DEF bookVars
    <2>2. result' = Reference!Result("none", 0)
      BY <1>5 DEF Result, Reference!Result
    <2> QED BY <1>1, <1>2, <1>3, <1>5, <2>1, <2>2, IdleReference DEF Reference!Finish
  <1> QED BY <1>4, <1>5 DEF Finish

LEMMA NextReference == IInv /\ [Next]_vars => [Reference!Next]_(Reference!vars)
  <1> SUFFICES ASSUME IInv, [Next]_vars PROVE Reference!Next \/ UNCHANGED Reference!vars
    OBVIOUS
  <1>1. ASSUME NEW o \in NewOrder, Submit(o) PROVE Reference!Next
    <2>1. o \in Reference!NewOrder
      BY DEF NewOrder, Reference!NewOrder, Side, Reference!Side, OrderType,
             Reference!OrderType, NoPrice, Reference!NoPrice
    <2> QED BY <1>1, <2>1, SubmitReference DEF Reference!Next
  <1>2. ASSUME NEW id \in OrderId, Cancel(id) PROVE Reference!Next
    BY <1>2, CancelReference DEF Reference!Next
  <1>3. ASSUME NEW id \in OrderId, NEW price \in Price, NEW units \in Units,
               Replace(id, price, units)
        PROVE  Reference!Next
    BY <1>3, ReplaceReference DEF Reference!Next
  <1>4. CASE MatchFront
    BY <1>4, MatchReference DEF Reference!Next
  <1>5. CASE Finish
    BY <1>5, FinishReference DEF Reference!Next
  <1>6. CASE NoMoreCommands \/ UNCHANGED vars
    <2>1. UNCHANGED <<orders, seen, arrivals, incoming, executions, result>>
      BY <1>6 DEF NoMoreCommands, vars, bookVars
    <2>2. FlatBook' = FlatBook
      BY <2>1, FlatUnchanged
    <2> QED BY <2>1, <2>2 DEF Reference!vars
  <1> QED BY <1>1, <1>2, <1>3, <1>4, <1>5, <1>6 DEF Next

\* The levels, lists and index of order_book.cpp give, for every sequence of
\* commands, the executions, outcomes and resting orders that the flat
\* reference book gives: price priority, then time priority.
THEOREM Implements == Spec => ImplementsReference
  <1>1. Init => Reference!Init
    BY InitReference
  <1>2. IInv /\ [Next]_vars => [Reference!Next]_(Reference!vars)
    BY NextReference
  <1> QED BY <1>1, <1>2, IInvHolds, PTL DEF Spec, ImplementsReference, Reference!Spec
==============================================================================
