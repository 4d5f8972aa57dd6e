-------------------------- MODULE OrderBookLevels ----------------------------
(***************************************************************************)
(* The inductive invariant of the order book, and what each operation on a *)
(* level does to it: an order joins, leaves, is reduced or trades, and the  *)
(* index, the ledger and all other levels keep in step.                     *)
(***************************************************************************)
EXTENDS OrderBook, SequenceTheorems, TLAPS

------------------------------------------------------------------------------
(* One level: a list of resting orders. *)

Ids(L) == {L[i].id : i \in DOMAIN L}

\* Each order at most once, in the order of arrival, the last one no later than
\* the command of this number.
Queued(L, last) ==
    /\ \A i, j \in DOMAIN L : L[i].id = L[j].id => i = j
    /\ \A i, j \in DOMAIN L : i < j => L[i].sequence < L[j].sequence
    /\ \A i \in DOMAIN L : L[i].sequence <= last

\* Each order has the units that the entries in ledger l leave it.
Left(l, id) == l[id].submitted - l[id].executed - l[id].cancelled
Paid(L, l) == \A i \in DOMAIN L : Left(l, L[i].id) = L[i].units

Good(L, last, l) == L \in Seq(RestingOrder) /\ Queued(L, last) /\ Paid(L, l)

\* What is known of each order in a list.
LEMMA GoodElement ==
    ASSUME NEW L, NEW last, NEW l, Good(L, last, l), NEW k \in DOMAIN L
    PROVE  /\ L[k] \in RestingOrder /\ L[k].id \in OrderId /\ L[k].id \in Ids(L)
           /\ L[k].sequence \in Nat /\ L[k].units \in Nat \ {0}
           /\ Left(l, L[k].id) = L[k].units
  <1>1. L \in Seq(RestingOrder) /\ DOMAIN L = 1 .. Len(L)
    BY DEF Good
  <1>2. L[k] \in RestingOrder
    BY <1>1, ElementOfSeq
  <1> QED BY <1>2 DEF Good, Paid, RestingOrder, Ids

\* An order that arrived later joins at the end.
LEMMA GoodAppend ==
    ASSUME NEW L, NEW last \in Nat, NEW l, NEW e \in RestingOrder,
           Good(L, last, l), e.id \notin Ids(L), last < e.sequence,
           Left(l, e.id) = e.units
    PROVE  /\ Good(Append(L, e), e.sequence, l)
           /\ Ids(Append(L, e)) = Ids(L) \cup {e.id}
           /\ Append(L, e) # <<>>
  <1> DEFINE M == Append(L, e)
  <1>1. /\ L \in Seq(RestingOrder) /\ Len(L) \in Nat
        /\ DOMAIN L = 1 .. Len(L)
    BY DEF Good
  <1>2. /\ M \in Seq(RestingOrder) /\ M # <<>>
        /\ DOMAIN M = 1 .. Len(L) + 1
        /\ \A i \in 1 .. Len(L) : M[i] = L[i]
        /\ M[Len(L) + 1] = e
    BY <1>1, AppendProperties
  <1> HIDE DEF M
  <1>3. \A i \in 1 .. Len(L) : L[i] \in RestingOrder
    BY <1>1, ElementOfSeq
  <1>4. Ids(M) = Ids(L) \cup {e.id}
    BY <1>1, <1>2 DEF Ids
  <1>5. Queued(M, e.sequence)
    <2>1. \A i \in 1 .. Len(L) : L[i].sequence \in Nat /\ L[i].sequence <= last /\ L[i].id # e.id
      BY Zenon, <1>1, <1>3 DEF Good, Queued, RestingOrder, Ids
    <2>2. e.sequence \in Nat
      BY DEF RestingOrder
    <2>3. /\ \A i, j \in 1 .. Len(L) : L[i].id = L[j].id => i = j
          /\ \A i, j \in 1 .. Len(L) : i < j => L[i].sequence < L[j].sequence
      BY <1>1 DEF Good, Queued
    <2>4. \A i \in DOMAIN M : i \in 1 .. Len(L) \/ i = Len(L) + 1
      BY <1>1, <1>2
    <2>5. \A i, j \in DOMAIN M : M[i].id = M[j].id => i = j
      BY <1>2, <2>1, <2>3, <2>4
    <2>6. \A i, j \in DOMAIN M : i < j => M[i].sequence < M[j].sequence
      <3> SUFFICES ASSUME NEW i \in DOMAIN M, NEW j \in DOMAIN M, i < j
                   PROVE  M[i].sequence < M[j].sequence
        OBVIOUS
      <3>1. i \in 1 .. Len(L) BY <1>1, <1>2
      <3>2. CASE j \in 1 .. Len(L) BY <1>2, <2>3, <3>1, <3>2
      <3>3. CASE j = Len(L) + 1 BY <1>2, <2>1, <2>2, <3>1, <3>3
      <3> QED BY <2>4, <3>2, <3>3
    <2>7. \A i \in DOMAIN M : M[i].sequence <= e.sequence
      BY <1>2, <2>1, <2>2, <2>4
    <2> QED BY <2>5, <2>6, <2>7 DEF Queued
  <1>6. Paid(M, l)
    BY <1>1, <1>2 DEF Good, Paid
  <1> QED BY <1>2, <1>4, <1>5, <1>6 DEF Good, M

\* What a removal does to a list, position by position.
LEMMA EraseValue ==
    ASSUME NEW S, NEW L \in Seq(S), NEW k \in 1 .. Len(L)
    PROVE  /\ Erase(L, k) \in Seq(S)
           /\ DOMAIN Erase(L, k) = 1 .. Len(L) - 1
           /\ Len(Erase(L, k)) = Len(L) - 1
           /\ \A i \in 1 .. Len(L) - 1 :
                 Erase(L, k)[i] = IF i < k THEN L[i] ELSE L[i + 1]
  <1>1. Len(L) \in Nat /\ \A i \in 1 .. Len(L) : L[i] \in S
    BY ElementOfSeq
  <1> DEFINE a == SubSeq(L, 1, k - 1)
             b == SubSeq(L, k + 1, Len(L))
  <1>2. /\ a \in Seq(S) /\ Len(a) = k - 1
        /\ \A i \in 1 .. k - 1 : a[i] = L[i]
    BY <1>1, SubSeqProperties
  <1>3. /\ b \in Seq(S) /\ Len(b) = Len(L) - k
        /\ \A i \in 1 .. Len(L) - k : b[i] = L[k + i]
    <2>1. \A i \in k + 1 .. Len(L) : L[i] \in S
      BY <1>1
    <2>2. /\ b \in Seq(S)
          /\ Len(b) = IF k + 1 <= Len(L) THEN Len(L) - (k + 1) + 1 ELSE 0
          /\ \A i \in 1 .. Len(L) - (k + 1) + 1 : b[i] = L[(k + 1) + i - 1]
      BY <1>1, <2>1, SubSeqProperties
    <2> HIDE DEF b
    <2> QED BY <1>1, <2>2
  <1> HIDE DEF a, b
  <1>4. /\ a \o b \in Seq(S)
        /\ Len(a \o b) = Len(a) + Len(b)
        /\ \A i \in 1 .. Len(a) + Len(b) :
              (a \o b)[i] = IF i <= Len(a) THEN a[i] ELSE b[i - Len(a)]
    BY Zenon, <1>2, <1>3, ConcatProperties
  <1>5. Erase(L, k) = a \o b
    BY DEF Erase, a, b
  <1>6. \A i \in 1 .. Len(L) - 1 : (a \o b)[i] = IF i < k THEN L[i] ELSE L[i + 1]
    <2> SUFFICES ASSUME NEW i \in 1 .. Len(L) - 1
                 PROVE  (a \o b)[i] = IF i < k THEN L[i] ELSE L[i + 1]
      BY Zenon
    <2>1. CASE i < k
      BY <1>1, <1>2, <1>3, <1>4, <2>1
    <2>2. CASE i >= k
      <3>1. i - (k - 1) \in 1 .. Len(L) - k /\ k + (i - (k - 1)) = i + 1
        BY <1>1, <2>2
      <3>2. b[i - (k - 1)] = L[k + (i - (k - 1))]
        BY <1>3, <3>1
      <3> QED BY <1>1, <1>2, <1>3, <1>4, <2>2, <3>1, <3>2
    <2>3. i < k \/ i >= k
      BY <1>1
    <2> QED BY Zenon, <2>1, <2>2, <2>3
  <1>7. Len(a \o b) = Len(L) - 1
    BY <1>1, <1>2, <1>3, <1>4
  <1>8. DOMAIN (a \o b) = 1 .. Len(a \o b)
    BY <1>4, LenProperties
  <1> QED BY <1>4, <1>5, <1>6, <1>7, <1>8

\* An order leaves the list; the others are unaffected.
LEMMA GoodRemove ==
    ASSUME NEW L, NEW last \in Nat, NEW l, NEW k \in DOMAIN L, Good(L, last, l)
    PROVE  /\ Good(Erase(L, k), last, l)
           /\ Ids(Erase(L, k)) = Ids(L) \ {L[k].id}
  <1> DEFINE M == Erase(L, k)
  <1>1. /\ L \in Seq(RestingOrder) /\ Len(L) \in Nat
        /\ DOMAIN L = 1 .. Len(L)
    BY DEF Good
  <1>2. /\ M \in Seq(RestingOrder) /\ DOMAIN M = 1 .. Len(L) - 1
        /\ \A i \in 1 .. Len(L) - 1 : M[i] = IF i < k THEN L[i] ELSE L[i + 1]
    BY Zenon, <1>1, EraseValue
  <1> HIDE DEF M
  <1> DEFINE f(i) == IF i < k THEN i ELSE i + 1
  <1>3. \A i \in DOMAIN M : f(i) \in DOMAIN L /\ f(i) # k /\ M[i] = L[f(i)]
    BY <1>1, <1>2
  <1>4. \A i, j \in DOMAIN M : (f(i) = f(j) => i = j) /\ (i < j => f(i) < f(j))
    BY <1>1, <1>2
  <1>5. \A n \in DOMAIN L \ {k} : \E i \in DOMAIN M : f(i) = n
    <2> SUFFICES ASSUME NEW n \in DOMAIN L \ {k} PROVE \E i \in DOMAIN M : f(i) = n
      OBVIOUS
    <2>1. CASE n < k BY <1>1, <1>2, <2>1
    <2>2. CASE n > k
      <3>1. n - 1 \in DOMAIN M /\ f(n - 1) = n BY <1>1, <1>2, <2>2
      <3> QED BY <3>1
    <2> QED BY <1>1, <2>1, <2>2
  <1> HIDE DEF f
  <1>6. Queued(M, last)
    BY <1>3, <1>4 DEF Good, Queued
  <1>7. Paid(M, l)
    BY <1>3 DEF Good, Paid
  <1>8. Ids(M) = Ids(L) \ {L[k].id}
    <2>1. \A n \in DOMAIN L : L[n].id = L[k].id => n = k
      BY DEF Good, Queued
    <2> QED BY <1>3, <1>5, <2>1 DEF Ids
  <1> QED BY <1>2, <1>6, <1>7, <1>8 DEF Good, M
\* The front of the list leaves it.
LEMMA TailIsErase ==
    ASSUME NEW S, NEW L \in Seq(S), L # <<>>
    PROVE  /\ Tail(L) = Erase(L, 1)
           /\ 1 \in DOMAIN L /\ Head(L) = L[1]
  <1>1. /\ Len(L) \in Nat \ {0} /\ 1 \in 1 .. Len(L)
        /\ DOMAIN L = 1 .. Len(L)
    BY EmptySeq, LenProperties
  <1>2. /\ Tail(L) \in Seq(S) /\ Len(Tail(L)) = Len(L) - 1
        /\ \A i \in 1 .. Len(Tail(L)) : Tail(L)[i] = L[i + 1]
    BY HeadTailProperties
  <1>3. /\ Erase(L, 1) \in Seq(S)
        /\ Len(Erase(L, 1)) = Len(L) - 1
        /\ \A i \in 1 .. Len(L) - 1 :
              Erase(L, 1)[i] = IF i < 1 THEN L[i] ELSE L[i + 1]
    BY Zenon, <1>1, EraseValue
  <1>4. \A i \in 1 .. Len(L) - 1 : Erase(L, 1)[i] = L[i + 1]
    BY <1>1, <1>3
  <1>5. Tail(L) = Erase(L, 1)
    BY <1>2, <1>3, <1>4, SeqEqual
  <1>6. Head(L) = L[1]
    BY <1>1
  <1> QED BY <1>1, <1>5, <1>6

\* The units of one order change, and its balance with them.
Reduced(L, k, u) == [L EXCEPT ![k].units = u]

LEMMA GoodReduced ==
    ASSUME NEW L, NEW last \in Nat, NEW l, NEW m, NEW k \in DOMAIN L,
           NEW u \in Nat \ {0}, Good(L, last, l),
           Left(m, L[k].id) = u,
           \A id \in Ids(L) \ {L[k].id} : Left(m, id) = Left(l, id)
    PROVE  /\ Good(Reduced(L, k, u), last, m)
           /\ Ids(Reduced(L, k, u)) = Ids(L)
           /\ Reduced(L, k, u) # <<>>
  <1> DEFINE M == Reduced(L, k, u)
  <1>1. /\ L \in Seq(RestingOrder) /\ Len(L) \in Nat
        /\ DOMAIN L = 1 .. Len(L)
    BY DEF Good
  <1>2. \A i \in DOMAIN L : L[i] \in RestingOrder
    BY <1>1, ElementOfSeq
  <1>3. [L[k] EXCEPT !.units = u] \in RestingOrder
    BY <1>2 DEF RestingOrder
  <1>4. M = [L EXCEPT ![k] = [L[k] EXCEPT !.units = u]]
    BY DEF Reduced
  <1> HIDE DEF M
  <1>5. M \in Seq(RestingOrder) /\ Len(M) = Len(L)
    BY <1>1, <1>3, <1>4, ExceptSeq
  <1>6. /\ DOMAIN M = DOMAIN L
        /\ \A i \in DOMAIN L \ {k} : M[i] = L[i]
        /\ M[k] = [L[k] EXCEPT !.units = u]
    BY <1>1, <1>4
  <1>7. M[k].id = L[k].id /\ M[k].sequence = L[k].sequence /\ M[k].units = u
    BY <1>2, <1>6 DEF RestingOrder
  <1>8. \A i \in DOMAIN L : M[i].id = L[i].id /\ M[i].sequence = L[i].sequence
    BY Zenon, <1>6, <1>7
  <1>9. Queued(M, last)
    BY <1>6, <1>8 DEF Good, Queued
  <1>10. Paid(M, m)
    <2>1. \A i \in DOMAIN L \ {k} : L[i].id \in Ids(L) \ {L[k].id}
      BY DEF Ids, Good, Queued
    <2> QED BY Zenon, <1>6, <1>7, <2>1 DEF Good, Paid
  <1>11. Ids(M) = Ids(L)
    BY <1>6, <1>8 DEF Ids
  <1>12. M # <<>>
    BY <1>1, <1>5
  <1> QED BY <1>5, <1>9, <1>10, <1>11, <1>12 DEF Good, M

\* A list stands as long as the balances of its orders do, and grows older.
LEMMA GoodFrame ==
    ASSUME NEW L, NEW last \in Nat, NEW later \in Nat, NEW l, NEW m,
           Good(L, last, l), last <= later,
           \A id \in Ids(L) : Left(m, id) = Left(l, id)
    PROVE  Good(L, later, m)
  <1>2. \A i \in DOMAIN L : L[i].sequence \in Nat /\ L[i].id \in Ids(L)
    BY GoodElement
  <1>3. Queued(L, later)
    BY <1>2 DEF Good, Queued
  <1>4. Paid(L, m)
    BY <1>2 DEF Good, Paid
  <1> QED BY <1>3, <1>4 DEF Good
------------------------------------------------------------------------------
(* The inductive invariant *)

Loc(s, p) == [side |-> s, price |-> p]

\* The number of the last command whose order may rest already.
Last == IF Idle THEN arrivals ELSE arrivals - 1

\* Each level: its list, the part of the index that leads to it, its existence.
Levels ==
    \A s \in Side, p \in Price :
       /\ Good(orders[s][p], Last, ledger)
       /\ Ids(orders[s][p]) = {id \in OrderId : where[id] = Loc(s, p)}
       /\ p \in prices[s] <=> orders[s][p] # <<>>

\* The order being matched rests nowhere and has its units still to trade.
Matching ==
    ~Idle => /\ incoming.id \in seen
             /\ arrivals > 0
             /\ where[incoming.id] = Nowhere
             /\ Left(ledger, incoming.id) = incoming.units
             /\ incoming.type = "limit" => incoming.price \in Price

\* An identifier that was never accepted rests nowhere.
Known == \A id \in OrderId : where[id] # Nowhere => id \in seen

\* An order that is gone has nothing left.
Settled == \A id \in OrderId :
              where[id] = Nowhere /\ incoming.id # id => Left(ledger, id) = 0

IInv == TypeOK /\ Levels /\ Matching /\ Known /\ Settled /\ Uncrossed

LEMMA LastType == IInv => Last \in Nat
  BY MaxCommandsAssumption DEF IInv, TypeOK, Matching, Last

LEMMA TotalType ==
    ASSUME IInv, NEW s \in Side, NEW p \in Price PROVE total[s][p] \in Int
  BY UnitModulusAssumption DEF IInv, TypeOK

\* Where an indexed order is.
LEMMA Indexed ==
    ASSUME IInv, NEW id \in OrderId, where[id] # Nowhere
    PROVE  LET side == where[id].side
               price == where[id].price
               L == orders[side][price]
           IN  /\ side \in Side /\ price \in Price /\ where[id] = Loc(side, price)
               /\ Good(L, Last, ledger)
               /\ Ids(L) = {x \in OrderId : where[x] = Loc(side, price)}
               /\ Position(id) \in DOMAIN L /\ L[Position(id)].id = id
               /\ Node(id) = L[Position(id)] /\ Node(id) \in RestingOrder
               /\ Node(id).units \in Nat \ {0}
               /\ Left(ledger, id) = Node(id).units
               /\ id \in seen
  <1> DEFINE side == where[id].side
             price == where[id].price
             L == orders[side][price]
             k == Position(id)
  <1>1. side \in Side /\ price \in Price /\ where[id] = Loc(side, price)
    BY DEF IInv, TypeOK, Location, Loc
  <1>2. /\ Good(L, Last, ledger)
        /\ Ids(L) = {x \in OrderId : where[x] = Loc(side, price)}
    <2> HIDE DEF side, price
    <2> QED BY <1>1 DEF IInv, Levels
  <1>3. \E i \in DOMAIN L : L[i].id = id
    <2> HIDE DEF L, side, price
    <2>1. id \in Ids(L)
      BY <1>1, <1>2
    <2> QED BY <2>1 DEF Ids
  <1>4. k \in DOMAIN L /\ L[k].id = id
    BY Zenon, <1>3 DEF Position
  <1>5. Node(id) = L[k]
    BY DEF Node
  <1> HIDE DEF L, k
  <1>6. /\ L[k] \in RestingOrder /\ L[k].units \in Nat \ {0}
        /\ Left(ledger, L[k].id) = L[k].units
    BY <1>2, <1>4, GoodElement
  <1>7. L[k].units \in Nat \ {0} /\ Left(ledger, id) = L[k].units
    BY <1>4, <1>6
  <1>8. id \in seen
    BY DEF IInv, Known
  <1> QED BY Zenon, <1>1, <1>2, <1>4, <1>5, <1>6, <1>7, <1>8 DEF L, k

\* One level changes, and with it only the index entries that lead to it and
\* the balances of orders that rest nowhere else.
LEMMA ChangeLevel ==
    ASSUME IInv, NEW side \in Side, NEW price \in Price, NEW list, NEW units \in Int,
           SetLevel(side, price, list, units),
           where' \in [OrderId -> Location],
           Last' \in Nat, Last <= Last',
           Good(list, Last', ledger'),
           Ids(list) = {id \in OrderId : where'[id] = Loc(side, price)},
           \A id \in OrderId : \/ where[id] \in {Nowhere, Loc(side, price)}
                                  /\ where'[id] \in {Nowhere, Loc(side, price)}
                               \/ /\ where'[id] = where[id]
                                  /\ Left(ledger', id) = Left(ledger, id)
    PROVE  /\ prices' \in [Side -> SUBSET Price]
           /\ orders' \in [Side -> [Price -> Seq(RestingOrder)]]
           /\ total' \in [Side -> [Price -> 0 .. UnitModulus - 1]]
           /\ Levels'
  <1>1. /\ prices \in [Side -> SUBSET Price]
        /\ orders \in [Side -> [Price -> Seq(RestingOrder)]]
        /\ total \in [Side -> [Price -> 0 .. UnitModulus - 1]]
    BY DEF IInv, TypeOK
  <1>2. list \in Seq(RestingOrder)
    BY DEF Good
  <1>3. prices' \in [Side -> SUBSET Price]
    BY <1>1 DEF SetLevel
  <1>4. orders' \in [Side -> [Price -> Seq(RestingOrder)]]
    BY <1>1, <1>2 DEF SetLevel
  <1>5. total' \in [Side -> [Price -> 0 .. UnitModulus - 1]]
    <2>1. units % UnitModulus \in 0 .. UnitModulus - 1 /\ 0 \in 0 .. UnitModulus - 1
      BY UnitModulusAssumption
    <2> QED BY <1>1, <2>1 DEF SetLevel
  <1>6. Levels'
    <2> SUFFICES ASSUME NEW s \in Side, NEW p \in Price
                 PROVE  /\ Good(orders'[s][p], Last', ledger')
                        /\ Ids(orders'[s][p]) = {id \in OrderId : where'[id] = Loc(s, p)}
                        /\ p \in prices'[s] <=> orders'[s][p] # <<>>
      BY DEF Levels
    <2>1. CASE s = side /\ p = price
      <3>1. orders'[s][p] = list
        BY <1>1, <2>1 DEF SetLevel
      <3>2. p \in prices'[s] <=> list # <<>>
        BY <1>1, <2>1 DEF SetLevel
      <3> QED BY <2>1, <3>1, <3>2
    <2>2. CASE ~(s = side /\ p = price)
      <3>1. orders'[s][p] = orders[s][p]
        BY <1>1, <2>2 DEF SetLevel
      <3>2. p \in prices'[s] <=> p \in prices[s]
        BY <1>1, <2>2 DEF SetLevel
      <3>3. /\ Good(orders[s][p], Last, ledger)
            /\ Ids(orders[s][p]) = {id \in OrderId : where[id] = Loc(s, p)}
            /\ p \in prices[s] <=> orders[s][p] # <<>>
        BY DEF IInv, Levels
      <3>4. Loc(s, p) # Loc(side, price) /\ Loc(s, p) # Nowhere
        BY <2>2 DEF Loc, Nowhere, Side
      <3>5. \A id \in OrderId : where'[id] = Loc(s, p) <=> where[id] = Loc(s, p)
        BY <3>4
      <3>6. \A id \in Ids(orders[s][p]) : Left(ledger', id) = Left(ledger, id)
        BY <3>3, <3>4
      <3>7. Good(orders[s][p], Last', ledger')
        BY <3>3, <3>6, LastType, GoodFrame
      <3> QED BY <3>1, <3>2, <3>3, <3>5, <3>7
    <2> QED BY <2>1, <2>2
  <1> QED BY <1>3, <1>4, <1>5, <1>6
------------------------------------------------------------------------------
(* The operations on levels preserve the invariant of the levels. *)

\* What is shown of the book after an operation.
LevelsKept == /\ prices' \in [Side -> SUBSET Price]
              /\ orders' \in [Side -> [Price -> Seq(RestingOrder)]]
              /\ total' \in [Side -> [Price -> 0 .. UnitModulus - 1]]
              /\ where' \in [OrderId -> Location]
              /\ count' \in Int
              /\ Levels'

\* An order leaves the list that the index names, and the index.
LEMMA RemoveStep ==
    ASSUME IInv, NEW id \in OrderId, where[id] # Nowhere, RemoveRestingOrder(id),
           Last' \in Nat, Last <= Last',
           \A x \in OrderId \ {id} : Left(ledger', x) = Left(ledger, x)
    PROVE  /\ LevelsKept
           /\ where' = [where EXCEPT ![id] = Nowhere]
           /\ \A s \in Side : prices'[s] \subseteq prices[s]
  <1> DEFINE side == where[id].side
             price == where[id].price
             L == orders[side][price]
             k == Position(id)
             list == Erase(L, k)
             units == total[side][price] - Node(id).units
  <1>1. /\ side \in Side /\ price \in Price /\ where[id] = Loc(side, price)
        /\ Good(L, Last, ledger)
        /\ Ids(L) = {x \in OrderId : where[x] = Loc(side, price)}
        /\ k \in DOMAIN L /\ L[k].id = id
        /\ Node(id).units \in Nat
    BY Zenon, Indexed
  <1>2. /\ where \in [OrderId -> Location] /\ count \in Int
        /\ prices \in [Side -> SUBSET Price]
        /\ total \in [Side -> [Price -> 0 .. UnitModulus - 1]]
    BY DEF IInv, TypeOK
  <1>3. /\ SetLevel(side, price, list, units)
        /\ where' = [where EXCEPT ![id] = Nowhere]
        /\ count' = count - 1
    BY DEF RemoveRestingOrder
  <1>4. units \in Int
    <2>1. total[side][price] \in Int
      BY <1>1, TotalType
    <2> HIDE DEF side, price
    <2> QED BY <1>1, <2>1
  <1> HIDE DEF k, L, side, price, units
  <1>5. Good(list, Last, ledger) /\ Ids(list) = Ids(L) \ {id}
    BY <1>1, LastType, GoodRemove
  <1> HIDE DEF list
  <1>6. Good(list, Last', ledger')
    BY <1>1, <1>5, LastType, GoodFrame
  <1>7. where' \in [OrderId -> Location] /\ count' \in Int
    BY <1>2, <1>3 DEF Location
  <1>8. Ids(list) = {x \in OrderId : where'[x] = Loc(side, price)}
    <2>1. Nowhere # Loc(side, price)
      BY <1>1 DEF Nowhere, Loc, Side
    <2> QED BY <1>1, <1>2, <1>3, <1>5, <2>1
  <1>9. \A x \in OrderId : \/ where[x] \in {Nowhere, Loc(side, price)}
                              /\ where'[x] \in {Nowhere, Loc(side, price)}
                           \/ /\ where'[x] = where[x]
                              /\ Left(ledger', x) = Left(ledger, x)
    BY <1>1, <1>2, <1>3
  <1>10. LevelsKept
    BY <1>1, <1>3, <1>4, <1>6, <1>7, <1>8, <1>9, ChangeLevel DEF LevelsKept
  <1>11. \A s \in Side : prices'[s] \subseteq prices[s]
    <2>1. price \in prices[side]
      <3>1. L # <<>> BY <1>1
      <3> QED BY <1>1, <3>1 DEF IInv, Levels, L
    <2> QED BY <1>1, <1>2, <1>3, <2>1 DEF SetLevel
  <1> QED BY <1>3, <1>10, <1>11

\* An order is reduced where it is.
LEMMA ReduceStep ==
    ASSUME IInv, NEW id \in OrderId, where[id] # Nowhere,
           NEW u \in Nat \ {0}, ReduceInPlace(id, u),
           Last' \in Nat, Last <= Last', Left(ledger', id) = u,
           \A x \in OrderId \ {id} : Left(ledger', x) = Left(ledger, x)
    PROVE  /\ LevelsKept
           /\ where' = where
           /\ \A s \in Side : prices'[s] \subseteq prices[s]
  <1> DEFINE side == where[id].side
             price == where[id].price
             L == orders[side][price]
             k == Position(id)
             list == Reduced(L, k, u)
             units == total[side][price] - (Node(id).units - u)
  <1>1. /\ side \in Side /\ price \in Price /\ where[id] = Loc(side, price)
        /\ Good(L, Last, ledger)
        /\ Ids(L) = {x \in OrderId : where[x] = Loc(side, price)}
        /\ k \in DOMAIN L /\ L[k].id = id
        /\ Node(id).units \in Nat
    BY Zenon, Indexed
  <1>2. /\ where \in [OrderId -> Location] /\ count \in Int
        /\ prices \in [Side -> SUBSET Price]
        /\ total \in [Side -> [Price -> 0 .. UnitModulus - 1]]
    BY DEF IInv, TypeOK
  <1>3. /\ SetLevel(side, price, list, units)
        /\ where' = where
        /\ count' = count
    BY Zenon DEF ReduceInPlace, Reduced
  <1>4. units \in Int
    <2>1. total[side][price] \in Int
      BY <1>1, TotalType
    <2> HIDE DEF side, price
    <2> QED BY <1>1, <2>1
  <1> HIDE DEF k, L, side, price, units
  <1>5. Good(list, Last, ledger') /\ Ids(list) = Ids(L) /\ list # <<>>
    <2>1. /\ Left(ledger', L[k].id) = u /\ Last \in Nat
          /\ \A x \in Ids(L) \ {L[k].id} : Left(ledger', x) = Left(ledger, x)
      BY <1>1, LastType
    <2> QED BY SMTT(30), <1>1, <2>1, GoodReduced
  <1> HIDE DEF list
  <1>6. Good(list, Last', ledger')
    BY <1>5, LastType, GoodFrame
  <1>7. \A x \in OrderId : \/ where[x] \in {Nowhere, Loc(side, price)}
                              /\ where'[x] \in {Nowhere, Loc(side, price)}
                           \/ /\ where'[x] = where[x]
                              /\ Left(ledger', x) = Left(ledger, x)
    BY <1>1, <1>3
  <1>8. LevelsKept
    BY Zenon, <1>1, <1>2, <1>3, <1>4, <1>5, <1>6, <1>7, ChangeLevel DEF LevelsKept
  <1>9. \A s \in Side : prices'[s] \subseteq prices[s]
    <2>1. price \in prices[side]
      <3>1. L # <<>> BY <1>1
      <3> QED BY <1>1, <3>1 DEF IInv, Levels, L
    <2> QED BY <1>1, <1>2, <1>3, <2>1 DEF SetLevel
  <1> QED BY <1>3, <1>8, <1>9
\* The remainder of the order being matched joins its level.
LEMMA InsertStep ==
    ASSUME IInv, ~Idle, incoming.type = "limit", incoming.units > 0,
           InsertRestingOrder(incoming), Idle',
           arrivals' = arrivals, ledger' = ledger
    PROVE  /\ LevelsKept
           /\ where' = [where EXCEPT ![incoming.id] =
                          [side |-> incoming.side, price |-> incoming.price]]
           /\ prices' = [prices EXCEPT ![incoming.side] = @ \cup {incoming.price}]
  <1> DEFINE id == incoming.id
             side == incoming.side
             price == incoming.price
             L == orders[side][price]
             e == [id |-> id, sequence |-> arrivals, units |-> incoming.units]
             list == Append(L, e)
             units == total[side][price] + incoming.units
  <1>1. /\ side \in Side /\ price \in Price /\ id \in OrderId
        /\ where[id] = Nowhere /\ incoming.units \in Nat
        /\ Left(ledger, id) = incoming.units
    BY DEF IInv, TypeOK, Incoming, Idle, Matching
  <1>2. /\ where \in [OrderId -> Location] /\ count \in Int
        /\ prices \in [Side -> SUBSET Price]
        /\ total \in [Side -> [Price -> 0 .. UnitModulus - 1]]
    BY DEF IInv, TypeOK
  <1>3. /\ SetLevel(side, price, list, units)
        /\ where' = [where EXCEPT ![id] = Loc(side, price)]
        /\ count' = count + 1
    BY DEF InsertRestingOrder, Loc
  <1>4. units \in Int
    BY <1>1, <1>2, UnitModulusAssumption
  <1>5. /\ Good(L, Last, ledger)
        /\ Ids(L) = {x \in OrderId : where[x] = Loc(side, price)}
    BY <1>1 DEF IInv, Levels
  <1>6. /\ Last \in Nat /\ arrivals \in Nat
        /\ Last < arrivals /\ Last' = arrivals
    BY LastType, MaxCommandsAssumption DEF IInv, TypeOK, Last
  <1>7. Nowhere # Loc(side, price)
    BY <1>1 DEF Nowhere, Loc, Side
  <1>8. /\ e \in RestingOrder /\ e.id = id
        /\ e.sequence = arrivals /\ e.units = incoming.units
    BY <1>1, <1>6 DEF RestingOrder
  <1> HIDE DEF id, side, price, L, e, units
  <1>9. e.id \notin Ids(L)
    BY <1>1, <1>5, <1>7, <1>8
  <1>10. /\ Good(list, arrivals, ledger)
         /\ Ids(list) = Ids(L) \cup {id}
         /\ list # <<>>
    <2>1. Left(ledger, e.id) = e.units /\ Last < e.sequence
      BY <1>1, <1>6, <1>8
    <2>2. /\ Good(list, e.sequence, ledger)
          /\ Ids(list) = Ids(L) \cup {e.id}
          /\ list # <<>>
      BY <1>5, <1>6, <1>8, <1>9, <2>1, GoodAppend
    <2> QED BY <1>8, <2>2
  <1> HIDE DEF list
  <1>11. Good(list, Last', ledger')
    BY <1>6, <1>10
  <1>12. where' \in [OrderId -> Location] /\ count' \in Int
    BY <1>1, <1>2, <1>3 DEF Location, Loc
  <1>13. Ids(list) = {x \in OrderId : where'[x] = Loc(side, price)}
    BY <1>1, <1>2, <1>3, <1>5, <1>10
  <1>14. \A x \in OrderId : \/ where[x] \in {Nowhere, Loc(side, price)}
                               /\ where'[x] \in {Nowhere, Loc(side, price)}
                            \/ /\ where'[x] = where[x]
                               /\ Left(ledger', x) = Left(ledger, x)
    BY <1>1, <1>2, <1>3
  <1>15. Last' \in Nat /\ Last <= Last'
    BY <1>6
  <1>16. LevelsKept
    BY <1>1, <1>3, <1>4, <1>11, <1>12, <1>13, <1>14, <1>15, ChangeLevel DEF LevelsKept
  <1>17. prices' = [prices EXCEPT ![side] = @ \cup {price}]
    BY <1>3, <1>10 DEF SetLevel
  <1> QED BY <1>3, <1>16, <1>17 DEF Loc, id, side, price

\* The ledger after a trade of orders a and b.
Traded(l, a, b, t) == [l EXCEPT ![a].executed = @ + t, ![b].executed = @ + t]

LEMMA TradeLedger ==
    ASSUME IInv, NEW a \in OrderId, NEW b \in OrderId, a # b, NEW t \in Int
    PROVE  /\ Traded(ledger, a, b, t)
                 \in [OrderId -> [submitted : Int, executed : Int, cancelled : Int]]
           /\ Left(Traded(ledger, a, b, t), a) = Left(ledger, a) - t
           /\ Left(Traded(ledger, a, b, t), b) = Left(ledger, b) - t
           /\ \A x \in OrderId \ {a, b} :
                 Left(Traded(ledger, a, b, t), x) = Left(ledger, x)
  <1> DEFINE m == Traded(ledger, a, b, t)
  <1>1. ledger \in [OrderId -> [submitted : Int, executed : Int, cancelled : Int]]
    BY DEF IInv, TypeOK
  <1>2. /\ m[a] = [ledger[a] EXCEPT !.executed = @ + t]
        /\ m[b] = [ledger[b] EXCEPT !.executed = @ + t]
        /\ \A x \in OrderId \ {a, b} : m[x] = ledger[x]
    BY <1>1 DEF Traded
  <1>3. m \in [OrderId -> [submitted : Int, executed : Int, cancelled : Int]]
    BY <1>1 DEF Traded
  <1> HIDE DEF m
  <1>4. /\ Left(m, a) = Left(ledger, a) - t
        /\ Left(m, b) = Left(ledger, b) - t
        /\ \A x \in OrderId \ {a, b} : Left(m, x) = Left(ledger, x)
    BY <1>1, <1>2, <1>3 DEF Left
  <1> QED BY <1>3, <1>4 DEF m

\* The ledger after another entry.
LEMMA BookLedger ==
    ASSUME IInv, NEW id \in OrderId, NEW u \in Int,
           NEW entry \in {"submitted", "cancelled"}, ledger' = Book(entry, id, u)
    PROVE  /\ ledger' \in [OrderId -> [submitted : Int, executed : Int, cancelled : Int]]
           /\ Left(ledger', id) = IF entry = "submitted" THEN Left(ledger, id) + u
                                  ELSE Left(ledger, id) - u
           /\ \A x \in OrderId \ {id} : Left(ledger', x) = Left(ledger, x)
  <1>1. ledger \in [OrderId -> [submitted : Int, executed : Int, cancelled : Int]]
    BY DEF IInv, TypeOK
  <1>2. CASE entry = "submitted"
    <2>1. ledger' = [ledger EXCEPT ![id].submitted = @ + u]
      BY Zenon, <1>2 DEF Book
    <2>2. /\ ledger'[id] = [ledger[id] EXCEPT !.submitted = @ + u]
          /\ \A x \in OrderId \ {id} : ledger'[x] = ledger[x]
      BY <1>1, <2>1
    <2> QED BY <1>1, <1>2, <2>1, <2>2 DEF Left
  <1>3. CASE entry = "cancelled"
    <2>1. ledger' = [ledger EXCEPT ![id].cancelled = @ + u]
      BY Zenon, <1>3 DEF Book
    <2>2. /\ ledger'[id] = [ledger[id] EXCEPT !.cancelled = @ + u]
          /\ \A x \in OrderId \ {id} : ledger'[x] = ledger[x]
      BY <1>1, <2>1
    <2> QED BY <1>1, <1>3, <2>1, <2>2 DEF Left
  <1> QED BY <1>2, <1>3
\* The order being matched.
LEMMA IncomingFacts ==
    ASSUME IInv, ~Idle
    PROVE  /\ incoming \in [id : OrderId, side : Side, type : OrderType,
                            price : Price \cup {NoPrice}, units : Nat]
           /\ incoming.id \in OrderId /\ incoming.side \in Side
           /\ incoming.units \in Nat
           /\ Contra(incoming.side) \in Side /\ Contra(incoming.side) # incoming.side
           /\ where[incoming.id] = Nowhere
  BY DEF IInv, TypeOK, Incoming, Idle, Matching, Contra, Side

\* The front of a level it may trade with, and what they trade.
LEMMA FrontFacts ==
    ASSUME IInv, ~Idle, incoming.units > 0, NEW p \in prices[Contra(incoming.side)]
    PROVE  LET side == Contra(incoming.side)
               list == orders[side][p]
               front == Head(list)
               traded == Smaller(incoming.units, front.units)
           IN  /\ side \in Side /\ p \in Price
               /\ Good(list, Last, ledger) /\ list # <<>>
               /\ Ids(list) = {x \in OrderId : where[x] = Loc(side, p)}
               /\ Tail(list) = Erase(list, 1) /\ 1 \in DOMAIN list /\ front = list[1]
               /\ front \in RestingOrder /\ front.id \in OrderId
               /\ where[front.id] = Loc(side, p) /\ front.id # incoming.id
               /\ Left(ledger, front.id) = front.units
               /\ Left(ledger, incoming.id) = incoming.units
               /\ front.units \in Nat \ {0} /\ traded \in Nat \ {0}
               /\ traded <= front.units /\ traded <= incoming.units
  <1> DEFINE side == Contra(incoming.side)
             list == orders[side][p]
             front == Head(list)
             traded == Smaller(incoming.units, front.units)
  <1>1. side \in Side /\ p \in Price
    BY IncomingFacts DEF IInv, TypeOK
  <1>2. /\ Good(list, Last, ledger) /\ list # <<>>
        /\ Ids(list) = {x \in OrderId : where[x] = Loc(side, p)}
    BY <1>1 DEF IInv, Levels
  <1> HIDE DEF list
  <1>3. Tail(list) = Erase(list, 1) /\ 1 \in DOMAIN list /\ front = list[1]
    BY <1>2, TailIsErase DEF Good
  <1>4. /\ front \in RestingOrder /\ front.id \in OrderId /\ front.id \in Ids(list)
        /\ front.units \in Nat \ {0} /\ Left(ledger, front.id) = front.units
    BY <1>2, <1>3, GoodElement
  <1>5. where[front.id] = Loc(side, p) /\ Loc(side, p) # Nowhere
    BY <1>1, <1>2, <1>4 DEF Loc, Nowhere, Side
  <1>6. front.id # incoming.id
    BY <1>5, IncomingFacts
  <1>7. Left(ledger, incoming.id) = incoming.units
    BY DEF IInv, Matching
  <1>8. incoming.units \in Nat
    BY IncomingFacts
  <1>9. traded \in Nat \ {0} /\ traded <= front.units /\ traded <= incoming.units
    BY <1>4, <1>8 DEF Smaller
  <1> QED BY Zenon, <1>1, <1>2, <1>3, <1>4, <1>5, <1>6, <1>7, <1>9 DEF list

\* One turn of the loop, at the level p.
TradeAt(p) ==
    LET side == Contra(incoming.side)
        list == orders[side][p]
        front == Head(list)
        traded == Smaller(incoming.units, front.units)
        filled == front.units = traded
    IN  /\ Best(side, p) /\ Crosses(incoming, p)
        /\ executions' = Append(executions, Execution(front.id, incoming.id, p, traded))
        /\ incoming' = [incoming EXCEPT !.units = @ - traded]
        /\ SetLevel(side, p, AfterTrade(list, traded), total[side][p] - traded)
        /\ where' = IF filled THEN [where EXCEPT ![front.id] = Nowhere] ELSE where
        /\ count' = IF filled THEN count - 1 ELSE count
        /\ ledger' = [ledger EXCEPT ![front.id].executed = @ + traded,
                                    ![incoming.id].executed = @ + traded]

LEMMA MatchStep ==
    ASSUME IInv, ~Idle, incoming.units > 0, NEW p \in prices[Contra(incoming.side)],
           TradeAt(p), arrivals' = arrivals
    PROVE  /\ LevelsKept
           /\ \A s \in Side : prices'[s] \subseteq prices[s]
           /\ ~Idle'
  <1> DEFINE side == Contra(incoming.side)
             list == orders[side][p]
             front == Head(list)
             traded == Smaller(incoming.units, front.units)
             after == AfterTrade(list, traded)
             units == total[side][p] - traded
  <1>1. /\ side \in Side /\ p \in Price
        /\ Good(list, Last, ledger) /\ list # <<>>
        /\ Ids(list) = {x \in OrderId : where[x] = Loc(side, p)}
        /\ Tail(list) = Erase(list, 1) /\ 1 \in DOMAIN list /\ front = list[1]
        /\ front \in RestingOrder /\ front.id \in OrderId
        /\ where[front.id] = Loc(side, p) /\ front.id # incoming.id
        /\ Left(ledger, front.id) = front.units
        /\ front.units \in Nat \ {0} /\ traded \in Nat \ {0}
        /\ traded <= front.units
    BY Zenon, FrontFacts
  <1>2. /\ where \in [OrderId -> Location] /\ count \in Int
        /\ prices \in [Side -> SUBSET Price]
        /\ total \in [Side -> [Price -> 0 .. UnitModulus - 1]]
    BY DEF IInv, TypeOK
  <1>3. /\ SetLevel(side, p, after, units)
        /\ where' = IF front.units = traded THEN [where EXCEPT ![front.id] = Nowhere] ELSE where
        /\ count' = IF front.units = traded THEN count - 1 ELSE count
        /\ ledger' = Traded(ledger, front.id, incoming.id, traded)
        /\ incoming' = [incoming EXCEPT !.units = @ - traded]
    BY Zenon DEF TradeAt, Traded
  <1>4. units \in Int
    <2>1. total[side][p] \in Int
      BY Zenon, <1>1, TotalType
    <2> HIDE DEF side, front, traded, list
    <2> QED BY <1>1, <2>1
  <1>5. ~Idle' /\ Last' = Last /\ Last \in Nat
    <2>1. incoming'.id = incoming.id /\ incoming.id \in OrderId
      BY <1>3, IncomingFacts
    <2>2. ~Idle'
      BY <2>1, OrderIdAssumption DEF Idle, NoIncoming
    <2> QED BY <2>2, LastType DEF Last
  <1>6. incoming.id \in OrderId /\ where[incoming.id] = Nowhere
    BY IncomingFacts
  <1> HIDE DEF list, side, front, traded, units
  <1>7. /\ Left(ledger', front.id) = front.units - traded
        /\ \A x \in OrderId \ {front.id, incoming.id} : Left(ledger', x) = Left(ledger, x)
    <2> DEFINE f == front.id
               i == incoming.id
    <2>1. /\ f \in OrderId /\ i \in OrderId /\ f # i /\ traded \in Int
          /\ ledger' = Traded(ledger, f, i, traded) /\ Left(ledger, f) = front.units
      BY <1>1, <1>3, <1>6
    <2> HIDE DEF f, i
    <2>2. /\ Left(Traded(ledger, f, i, traded), f) = Left(ledger, f) - traded
          /\ \A x \in OrderId \ {f, i} : Left(Traded(ledger, f, i, traded), x) = Left(ledger, x)
      BY ZenonT(30), <2>1, TradeLedger
    <2>3. /\ Left(ledger', f) = front.units - traded
          /\ \A x \in OrderId \ {f, i} : Left(ledger', x) = Left(ledger, x)
      BY <2>1, <2>2
    <2> QED BY <2>3 DEF f, i
  <1>8. Loc(side, p) # Nowhere
    BY <1>1 DEF Loc, Nowhere, Side
  <1>9. \A x \in Ids(list) \ {front.id} : Left(ledger', x) = Left(ledger, x)
    BY <1>1, <1>6, <1>7, <1>8
  <1>10. /\ Good(after, Last, ledger')
         /\ Ids(after) = {x \in OrderId : where'[x] = Loc(side, p)}
    <2>1. CASE front.units = traded
      <3>1. after = Erase(list, 1)
        BY <1>1, <2>1 DEF AfterTrade, front
      <3>2. Good(after, Last, ledger) /\ Ids(after) = Ids(list) \ {front.id}
        BY <1>1, <1>5, <3>1, GoodRemove
      <3> HIDE DEF after
      <3>3. Good(after, Last, ledger')
        BY <1>5, <1>9, <3>2, GoodFrame
      <3>4. Ids(after) = {x \in OrderId : where'[x] = Loc(side, p)}
        BY <1>1, <1>2, <1>3, <1>8, <2>1, <3>2
      <3> QED BY <3>3, <3>4
    <2>2. CASE front.units # traded
      <3> DEFINE rest == front.units - traded
      <3>1. rest \in Nat \ {0}
        BY <1>1, <2>2
      <3>2. after = Reduced(list, 1, rest)
        BY <1>1, <2>2 DEF AfterTrade, front, Reduced
      <3>3. Left(ledger', list[1].id) = rest
        BY <1>1, <1>7
      <3> HIDE DEF rest, after
      <3>4. \A x \in Ids(list) \ {list[1].id} : Left(ledger', x) = Left(ledger, x)
        BY <1>1, <1>9
      <3>5. Good(after, Last, ledger') /\ Ids(after) = Ids(list)
        <4>1. /\ Good(list, Last, ledger) /\ 1 \in DOMAIN list
              /\ rest \in Nat \ {0} /\ Last \in Nat
          BY <1>1, <1>5, <3>1
        <4>2. /\ Good(Reduced(list, 1, rest), Last, ledger')
              /\ Ids(Reduced(list, 1, rest)) = Ids(list)
              /\ Reduced(list, 1, rest) # <<>>
          BY <3>3, <3>4, <4>1, GoodReduced
        <4> QED BY <3>2, <4>2
      <3> QED BY <1>1, <1>3, <2>2, <3>5
    <2> QED BY <2>1, <2>2
  <1> HIDE DEF after
  <1>11. where' \in [OrderId -> Location] /\ count' \in Int
    <2>1. [where EXCEPT ![front.id] = Nowhere] \in [OrderId -> Location]
      BY Zenon, <1>2 DEF Location
    <2> QED BY <1>2, <1>3, <2>1
  <1>12. \A x \in OrderId : \/ where[x] \in {Nowhere, Loc(side, p)}
                               /\ where'[x] \in {Nowhere, Loc(side, p)}
                            \/ /\ where'[x] = where[x]
                               /\ Left(ledger', x) = Left(ledger, x)
    BY Zenon, <1>1, <1>2, <1>3, <1>6, <1>7, <1>8
  <1>a. Last' \in Nat /\ Last <= Last' /\ Good(after, Last', ledger')
    BY <1>5, <1>10
  <1>13. LevelsKept
    BY <1>1, <1>3, <1>4, <1>a, <1>10, <1>11, <1>12, ChangeLevel DEF LevelsKept
  <1>14. \A s \in Side : prices'[s] \subseteq prices[s]
    BY <1>1, <1>2, <1>3 DEF SetLevel, side
  <1> QED BY <1>5, <1>13, <1>14
==============================================================================
