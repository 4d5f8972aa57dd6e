------------------------------ MODULE BookViews ------------------------------
(***************************************************************************)
(* What can be seen of the order book of order_book.cpp between commands:   *)
(* the best levels and the depth, the depth copied into buffers of a caller *)
(* that may hold an earlier depth, and the digest by which two books are    *)
(* compared after a replay.                                                 *)
(***************************************************************************)
EXTENDS OrderBook, SequencesExt

NoLevel == [price |-> NoPrice, units |-> 0, order_count |-> 0]

------------------------------------------------------------------------------
\* Depth

\* The map of a side in its order, from the best price on.
Levels(side) == SetToSortSeq(prices[side], LAMBDA p, q : Better(side, p, q))

\* Fault: the units of the first order stand for those of the level.
QuoteOfFront(side, p) == [price |-> p, units |-> orders[side][p][1].units,
                          order_count |-> Len(orders[side][p])]

\* LevelQuote
Quote(side, p) == [price |-> p, units |-> total[side][p],
                   order_count |-> Len(orders[side][p])]

LevelsTaken(side, max) == IF max < Len(Levels(side)) THEN max ELSE Len(Levels(side))

\* bid_depth and ask_depth
SideDepth(side, max) ==
    [i \in 1 .. LevelsTaken(side, max) |-> Quote(side, Levels(side)[i])]

\* top_bid and top_ask; their prices are best_bid and best_ask.
Top(side) == IF prices[side] = {} THEN NoLevel ELSE Quote(side, Levels(side)[1])

\* copy_depth() into the buffer of a side, which it resets first.
CopyDepth(side, buffer) ==
    [i \in DOMAIN buffer |->
        IF i <= Len(Levels(side)) THEN Quote(side, Levels(side)[i]) ELSE NoLevel]

------------------------------------------------------------------------------
\* The words that state_digest() hashes, one after the other

Code(side) == IF side = "buy" THEN 0 ELSE 1

\* Fault: the priority of the order is left out.
OrderWordsNoPriority(o) == <<o.id, o.units, o.units>>

OrderWords(o) == <<o.id, o.sequence, o.units>>

LevelHeader(side, p) == <<p, total[side][p], Len(orders[side][p])>>

LevelWords(side, p) ==
    LevelHeader(side, p)
    \o FlattenSeq([i \in DOMAIN orders[side][p] |-> OrderWords(orders[side][p][i])])

SideWords(side) ==
    <<Code(side), Cardinality(prices[side])>>
    \o FlattenSeq([i \in DOMAIN Levels(side) |-> LevelWords(side, Levels(side)[i])])

DigestWords == SideWords("buy") \o SideWords("sell") \o <<count>>

------------------------------------------------------------------------------
\* Properties

\* The resting orders of a side at p, and the prices better than p.
At(side, p) == {o \in FlatBook : o.side = side /\ o.price = p}
UnitsOf(os) == MapThenSumSet(LAMBDA o : o.units, os)
Occupied(side) == {o.price : o \in {r \in FlatBook : r.side = side}}
BetterThan(side, p) == {q \in Occupied(side) : Better(side, q, p)}

\* A quote at position i is the i-th best occupied price with the units and
\* the number of the orders that rest there.
TellsTheBook(side, i, quote) ==
    /\ quote.price \in Occupied(side)
    /\ Cardinality(BetterThan(side, quote.price)) = i - 1
    /\ quote.units = UnitsOf(At(side, quote.price))
    /\ quote.order_count = Cardinality(At(side, quote.price))

\* A buffer of that size with an earlier depth in it.
Used(size) == [i \in 1 .. size |-> [price |-> MaxPrice, units |-> 1, order_count |-> 1]]

\* The depth of any size shows the best prices in their order with the sums of
\* what rests there, however the levels came about; the top is its first level;
\* and a buffer that the depth is copied into keeps nothing of an earlier one.
DepthShowsBook ==
    Idle => \A s \in Side, max \in 0 .. Cardinality(Price) :
       LET view == SideDepth(s, max)
           copy == CopyDepth(s, Used(max))
       IN  /\ Len(view) = Smaller(max, Cardinality(Occupied(s)))
           /\ \A i \in DOMAIN view : TellsTheBook(s, i, view[i]) /\ copy[i] = view[i]
           /\ \A i \in DOMAIN copy \ DOMAIN view : copy[i] = NoLevel
           /\ view # <<>> => view[1] = Top(s)

\* What a reader makes of the words of a side that start at position at: the
\* orders of the levels that follow, and where they end.
RECURSIVE OrdersFrom(_, _, _, _, _)
OrdersFrom(words, at, n, side, price) ==
    IF n = 0 THEN {}
    ELSE {[id |-> words[at], sequence |-> words[at + 1], side |-> side,
           price |-> price, units |-> words[at + 2]]}
         \cup OrdersFrom(words, at + 3, n - 1, side, price)

RECURSIVE LevelsFrom(_, _, _, _)
LevelsFrom(words, at, n, side) ==
    IF n = 0 THEN [orders |-> {}, end |-> at]
    ELSE LET size == words[at + 2]
             rest == LevelsFrom(words, at + 3 + 3 * size, n - 1, side)
         IN  [orders |-> OrdersFrom(words, at + 3, size, side, words[at]) \cup rest.orders,
              end |-> rest.end]

BookFrom(words) ==
    LET bids == LevelsFrom(words, 3, words[2], "buy")
        asks == LevelsFrom(words, bids.end + 2, words[bids.end + 1], "sell")
    IN  bids.orders \cup asks.orders

\* The digested words determine the resting orders, priorities included: the
\* counts before each list tell where it ends.  Books that differ in what
\* rests are hashed from different words.
DigestDeterminesBook == Idle => BookFrom(DigestWords) = FlatBook
==============================================================================
