--------------------------- MODULE SPSCQueueProofs ---------------------------
(***************************************************************************)
(* The ring of SPSCQueue, for every capacity, index width and item set:     *)
(* its slots are never raced for, it implements BoundedFifo, and what       *)
(* size() reports to the two ends is sound.                                 *)
(***************************************************************************)
EXTENDS SPSCQueue, TLAPS

------------------------------------------------------------------------------
(* Remainders *)

\* Quotient and remainder.
LEMMA DivMod ==
    ASSUME NEW m \in Nat, m > 0, NEW a \in Int
    PROVE  /\ a \div m \in Int
           /\ (a % m) \in 0 .. m - 1
           /\ a = m * (a \div m) + (a % m)
  OBVIOUS

\* A remainder is determined by any representation of this form.
LEMMA ModUnique ==
    ASSUME NEW m \in Nat, m > 0, NEW q \in Int, NEW r \in 0 .. m - 1
    PROVE  (m * q + r) % m = r
  OBVIOUS

\* Multiples of the modulus do not matter.
LEMMA ModShift ==
    ASSUME NEW m \in Nat, m > 0, NEW a \in Int, NEW q \in Int
    PROVE  (a + m * q) % m = a % m
  <1> DEFINE r == a % m
             k == a \div m
  <1>1. k \in Int /\ r \in 0 .. m - 1 /\ a = m * k + r
    BY DivMod
  <1>2. a + m * q = m * (k + q) + r
    BY <1>1
  <1>3. (m * (k + q) + r) % m = r
    BY <1>1, ModUnique
  <1> QED BY <1>2, <1>3

\* Two integers less than m apart have different remainders.
LEMMA ModDistinct ==
    ASSUME NEW m \in Nat, m > 0, NEW a \in Int, NEW b \in Int,
           0 < a - b, a - b < m
    PROVE  a % m # b % m
  <1> SUFFICES ASSUME a % m = b % m PROVE FALSE
    OBVIOUS
  <1> DEFINE ka == a \div m
             kb == b \div m
  <1>1. /\ ka \in Int /\ kb \in Int
        /\ a = m * ka + (a % m) /\ b = m * kb + (b % m)
        /\ (a % m) \in Int /\ (b % m) \in Int
    BY DivMod
  <1>2. a - b = m * (ka - kb)
    BY <1>1
  <1> HIDE DEF ka, kb
  <1>3. CASE ka - kb <= 0
    <2>1. m * (ka - kb) <= 0
      BY <1>1, <1>3
    <2> QED BY <2>1, <1>2
  <1>4. CASE ka - kb >= 1
    <2>1. m * (ka - kb) >= m
      BY <1>1, <1>4
    <2> QED BY <2>1, <1>2
  <1> QED BY <1>1, <1>3, <1>4

------------------------------------------------------------------------------
(* Indices *)

\* Unsigned subtraction, without the remainder.
LEMMA AheadValue ==
    ASSUME NEW w \in Index, NEW r \in Index
    PROVE  Ahead(w, r) = IF w >= r THEN w - r ELSE w - r + IndexModulus
  <1>1. IndexModulus \in Nat /\ IndexModulus > 0
    BY CapacityAssumption, ModulusAssumption
  <1>2. CASE w >= r
    <2>1. w - r \in 0 .. IndexModulus - 1
      BY <1>1, <1>2 DEF Index
    <2>2. (IndexModulus * 0 + (w - r)) % IndexModulus = w - r
      BY <1>1, <2>1, ModUnique
    <2> QED BY <1>1, <1>2, <2>1, <2>2 DEF Ahead
  <1>3. CASE w < r
    <2> DEFINE d == w - r + IndexModulus
    <2>1. d \in 0 .. IndexModulus - 1
      BY <1>1, <1>3 DEF Index
    <2>2. (IndexModulus * (-1) + d) % IndexModulus = d
      BY <1>1, <2>1, ModUnique
    <2>3. IndexModulus * (-1) + d = w - r
      BY <1>1 DEF Index
    <2> QED BY <1>1, <1>3, <2>2, <2>3 DEF Ahead, Index
  <1> QED BY <1>1, <1>2, <1>3 DEF Index

\* Incrementing an index, without the remainder.
LEMMA NextIndex ==
    ASSUME NEW i \in Index
    PROVE  /\ (i + 1) % IndexModulus = IF i + 1 = IndexModulus THEN 0 ELSE i + 1
           /\ (i + 1) % IndexModulus \in Index
  <1>1. IndexModulus \in Nat /\ IndexModulus > 0
    BY CapacityAssumption, ModulusAssumption
  <1>2. CASE i + 1 = IndexModulus
    <2>1. (IndexModulus * 1 + 0) % IndexModulus = 0
      BY <1>1, ModUnique
    <2> QED BY <1>1, <1>2, <2>1 DEF Index
  <1>3. CASE i + 1 # IndexModulus
    <2>1. i + 1 \in 0 .. IndexModulus - 1
      BY <1>1, <1>3 DEF Index
    <2>2. (IndexModulus * 0 + (i + 1)) % IndexModulus = i + 1
      BY <1>1, <2>1, ModUnique
    <2> QED BY <1>1, <1>3, <2>1, <2>2 DEF Index
  <1> QED BY <1>2, <1>3

\* Incrementing the leading index widens the distance by one.
LEMMA AheadStep ==
    ASSUME NEW i \in Index, NEW r \in Index, Ahead(i, r) < IndexModulus - 1
    PROVE  Ahead((i + 1) % IndexModulus, r) = Ahead(i, r) + 1
  <1>1. IndexModulus \in Nat
    BY ModulusAssumption
  <1> DEFINE j == (i + 1) % IndexModulus
  <1>2. j \in Index /\ j = IF i + 1 = IndexModulus THEN 0 ELSE i + 1
    BY NextIndex
  <1> HIDE DEF j
  <1>3. Ahead(j, r) = Ahead(i, r) + 1
    BY <1>1, <1>2, AheadValue DEF Index
  <1> QED BY <1>3 DEF j

\* Distances from one index are natural numbers and tell indices apart.
LEMMA AheadOrder ==
    ASSUME NEW a \in Index, NEW b \in Index, NEW r \in Index
    PROVE  /\ Ahead(a, r) \in Nat
           /\ Ahead(a, r) = Ahead(b, r) => a = b
  <1>1. IndexModulus \in Nat
    BY ModulusAssumption
  <1> QED BY <1>1, AheadValue DEF Index

\* An index between c and w, seen from c, is between them seen from any r that
\* c and w are ahead of in this order.
LEMMA AheadBetween ==
    ASSUME NEW r \in Index, NEW c \in Index, NEW v \in Index, NEW w \in Index,
           Ahead(c, r) <= Ahead(w, r), Ahead(v, c) <= Ahead(w, c)
    PROVE  Ahead(c, r) <= Ahead(v, r) /\ Ahead(v, r) <= Ahead(w, r)
  <1>1. IndexModulus \in Nat
    BY ModulusAssumption
  <1>2. /\ Ahead(c, r) = IF c >= r THEN c - r ELSE c - r + IndexModulus
        /\ Ahead(w, r) = IF w >= r THEN w - r ELSE w - r + IndexModulus
        /\ Ahead(v, r) = IF v >= r THEN v - r ELSE v - r + IndexModulus
        /\ Ahead(v, c) = IF v >= c THEN v - c ELSE v - c + IndexModulus
        /\ Ahead(w, c) = IF w >= c THEN w - c ELSE w - c + IndexModulus
    BY AheadValue
  <1> QED BY <1>1, <1>2 DEF Index

\* The index width is a multiple of the capacity, so a wrap moves no slot.
LEMMA SlotWrap ==
    ASSUME NEW i \in Int
    PROVE  Slot(i + IndexModulus) = Slot(i)
  <1>1. Capacity \in Nat /\ Capacity > 0 /\ IndexModulus \in Nat
    BY CapacityAssumption, ModulusAssumption
  <1> DEFINE k == IndexModulus \div Capacity
  <1>2. k \in Int /\ IndexModulus = Capacity * k + (IndexModulus % Capacity)
    BY <1>1, DivMod
  <1>3. IndexModulus = Capacity * k
    BY <1>1, <1>2, ModulusAssumption
  <1>4. (i + Capacity * k) % Capacity = i % Capacity
    BY Zenon, <1>1, <1>2, ModShift
  <1> QED BY <1>3, <1>4 DEF Slot

LEMMA SlotDistinct ==
    ASSUME NEW a \in Int, NEW b \in Int, 0 < a - b, a - b < Capacity
    PROVE  Slot(a) # Slot(b)
  <1>1. Capacity \in Nat /\ Capacity > 0
    BY CapacityAssumption
  <1>2. a % Capacity # b % Capacity
    BY Zenon, <1>1, ModDistinct
  <1> QED BY <1>2 DEF Slot

LEMMA SlotIn ==
    ASSUME NEW i \in Int
    PROVE  Slot(i) \in 0 .. Capacity - 1
  BY DivMod, CapacityAssumption DEF Slot

\* The slot of w, reached from r by walking the distance between them.
LEMMA SlotAhead ==
    ASSUME NEW w \in Index, NEW r \in Index
    PROVE  Slot(w) = Slot(r + Ahead(w, r))
  <1>1. IndexModulus \in Nat
    BY ModulusAssumption
  <1>2. CASE w >= r
    BY <1>1, <1>2, AheadValue DEF Index
  <1>3. CASE w < r
    <2>1. r + Ahead(w, r) = w + IndexModulus
      BY <1>1, <1>3, AheadValue DEF Index
    <2> QED BY <1>1, <2>1, SlotWrap DEF Index
  <1> QED BY <1>1, <1>2, <1>3 DEF Index

------------------------------------------------------------------------------
(* The inductive invariant *)

\* What has been written and not yet published is the argument of the call.
Written == producer = "publish" => buffer[Slot(write_index)] = item

IInv == TypeOK /\ CopiesConservative /\ Written

LEMMA InitIInv == Init => IInv
  <1> SUFFICES ASSUME Init PROVE IInv
    OBVIOUS
  <1>1. 0 \in Index
    BY CapacityAssumption, ModulusAssumption DEF Index
  <1>2. Ahead(0, 0) = 0
    BY <1>1, AheadValue, CapacityAssumption, ModulusAssumption DEF Index
  <1> QED BY <1>1, <1>2, CapacityAssumption
          DEF Init, IInv, TypeOK, CopiesConservative, Written

LEMMA NextIInv == IInv /\ [Next]_vars => IInv'
  <1> SUFFICES ASSUME IInv, [Next]_vars PROVE IInv'
    OBVIOUS
  <1> USE DEF IInv
  <1>0. /\ IndexModulus \in Nat /\ Capacity \in Nat
        /\ Capacity >= 2 /\ IndexModulus >= 2 * Capacity
    BY CapacityAssumption, ModulusAssumption
  <1>a. /\ write_index \in Index /\ cached_read \in Index
        /\ read_index \in Index /\ cached_write \in Index
    BY DEF TypeOK
  <1>1. ASSUME NEW v \in Item, TryPush(v) PROVE IInv'
    <2>1. TypeOK' BY <1>1 DEF TryPush, TypeOK, consumerVars
    <2>2. CopiesConservative'
      BY <1>0, <1>a, <1>1, AheadValue
      DEF TryPush, CopiesConservative, consumerVars, Index
    <2> QED BY <1>1, <2>1, <2>2 DEF TryPush, Written
  <1>2. ASSUME ReloadRead PROVE IInv'
    <2>1. PICK r \in Visible(cached_read, read_index) :
             /\ cached_read' = r
             /\ producer' = IF Ahead(write_index, r) >= Capacity
                            THEN "idle" ELSE "write"
      BY <1>2 DEF ReloadRead
    <2>2. r \in Index /\ Ahead(r, cached_read) <= Ahead(read_index, cached_read)
      BY <2>1 DEF Visible
    <2>3. TypeOK' BY <1>2, <2>1, <2>2 DEF ReloadRead, TypeOK, consumerVars
    <2>4. CopiesConservative'
      BY <1>0, <1>a, <1>2, <2>1, <2>2, AheadValue
      DEF ReloadRead, CopiesConservative, consumerVars, Index
    <2> QED BY <1>2, <2>1, <2>3, <2>4 DEF ReloadRead, Written
  <1>3. ASSUME WriteSlot PROVE IInv'
    <2>1. Slot(write_index) \in 0 .. Capacity - 1
      BY <1>a, <1>0, SlotIn DEF Index
    <2>2. TypeOK' BY <1>3, <2>1 DEF WriteSlot, TypeOK, consumerVars
    <2>3. CopiesConservative'
      BY <1>3 DEF WriteSlot, CopiesConservative, consumerVars
    <2>4. Written' BY <1>3, <2>1 DEF WriteSlot, Written, TypeOK
    <2> QED BY <2>2, <2>3, <2>4
  <1>4. ASSUME Publish PROVE IInv'
    <2>1. /\ write_index' \in Index
          /\ write_index' = IF write_index + 1 = IndexModulus THEN 0 ELSE write_index + 1
      BY <1>a, <1>4, NextIndex DEF Publish
    <2>2. TypeOK' BY <1>4, <2>1 DEF Publish, TypeOK, consumerVars
    <2>3. CopiesConservative'
      <3>1. Ahead(write_index, cached_read) < Capacity
        BY <1>4 DEF Publish, CopiesConservative
      <3>2. Ahead(write_index', cached_read) = Ahead(write_index, cached_read) + 1
        BY <1>0, <1>a, <1>4, <3>1, AheadStep, AheadOrder DEF Publish
      <3> QED BY <1>0, <1>a, <1>4, <3>1, <3>2, AheadOrder
              DEF Publish, CopiesConservative, consumerVars
    <2> QED BY <1>4, <2>2, <2>3 DEF Publish, Written
  <1>5. ASSUME TryPop PROVE IInv'
    <2>1. TypeOK' BY <1>5 DEF TryPop, TypeOK, producerVars
    <2>2. CopiesConservative'
      BY <1>5 DEF TryPop, CopiesConservative, producerVars
    <2> QED BY <1>5, <2>1, <2>2 DEF TryPop, Written, producerVars
  <1>6. ASSUME ReloadWrite PROVE IInv'
    <2>1. PICK w \in Visible(cached_write, write_index) :
             /\ cached_write' = w
             /\ consumer' = IF read_index = w THEN "idle" ELSE "read"
      BY <1>6 DEF ReloadWrite
    <2>2. w \in Index /\ Ahead(w, cached_write) <= Ahead(write_index, cached_write)
      BY <2>1 DEF Visible
    <2>3. TypeOK' BY <1>6, <2>1, <2>2 DEF ReloadWrite, TypeOK, producerVars
    <2>4. CopiesConservative'
      <3>1. /\ Ahead(cached_write, cached_read) <= Ahead(w, cached_read)
            /\ Ahead(w, cached_read) <= Ahead(write_index, cached_read)
        BY <1>a, <2>2, AheadBetween DEF CopiesConservative
      <3> QED BY <1>a, <1>6, <2>1, <2>2, <3>1, AheadOrder
              DEF ReloadWrite, CopiesConservative, producerVars
    <2> QED BY <1>6, <2>3, <2>4 DEF ReloadWrite, Written, producerVars
  <1>7. ASSUME ReadSlot PROVE IInv'
    <2>1. Slot(read_index) \in 0 .. Capacity - 1
      BY <1>a, <1>0, SlotIn DEF Index
    <2>2. TypeOK' BY <1>7, <2>1 DEF ReadSlot, TypeOK, producerVars
    <2>3. CopiesConservative'
      BY <1>7 DEF ReadSlot, CopiesConservative, producerVars
    <2> QED BY <1>7, <2>2, <2>3 DEF ReadSlot, Written, producerVars
  <1>8. ASSUME Release PROVE IInv'
    <2>1. /\ read_index' \in Index
          /\ read_index' = IF read_index + 1 = IndexModulus THEN 0 ELSE read_index + 1
      BY <1>a, <1>8, NextIndex DEF Release
    <2>2. TypeOK' BY <1>8, <2>1 DEF Release, TypeOK, producerVars
    <2>3. CopiesConservative'
      <3>1. Ahead(read_index, cached_read) < Ahead(cached_write, cached_read)
        BY <1>a, <1>8, AheadOrder DEF Release, CopiesConservative
      <3>2. Ahead(read_index', cached_read) = Ahead(read_index, cached_read) + 1
        BY <1>0, <1>a, <1>8, <3>1, AheadStep, AheadOrder
        DEF Release, CopiesConservative
      <3> QED BY <1>0, <1>a, <1>8, <3>1, <3>2, AheadOrder
              DEF Release, CopiesConservative, producerVars
    <2> QED BY <1>8, <2>2, <2>3 DEF Release, Written, producerVars
  <1>9. CASE UNCHANGED vars
    BY <1>9 DEF vars, producerVars, consumerVars, TypeOK, CopiesConservative, Written
  <1> QED BY <1>1, <1>2, <1>3, <1>4, <1>5, <1>6, <1>7, <1>8, <1>9
          DEF Next, ProducerStep, ConsumerStep

\* Every behaviour of the ring keeps the inductive invariant.
THEOREM IInvHolds == Spec => []IInv
  BY InitIInv, NextIInv, PTL DEF Spec

\* The variables of the ring keep their types, the indices their width.
THEOREM TypeCorrect == Spec => []TypeOK
  <1>1. IInv => TypeOK BY DEF IInv
  <1> QED BY <1>1, IInvHolds, PTL

\* Cached indices are stale on the safe side only, whatever a reload returns.
THEOREM CopiesSafe == Spec => []CopiesConservative
  <1>1. IInv => CopiesConservative BY DEF IInv
  <1> QED BY <1>1, IInvHolds, PTL

------------------------------------------------------------------------------
(* Occupied *)

\* The distance between the two owned indices, and what a thread in the middle
\* of a call knows of it.
LEMMA Occupied ==
    ASSUME IInv
    PROVE  /\ Ahead(write_index, read_index) \in 0 .. Capacity
           /\ producer \in {"write", "publish"}
                => Ahead(write_index, read_index) < Capacity
           /\ consumer \in {"read", "release"}
                => Ahead(write_index, read_index) > 0
           /\ Ahead(write_index, read_index) + Ahead(read_index, cached_read)
                = Ahead(write_index, cached_read)
           /\ consumer \in {"read", "release"}
                => Ahead(read_index, cached_read) < Ahead(write_index, cached_read)
           /\ Ahead(read_index, cached_read) \in Nat
           /\ Ahead(write_index, cached_read) \in Nat
  <1>0. /\ IndexModulus \in Nat /\ Capacity \in Nat
        /\ Capacity >= 2 /\ IndexModulus >= 2 * Capacity
    BY CapacityAssumption, ModulusAssumption
  <1>a. /\ write_index \in Index /\ cached_read \in Index
        /\ read_index \in Index /\ cached_write \in Index
    BY DEF IInv, TypeOK
  <1>1. Ahead(write_index, read_index)
           = Ahead(write_index, cached_read) - Ahead(read_index, cached_read)
    <2>1. /\ Ahead(write_index, read_index)
                = IF write_index >= read_index THEN write_index - read_index
                  ELSE write_index - read_index + IndexModulus
          /\ Ahead(write_index, cached_read)
                = IF write_index >= cached_read THEN write_index - cached_read
                  ELSE write_index - cached_read + IndexModulus
          /\ Ahead(read_index, cached_read)
                = IF read_index >= cached_read THEN read_index - cached_read
                  ELSE read_index - cached_read + IndexModulus
      BY <1>a, AheadValue
    <2>2. Ahead(read_index, cached_read) <= Ahead(write_index, cached_read)
      BY <1>a, AheadOrder DEF IInv, CopiesConservative
    <2> QED BY <1>0, <1>a, <2>1, <2>2 DEF Index
  <1>2. consumer \in {"read", "release"} =>
           Ahead(read_index, cached_read) < Ahead(cached_write, cached_read)
    BY <1>a, AheadOrder DEF IInv, CopiesConservative
  <1>3. /\ Ahead(read_index, cached_read) \in Nat
        /\ Ahead(write_index, cached_read) \in Nat
        /\ Ahead(cached_write, cached_read) \in Nat
    BY <1>a, AheadOrder
  <1> QED BY <1>0, <1>1, <1>2, <1>3 DEF IInv, CopiesConservative

\* Whenever a fill and a take are both under way they are at different slots:
\* the relaxed loads of the own index and the cached copies never let the two
\* threads touch one slot together.
THEOREM NoRace == Spec => []NoSlotRace
  <1>1. IInv => NoSlotRace
    <2> SUFFICES ASSUME IInv, producer \in {"write", "publish"},
                        consumer \in {"read", "release"}
                 PROVE  Slot(write_index) # Slot(read_index)
      BY DEF NoSlotRace
    <2> DEFINE d == Ahead(write_index, read_index)
    <2>1. /\ write_index \in Index /\ read_index \in Index
          /\ Capacity \in Nat /\ IndexModulus \in Nat
      BY CapacityAssumption, ModulusAssumption DEF IInv, TypeOK
    <2>2. d \in Nat /\ 0 < d /\ d < Capacity
      BY <2>1, Occupied
    <2>3. Slot(write_index) = Slot(read_index + d)
      BY <2>1, SlotAhead
    <2> HIDE DEF d
    <2>4. Slot(read_index + d) # Slot(read_index)
      BY <2>1, <2>2, SlotDistinct DEF Index
    <2> QED BY <2>3, <2>4
  <1> QED BY <1>1, IInvHolds, PTL

------------------------------------------------------------------------------
(* The ring implements the bounded FIFO *)

LEMMA InitFifo == Init => Fifo!Init
  <1> SUFFICES ASSUME Init PROVE Fifo!Init
    OBVIOUS
  <1>1. Ahead(write_index, read_index) - Taken = 0
    <2>1. 0 \in Index
      BY CapacityAssumption, ModulusAssumption DEF Index
    <2> QED BY <2>1, AheadValue DEF Init, Taken
  <1>2. Contents = <<>>
    BY <1>1 DEF Contents
  <1>3. Unseen = 0
    <2>1. 0 \in Index
      BY CapacityAssumption, ModulusAssumption DEF Index
    <2> QED BY <2>1, AheadValue DEF Init, Taken, Unseen
  <1> QED BY <1>2, <1>3 DEF Init, Fifo!Init

\* A fill leaves every slot of the content alone.
LEMMA WriteSlotFifo ==
    ASSUME IInv, WriteSlot
    PROVE  UNCHANGED <<Contents, Unseen, out>>
  <1>0. /\ write_index \in Index /\ read_index \in Index
        /\ Capacity \in Nat /\ IndexModulus \in Nat
        /\ Taken \in {0, 1}
    BY CapacityAssumption, ModulusAssumption DEF IInv, TypeOK, Taken
  <1> DEFINE d == Ahead(write_index, read_index)
  <1>1. d \in Nat /\ d < Capacity
    BY <1>0, Occupied DEF WriteSlot
  <1>2. /\ write_index' = write_index /\ read_index' = read_index
        /\ Taken' = Taken /\ out' = out /\ Unseen' = Unseen
    BY DEF WriteSlot, consumerVars, Taken, Unseen
  <1>3. Slot(write_index) = Slot(read_index + d)
    BY <1>0, SlotAhead
  <1> HIDE DEF d
  <1>4. ASSUME NEW k \in 1 .. d - Taken
        PROVE  buffer'[Slot(read_index + Taken + k - 1)]
                  = buffer[Slot(read_index + Taken + k - 1)]
    <2> DEFINE j == read_index + Taken + k - 1
    <2>1. j \in Int /\ 0 < (read_index + d) - j /\ (read_index + d) - j < Capacity
      BY <1>0, <1>1 DEF Index
    <2>2. Slot(read_index + d) # Slot(j)
      BY <1>0, <1>1, <2>1, SlotDistinct DEF Index
    <2>3. Slot(j) \in 0 .. Capacity - 1
      BY <2>1, SlotIn
    <2> QED BY <1>3, <2>2, <2>3 DEF WriteSlot, IInv, TypeOK
  <1> QED BY <1>2, <1>4 DEF Contents, d

\* The store to write_index appends the item that was written.
LEMMA PublishFifo ==
    ASSUME IInv, Publish
    PROVE  Fifo!Push(item)
  <1>0. /\ write_index \in Index /\ read_index \in Index
        /\ Capacity \in Nat /\ Capacity >= 2
        /\ IndexModulus \in Nat /\ IndexModulus >= 2 * Capacity
        /\ Taken \in {0, 1}
    BY CapacityAssumption, ModulusAssumption DEF IInv, TypeOK, Taken
  <1> DEFINE d == Ahead(write_index, read_index)
  <1>1. d \in Nat /\ d < Capacity /\ d - Taken \in Nat
    BY <1>0, Occupied DEF Publish, Taken
  <1>2. /\ read_index' = read_index /\ buffer' = buffer
        /\ Taken' = Taken /\ out' = out /\ Unseen' = Unseen
    BY DEF Publish, consumerVars, Taken, Unseen
  <1>3. Ahead(write_index', read_index') = d + 1
    BY <1>0, <1>1, <1>2, AheadStep DEF Publish
  <1>4. buffer[Slot(read_index + d)] = item
    BY <1>0, SlotAhead DEF IInv, Written, Publish
  <1>5. /\ Contents = [k \in 1 .. d - Taken |-> buffer[Slot(read_index + Taken + k - 1)]]
        /\ Contents' = [k \in 1 .. (d + 1) - Taken |->
                           buffer[Slot(read_index + Taken + k - 1)]]
    BY <1>2, <1>3 DEF Contents
  <1>u. (d - Taken) + Unseen < Capacity
    BY <1>0, Occupied DEF Publish, IInv, CopiesConservative, Unseen
  <1> HIDE DEF d
  <1>6. Len(Contents) = d - Taken /\ Len(Contents) + Unseen < Capacity
    BY <1>0, <1>1, <1>5, <1>u
  <1>7. read_index + Taken + ((d + 1) - Taken) - 1 = read_index + d
    BY <1>0, <1>1 DEF Index
  <1>8. Contents' = Append(Contents, item)
    BY <1>0, <1>1, <1>4, <1>5, <1>6, <1>7
  <1> QED BY <1>2, <1>6, <1>8 DEF Fifo!Push

\* Reading the slot takes the oldest item.
LEMMA ReadSlotFifo ==
    ASSUME IInv, ReadSlot
    PROVE  Fifo!Pop
  <1>0. read_index \in Index /\ IndexModulus \in Nat
    BY ModulusAssumption DEF IInv, TypeOK
  <1> DEFINE d == Ahead(write_index, read_index)
  <1>1. d \in Nat /\ d > 0
    BY Occupied, CapacityAssumption DEF ReadSlot
  <1>2. /\ write_index' = write_index /\ read_index' = read_index
        /\ buffer' = buffer /\ Taken = 0 /\ Taken' = 1
    BY DEF ReadSlot, producerVars, Taken
  <1>u. Unseen' = Unseen + 1
    <2>1. cached_read \in Index
      BY DEF IInv, TypeOK
    <2>2. Ahead(read_index, cached_read) \in Int /\ cached_read' = cached_read
      BY <1>0, <2>1, AheadValue DEF Index, ReadSlot, producerVars
    <2> QED BY <1>2, <2>2 DEF Unseen
  <1>3. /\ Contents = [k \in 1 .. d |-> buffer[Slot(read_index + 0 + k - 1)]]
        /\ Contents' = [k \in 1 .. d - 1 |-> buffer[Slot(read_index + 1 + k - 1)]]
    BY <1>1, <1>2 DEF Contents
  <1> HIDE DEF d
  <1>4. Contents # <<>> /\ Len(Contents) = d
    BY <1>1, <1>3
  <1>5. Head(Contents) = buffer[Slot(read_index)]
    <2>1. read_index + 0 + 1 - 1 = read_index
      BY <1>0 DEF Index
    <2> QED BY <1>1, <1>3, <1>4, <2>1
  <1>6. Contents' = Tail(Contents)
    <2>1. Tail(Contents) = [k \in 1 .. d - 1 |-> Contents[k + 1]]
      BY <1>1, <1>3, <1>4
    <2>2. ASSUME NEW k \in 1 .. d - 1
          PROVE  Contents[k + 1] = buffer[Slot(read_index + 1 + k - 1)]
      <3>1. read_index + 0 + (k + 1) - 1 = read_index + 1 + k - 1
        BY <1>0 DEF Index
      <3> QED BY <1>1, <1>3, <3>1
    <2> QED BY Zenon, <1>3, <2>1, <2>2
  <1> QED BY <1>u, <1>4, <1>5, <1>6 DEF ReadSlot, Fifo!Pop

\* The store to read_index gives back a slot that is no longer in the content.
LEMMA ReleaseFifo ==
    ASSUME IInv, Release
    PROVE  UNCHANGED <<Contents, Unseen, out>>
  <1>0. /\ write_index \in Index /\ read_index \in Index
        /\ IndexModulus \in Nat /\ Capacity \in Nat
    BY ModulusAssumption, CapacityAssumption DEF IInv, TypeOK
  <1> DEFINE d == Ahead(write_index, read_index)
             next == (read_index + 1) % IndexModulus
  <1>1. d \in Nat /\ d > 0
    BY <1>0, Occupied DEF Release
  <1>2. /\ write_index' = write_index /\ read_index' = next
        /\ buffer' = buffer /\ out' = out /\ Taken = 1 /\ Taken' = 0
    BY DEF Release, producerVars, Taken
  <1>3. next \in Index /\ next = IF read_index + 1 = IndexModulus THEN 0 ELSE read_index + 1
    BY <1>0, NextIndex
  <1>u. Unseen' = Unseen
    <2>1. cached_read \in Index /\ cached_read' = cached_read
      BY DEF IInv, TypeOK, Release, producerVars
    <2>2. Ahead(read_index, cached_read) + 1 < IndexModulus
      BY <1>0, <2>1, Occupied, CapacityAssumption, ModulusAssumption
         DEF IInv, CopiesConservative, Release
    <2>3. Ahead(read_index, cached_read) \in Nat
      BY <1>0, <2>1, AheadOrder
    <2>4. Ahead(read_index, cached_read) < IndexModulus - 1
      BY <1>0, <2>2, <2>3
    <2>5. Ahead(next, cached_read) = Ahead(read_index, cached_read) + 1
      BY <1>0, <2>1, <2>4, AheadStep
    <2> QED BY <1>2, <2>1, <2>5, <2>3 DEF Unseen
  <1> HIDE DEF next
  <1>4. Ahead(write_index, next) = d - 1
    BY <1>0, <1>1, <1>3, AheadValue DEF Index
  <1> HIDE DEF d
  <1>5. /\ Contents = [k \in 1 .. d - 1 |-> buffer[Slot(read_index + 1 + k - 1)]]
        /\ Contents' = [k \in 1 .. d - 1 - 0 |-> buffer[Slot(next + 0 + k - 1)]]
    BY <1>2, <1>4 DEF Contents, d
  <1>6. ASSUME NEW k \in 1 .. d - 1
        PROVE  Slot(next + 0 + k - 1) = Slot(read_index + 1 + k - 1)
    <2>1. CASE read_index + 1 = IndexModulus
      <3>1. /\ next + 0 + k - 1 = k - 1
            /\ read_index + 1 + k - 1 = (k - 1) + IndexModulus
        BY <1>0, <1>3, <2>1 DEF Index
      <3> QED BY <3>1, SlotWrap
    <2>2. CASE read_index + 1 # IndexModulus
      <3>1. next + 0 + k - 1 = read_index + 1 + k - 1
        BY <1>0, <1>3, <2>2 DEF Index
      <3> QED BY <3>1
    <2> QED BY <2>1, <2>2
  <1>7. d - 1 - 0 = d - 1
    BY <1>1
  <1> QED BY <1>u, <1>2, <1>5, <1>6, <1>7

\* A reload brings freed slots into the producer's sight, never the reverse.
LEMMA ReloadReadFifo ==
    ASSUME IInv, ReloadRead
    PROVE  Fifo!Reload
  <1>0. /\ read_index \in Index /\ cached_read \in Index
        /\ IndexModulus \in Nat /\ Taken \in {0, 1}
    BY ModulusAssumption DEF IInv, TypeOK, Taken
  <1>1. /\ Contents' = Contents /\ out' = out
        /\ Taken' = Taken /\ read_index' = read_index
    BY DEF ReloadRead, consumerVars, Contents, Taken
  <1>2. PICK r \in Index : /\ Ahead(r, cached_read) <= Ahead(read_index, cached_read)
                           /\ cached_read' = r
    BY DEF ReloadRead, Visible
  <1>3. /\ Ahead(read_index, r) \in 0 .. Ahead(read_index, cached_read)
        /\ Ahead(read_index, cached_read) \in Nat
    BY <1>0, <1>2, AheadValue DEF Index
  <1> QED BY <1>0, <1>1, <1>2, <1>3 DEF Fifo!Reload, Unseen

\* Every step of the ring is a step of the bounded FIFO or leaves it alone.
LEMMA NextFifo == IInv /\ [Next]_vars => [Fifo!Next]_(Fifo!vars)
  <1> SUFFICES ASSUME IInv, [Next]_vars
               PROVE  Fifo!Next \/ UNCHANGED <<Contents, Unseen, out>>
    BY DEF Fifo!vars
  <1>1. ASSUME \/ \E v \in Item : TryPush(v)
               \/ TryPop \/ ReloadWrite \/ UNCHANGED vars
        PROVE  UNCHANGED <<Contents, Unseen, out>>
    BY <1>1 DEF TryPush, TryPop, ReloadWrite, vars, producerVars,
                consumerVars, Contents, Taken, Unseen
  <1>2. CASE Publish
    <2>1. item \in Item BY DEF IInv, TypeOK
    <2> QED BY <1>2, <2>1, PublishFifo DEF Fifo!Next
  <1>3. CASE ReadSlot
    BY <1>3, ReadSlotFifo DEF Fifo!Next
  <1>4. CASE ReloadRead
    BY <1>4, ReloadReadFifo DEF Fifo!Next
  <1> QED BY <1>1, <1>2, <1>3, <1>4, WriteSlotFifo, ReleaseFifo
          DEF Next, ProducerStep, ConsumerStep

\* The ring implements the bounded FIFO: with the store to write_index as the
\* moment of a push and the read of the slot as the moment of a pop, nothing is
\* lost, duplicated, reordered or overwritten.
THEOREM Implements == Spec => ImplementsFifo
  <1>1. Init => Fifo!Init
    BY InitFifo
  <1>2. IInv /\ [Next]_vars => [Fifo!Next]_(Fifo!vars)
    BY NextFifo
  <1> QED BY <1>1, <1>2, IInvHolds, PTL DEF Spec, ImplementsFifo, Fifo!Spec

------------------------------------------------------------------------------
(* size() *)

\* Away from the wrap the indices are ordered as numbers, and at most a lap apart.
LEMMA NoWrap ==
    ASSUME IInv, cached_read <= write_index
    PROVE  /\ cached_read <= read_index /\ read_index <= cached_write
           /\ cached_write <= write_index
           /\ write_index - cached_read <= Capacity
           /\ Occupancy = write_index - read_index
  <1>0. IndexModulus \in Nat /\ Capacity \in Nat
    BY CapacityAssumption, ModulusAssumption
  <1>a. /\ write_index \in Index /\ cached_read \in Index
        /\ read_index \in Index /\ cached_write \in Index
    BY DEF IInv, TypeOK
  <1>1. Ahead(write_index, cached_read) = write_index - cached_read
    BY <1>0, <1>a, AheadValue DEF Index
  <1>2. cached_write <= write_index /\ Ahead(cached_write, cached_read) = cached_write - cached_read
    BY <1>0, <1>a, <1>1, AheadValue DEF IInv, CopiesConservative, Index
  <1>3. cached_read <= read_index /\ read_index <= cached_write
    BY <1>0, <1>a, <1>2, AheadValue DEF IInv, CopiesConservative, Index
  <1>4. Ahead(write_index, read_index) = write_index - read_index
    BY <1>0, <1>a, <1>2, <1>3, AheadValue DEF Index
  <1> QED BY <1>1, <1>2, <1>3, <1>4 DEF IInv, CopiesConservative, Occupancy

\* There, a load returns a number between the copy and the index.
LEMMA VisibleBetween ==
    ASSUME NEW c \in Index, NEW i \in Index, c <= i, NEW v \in Visible(c, i)
    PROVE  v \in Index /\ c <= v /\ v <= i
  <1>1. IndexModulus \in Nat
    BY ModulusAssumption
  <1>2. v \in Index /\ Ahead(v, c) <= Ahead(i, c)
    BY DEF Visible
  <1> QED BY <1>1, <1>2, AheadValue DEF Index

\* The invariant of the ring bounds what size() returns to either end.
LEMMA SizeBetween == IInv => OccupancySound
  <1> SUFFICES ASSUME IInv, cached_read <= write_index
               PROVE  /\ \A size \in ProducerSizes : Occupancy <= size /\ size <= Capacity
                      /\ \A size \in ConsumerSizes : 0 <= size /\ size <= Occupancy
    BY DEF OccupancySound
  <1>0. IndexModulus \in Nat /\ Capacity \in Nat
    BY CapacityAssumption, ModulusAssumption
  <1>a. /\ write_index \in Index /\ cached_read \in Index
        /\ read_index \in Index /\ cached_write \in Index
    BY DEF IInv, TypeOK
  <1>b. /\ cached_read <= read_index /\ read_index <= cached_write
        /\ cached_write <= write_index
        /\ write_index - cached_read <= Capacity
        /\ Occupancy = write_index - read_index
    BY NoWrap
  <1>1. ASSUME NEW r \in Visible(cached_read, read_index)
        PROVE  /\ Occupancy <= SizeOf(write_index, r)
               /\ SizeOf(write_index, r) <= Capacity
    <2>1. r \in Index /\ cached_read <= r /\ r <= read_index
      BY <1>a, <1>b, VisibleBetween
    <2> QED BY <1>0, <1>a, <1>b, <2>1 DEF SizeOf, Index
  <1>2. ASSUME NEW w \in Visible(cached_write, write_index)
        PROVE  0 <= SizeOf(w, read_index) /\ SizeOf(w, read_index) <= Occupancy
    <2>1. w \in Index /\ cached_write <= w /\ w <= write_index
      BY <1>a, <1>b, VisibleBetween
    <2> QED BY <1>0, <1>a, <1>b, <2>1 DEF SizeOf, Index
  <1> QED BY <1>1, <1>2 DEF ProducerSizes, ConsumerSizes

\* The high-water marks can be trusted: what an end gets from size() is on its
\* safe side and never more than the slots, away from the wrap of the indices.
THEOREM SizeSound == Spec => []OccupancySound
  BY IInvHolds, SizeBetween, PTL
==============================================================================
