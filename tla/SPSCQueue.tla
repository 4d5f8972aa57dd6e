------------------------------ MODULE SPSCQueue ------------------------------
(***************************************************************************)
(* BoundedSPSCQueue of spsc_queue.hpp: a ring of Capacity slots between one *)
(* producer thread and one consumer thread.  Each thread owns one index and *)
(* a cached copy of the other thread's index, and reloads the copy only     *)
(* when it says "full" (producer) or "empty" (consumer).                    *)
(*                                                                         *)
(* A call is cut at its accesses to shared memory: the reload of the other *)
(* index, the access to the slot, the store to the own index.  Loads of the *)
(* own index and of the cached copy touch nothing the other thread writes   *)
(* and belong to the step that begins the call.                             *)
(*                                                                         *)
(* Indices are unsigned and wrap at IndexModulus (2^64 in the code).        *)
(***************************************************************************)
EXTENDS Integers, Sequences

CONSTANTS Capacity,       \* number of slots
          IndexModulus,   \* indices are 0..IndexModulus-1
          Item            \* what the queue carries

ASSUME CapacityAssumption == Capacity \in Nat /\ Capacity >= 2

\* The capacity is a power of two, so it divides 2^64, properly.
ASSUME ModulusAssumption ==
    /\ IndexModulus \in Nat /\ IndexModulus >= 2 * Capacity
    /\ IndexModulus % Capacity = 0

ASSUME ItemAssumption == Item # {}

VARIABLES buffer,         \* the slots
          write_index,    \* next slot to fill; written by the producer
          cached_read,    \* the producer's copy of read_index
          read_index,     \* next slot to take; written by the consumer
          cached_write,   \* the consumer's copy of write_index
          producer,       \* where the producer is in try_push
          item,           \* the argument of try_push
          consumer,       \* where the consumer is in try_pop
          out             \* the destination of try_pop

producerVars == <<write_index, cached_read, producer, item>>
consumerVars == <<read_index, cached_write, consumer, out>>
vars == <<buffer, producerVars, consumerVars>>

Index == 0 .. IndexModulus - 1

\* Fault: the mask leaves one slot out.
SlotWrongMask(i) == i % (Capacity - 1)

\* index & kMask: the capacity is a power of two.
Slot(i) == i % Capacity

\* Unsigned subtraction of indices: how far w is ahead of r.
Ahead(w, r) == (w - r) % IndexModulus

(***************************************************************************)
(* An acquire load of the other thread's index.  The loads of one thread    *)
(* from one atomic never go back, but a load need not return the latest     *)
(* store: any value between the cached one and the current one may appear.  *)
(***************************************************************************)
Visible(cached, current) ==
    {v \in Index : Ahead(v, cached) <= Ahead(current, cached)}

Init == /\ \E default \in Item : buffer = [i \in 0 .. Capacity - 1 |-> default]
        /\ write_index = 0 /\ cached_read = 0
        /\ read_index = 0 /\ cached_write = 0
        /\ producer = "idle" /\ consumer = "idle"
        /\ item \in Item /\ out \in Item

------------------------------------------------------------------------------
\* Operations of the producer thread

\* Fault: one item too many passes the check.
TryPushOffByOne(v) ==
    /\ producer = "idle"
    /\ item' = v
    /\ producer' = IF Ahead(write_index, cached_read) > Capacity
                   THEN "reload" ELSE "write"
    /\ UNCHANGED <<buffer, write_index, cached_read, consumerVars>>

\* try_push(v) is called; the cached copy of read_index decides where it goes.
TryPush(v) ==
    /\ producer = "idle"
    /\ item' = v
    /\ producer' = IF Ahead(write_index, cached_read) >= Capacity
                   THEN "reload" ELSE "write"
    /\ UNCHANGED <<buffer, write_index, cached_read, consumerVars>>

\* Fault: the reloaded index is not checked again.
ReloadReadUnchecked ==
    /\ producer = "reload"
    /\ \E r \in Visible(cached_read, read_index) : cached_read' = r
    /\ producer' = "write"
    /\ UNCHANGED <<buffer, write_index, item, consumerVars>>

\* The copy said "full": load read_index; return false if that says so too.
ReloadRead ==
    /\ producer = "reload"
    /\ \E r \in Visible(cached_read, read_index) :
          /\ cached_read' = r
          /\ producer' = IF Ahead(write_index, r) >= Capacity
                         THEN "idle" ELSE "write"
    /\ UNCHANGED <<buffer, write_index, item, consumerVars>>

WriteSlot ==
    /\ producer = "write"
    /\ buffer' = [buffer EXCEPT ![Slot(write_index)] = item]
    /\ producer' = "publish"
    /\ UNCHANGED <<write_index, cached_read, item, consumerVars>>

\* The release store, and the return of true.
Publish ==
    /\ producer = "publish"
    /\ write_index' = (write_index + 1) % IndexModulus
    /\ producer' = "idle"
    /\ UNCHANGED <<buffer, cached_read, item, consumerVars>>

------------------------------------------------------------------------------
\* Operations of the consumer thread

\* Fault: an empty-looking queue is reported empty without a reload.
TryPopNoReload ==
    /\ consumer = "idle"
    /\ consumer' = IF read_index = cached_write THEN "idle" ELSE "read"
    /\ UNCHANGED <<buffer, producerVars, read_index, cached_write, out>>

\* try_pop is called; the cached copy of write_index decides where it goes.
TryPop ==
    /\ consumer = "idle"
    /\ consumer' = IF read_index = cached_write THEN "reload" ELSE "read"
    /\ UNCHANGED <<buffer, producerVars, read_index, cached_write, out>>

\* The copy said "empty": load write_index; return false if that says so too.
ReloadWrite ==
    /\ consumer = "reload"
    /\ \E w \in Visible(cached_write, write_index) :
          /\ cached_write' = w
          /\ consumer' = IF read_index = w THEN "idle" ELSE "read"
    /\ UNCHANGED <<buffer, producerVars, read_index, out>>

ReadSlot ==
    /\ consumer = "read"
    /\ out' = buffer[Slot(read_index)]
    /\ consumer' = "release"
    /\ UNCHANGED <<buffer, producerVars, read_index, cached_write>>

\* The release store, and the return of true.
Release ==
    /\ consumer = "release"
    /\ read_index' = (read_index + 1) % IndexModulus
    /\ consumer' = "idle"
    /\ UNCHANGED <<buffer, producerVars, cached_write, out>>

------------------------------------------------------------------------------
\* size()

\* Fault: the two loads are subtracted the wrong way round.
SizeOfSwapped(w, r) == IF w >= r THEN (r - w) % IndexModulus ELSE 0

\* The value of size() for these two loads.
SizeOf(w, r) == IF w >= r THEN w - r ELSE 0

\* What size() may return to an end, which calls it between its own calls for the
\* high-water marks: it knows its own index and may see an old value of the other.
ProducerSizes == {SizeOf(write_index, r) : r \in Visible(cached_read, read_index)}
ConsumerSizes == {SizeOf(w, read_index) : w \in Visible(cached_write, write_index)}

\* The true size: published and not yet released.
Occupancy == Ahead(write_index, read_index)

------------------------------------------------------------------------------
ProducerStep == \/ \E v \in Item : TryPush(v)
                \/ ReloadRead \/ WriteSlot \/ Publish

ConsumerStep == TryPop \/ ReloadWrite \/ ReadSlot \/ Release

Next == ProducerStep \/ ConsumerStep

Spec == Init /\ [][Next]_vars

(***************************************************************************)
(* Fairness.  A call that has begun goes on (the code never blocks in it),  *)
(* the consumer's loop keeps calling try_pop, and a store becomes visible   *)
(* in finite time: reloading again and again ends up reading the latest     *)
(* value.  Nobody has to push.                                              *)
(***************************************************************************)
Fairness ==
    /\ WF_vars(ReloadRead \/ WriteSlot \/ Publish)
    /\ WF_vars(ConsumerStep)
    /\ SF_vars(ReloadWrite /\ cached_write' = write_index)

FairSpec == Spec /\ Fairness

------------------------------------------------------------------------------
\* Properties

TypeOK ==
    /\ buffer \in [0 .. Capacity - 1 -> Item]
    /\ {write_index, cached_read, read_index, cached_write} \subseteq Index
    /\ producer \in {"idle", "reload", "write", "publish"}
    /\ consumer \in {"idle", "reload", "read", "release"}
    /\ item \in Item /\ out \in Item

\* No data race on a slot: the producer, once it has decided to fill a slot
\* and until it publishes it, is never at the slot the consumer has decided to
\* take and has not yet released.
NoSlotRace ==
    (producer \in {"write", "publish"} /\ consumer \in {"read", "release"})
        => Slot(write_index) # Slot(read_index)

\* The copies are stale on the safe side only, in the order
\*   cached_read <= read_index <= cached_write <= write_index <= cached_read + Capacity
\* along the wrapping index line, and a decision taken on them still stands when
\* it is carried out: there is room while a slot is being filled and published,
\* and an item while a slot is being taken and released.
CopiesConservative ==
    /\ Ahead(write_index, cached_read) <= Capacity
    /\ Ahead(read_index, cached_read) <= Ahead(cached_write, cached_read)
    /\ Ahead(cached_write, cached_read) <= Ahead(write_index, cached_read)
    /\ producer \in {"write", "publish"} => Ahead(write_index, cached_read) < Capacity
    /\ consumer \in {"read", "release"} => read_index # cached_write

\* The occupancies behind the high-water marks can be trusted: the producer never
\* gets less than there is, the consumer never more, and neither more than the
\* queue can hold, however old the value of the other index is.  The indices are
\* those of a queue that does not straddle the wrap, after 2^64 pushes, where
\* size() compares them as numbers.
OccupancySound ==
    cached_read <= write_index =>
       /\ producer = "idle" =>
             \A size \in ProducerSizes : Occupancy <= size /\ size <= Capacity
       /\ consumer = "idle" =>
             \A size \in ConsumerSizes : 0 <= size /\ size <= Occupancy

\* The index the next try_pop starts from, once the slot in hand is taken.
Taken == IF consumer = "release" THEN 1 ELSE 0

\* The content of the queue: published and not yet taken.
Contents == [k \in 1 .. Ahead(write_index, read_index) - Taken |->
                buffer[Slot(read_index + Taken + k - 1)]]

\* The slots freed since the read index that the producer's copy shows.
Unseen == Ahead(read_index, cached_read) + Taken

\* The ring implements the bounded FIFO: a push takes effect at the store to
\* write_index and a pop when the slot is read.  Nothing is lost, duplicated,
\* reordered or overwritten, there are never more than Capacity items, and a
\* push is refused only as long as freed slots have not come into sight.
Fifo == INSTANCE BoundedFifo WITH items <- Contents, unseen <- Unseen
ImplementsFifo == Fifo!Spec

\* While the consumer polls, a queue with an item in it is served: the
\* consumer comes to hold an item.
Served == (Contents # <<>>) ~> (consumer = "release")
==============================================================================
