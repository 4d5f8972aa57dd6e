----------------------------- MODULE BoundedFifo -----------------------------
(***************************************************************************)
(* What the bounded single-producer single-consumer queue promises to the  *)
(* threads on its two ends: a sequence of items, appended at one end and    *)
(* taken from the other, that holds no more than Capacity items.  The      *)
(* producer may not yet know of the last slots the consumer has freed, so a *)
(* queue with room may look full to it.                                     *)
(***************************************************************************)
EXTENDS Naturals, Sequences

CONSTANTS Capacity,   \* number of slots
          Item        \* what the queue carries

VARIABLES items,      \* the queue's content, oldest first
          unseen,     \* slots freed that the producer does not know of
          out         \* the item the last successful pop handed over

vars == <<items, unseen, out>>

Init == /\ items = <<>>
        /\ unseen = 0
        /\ out \in Item

Push(v) == /\ Len(items) + unseen < Capacity
           /\ items' = Append(items, v)
           /\ UNCHANGED <<unseen, out>>

Pop == /\ items # <<>>
       /\ out' = Head(items)
       /\ items' = Tail(items)
       /\ unseen' = unseen + 1

\* The producer learns of some of the freed slots.
Reload == /\ unseen' \in 0 .. unseen
          /\ UNCHANGED <<items, out>>

Next == (\E v \in Item : Push(v)) \/ Pop \/ Reload

Spec == Init /\ [][Next]_vars

------------------------------------------------------------------------------
\* A whole try_push as one step, for the components that use a queue.

Accept(v) == /\ \E u \in 0 .. unseen : Len(items) + u < Capacity /\ unseen' = u
             /\ items' = Append(items, v)
             /\ UNCHANGED out

Refuse == /\ \E u \in 0 .. unseen : Len(items) + u >= Capacity /\ unseen' = u
          /\ UNCHANGED <<items, out>>
==============================================================================
