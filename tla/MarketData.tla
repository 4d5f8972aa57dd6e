------------------------------ MODULE MarketData ------------------------------
(***************************************************************************)
(* The market-data pipeline of market_data.cpp: MarketDataFeed on the       *)
(* engine thread, the bounded queue, and MarketDataPublisher with its       *)
(* MarketDataBook on the publisher thread.                                  *)
(*                                                                         *)
(* A depth image (the five best levels of each side) is an element of       *)
(* Depth: both kinds of event carry the whole image, so nothing depends on  *)
(* what is in it.                                                           *)
(***************************************************************************)
EXTENDS Integers, Sequences

CONSTANTS Depth,             \* depth images
          EmptyDepth,        \* the image of an empty book
          QueueCapacity,     \* slots of the MarketDataQueue (1024)
          SnapshotInterval,  \* snapshot_interval_ (64)
          MaxSequence,       \* the last feed sequence, never issued (2^64 - 1)
          MaxPublish         \* bound on the number of calls of publish()

ASSUME DepthAssumption == EmptyDepth \in Depth
ASSUME BoundsAssumption ==
    /\ QueueCapacity \in Nat \ {0} /\ SnapshotInterval \in Nat \ {0}
    /\ MaxSequence \in Nat \ {0} /\ MaxPublish \in Nat

VARIABLES next_sequence, snapshot_pending, updates_since_snapshot,
          published_events, dropped_events, max_queue_occupancy,
          queue, unseen,     \* the queue between the threads, see BoundedFifo
          event,             \* the event the publisher popped last
          depth,             \* bids_ and asks_ of the subscriber's book
          last_sequence,     \* 0: no event applied yet
          synchronized,
          applied,           \* history: events apply() has accepted
          images             \* history: the engine's depth at each sequence

feedVars == <<next_sequence, snapshot_pending, updates_since_snapshot,
              published_events, dropped_events, max_queue_occupancy, images>>
bookVars == <<depth, last_sequence, synchronized, applied>>
vars == <<feedVars, queue, unseen, event, bookVars>>

Sequence == 1 .. MaxSequence - 1
Event == [sequence : 0 .. MaxSequence - 1, kind : {"snapshot", "depth_update"},
          image : Depth]
NoEvent == [sequence |-> 0, kind |-> "snapshot", image |-> EmptyDepth]

Queue == INSTANCE BoundedFifo
            WITH Capacity <- QueueCapacity, Item <- Event, items <- queue, out <- event

Init == /\ next_sequence = 1 /\ snapshot_pending = TRUE
        /\ updates_since_snapshot = 0
        /\ published_events = 0 /\ dropped_events = 0 /\ max_queue_occupancy = 0
        /\ queue = <<>> /\ unseen = 0 /\ event = NoEvent
        /\ depth = EmptyDepth /\ last_sequence = 0 /\ synchronized = FALSE
        /\ applied = 0
        /\ images = [s \in Sequence |-> EmptyDepth]

------------------------------------------------------------------------------
\* The engine thread

\* Fault: the event is counted whether the queue took it or not.
RecordCountsRefused ==
    LET size == Len(queue) + 1
    IN  max_queue_occupancy' =
           IF size > max_queue_occupancy THEN size ELSE max_queue_occupancy

\* record_queue_occupancy(): size() may count slots whose release is not seen.
RecordQueueOccupancy ==
    \E u \in 0 .. unseen' :
       LET size == Len(queue') + u
       IN  max_queue_occupancy' =
              IF size > max_queue_occupancy THEN size ELSE max_queue_occupancy

\* No sequence is left: the event is dropped before it gets one.
Exhausted ==
    /\ next_sequence = MaxSequence
    /\ dropped_events' = dropped_events + 1
    /\ snapshot_pending' = TRUE
    /\ UNCHANGED <<next_sequence, updates_since_snapshot, published_events,
                   max_queue_occupancy, images, queue, unseen, event>>

\* Fault: a drop does not ask for a snapshot.
DropForgotten ==
    /\ Queue!Refuse
    /\ dropped_events' = dropped_events + 1
    /\ RecordQueueOccupancy
    /\ UNCHANGED <<snapshot_pending, updates_since_snapshot, published_events>>

\* The queue refuses the event: the sequence number is spent.
Drop ==
    /\ Queue!Refuse
    /\ dropped_events' = dropped_events + 1
    /\ snapshot_pending' = TRUE
    /\ RecordQueueOccupancy
    /\ UNCHANGED <<updates_since_snapshot, published_events>>

\* Fault: one update too many before the snapshot.
AfterQueueingLate(kind) ==
    IF kind = "snapshot"
    THEN /\ snapshot_pending' = FALSE
         /\ updates_since_snapshot' = 0
    ELSE /\ updates_since_snapshot' = updates_since_snapshot + 1
         /\ snapshot_pending' = (updates_since_snapshot' > SnapshotInterval)

\* When the next snapshot is due.
AfterQueueing(kind) ==
    IF kind = "snapshot"
    THEN /\ snapshot_pending' = FALSE
         /\ updates_since_snapshot' = 0
    ELSE /\ updates_since_snapshot' = updates_since_snapshot + 1
         /\ snapshot_pending' = (updates_since_snapshot' >= SnapshotInterval)

Enqueue(e) ==
    /\ Queue!Accept(e)
    /\ published_events' = published_events + 1
    /\ RecordQueueOccupancy
    /\ AfterQueueing(e.kind)
    /\ UNCHANGED dropped_events

\* publish(book) after a command that left the book with this image.
Publish(image) ==
    /\ published_events + dropped_events < MaxPublish
    /\ \/ Exhausted
       \/ /\ next_sequence # MaxSequence
          /\ next_sequence' = next_sequence + 1
          /\ images' = [images EXCEPT ![next_sequence] = image]
          /\ LET kind == IF snapshot_pending THEN "snapshot" ELSE "depth_update"
             IN  \/ Enqueue([sequence |-> next_sequence, kind |-> kind, image |-> image])
                 \/ Drop
    /\ UNCHANGED bookVars

------------------------------------------------------------------------------
\* The publisher thread

\* Fault: the arguments change places.
IsNextSequenceSwapped(previous, current) ==
    previous # MaxSequence /\ previous = current + 1

\* is_next_sequence: the successor of the largest sequence does not exist.
IsNextSequence(previous, current) ==
    previous # MaxSequence /\ current = previous + 1

\* The condition on which apply() takes the event into the subscriber's book.
Fits(e) == \/ e.kind = "snapshot"
           \/ synchronized /\ last_sequence # 0 /\ IsNextSequence(last_sequence, e.sequence)

\* Fault: an update is taken to carry nothing but its sequence.
ApplyKeepsDepth(e) ==
    \/ /\ Fits(e)
       /\ depth' = IF e.kind = "snapshot" THEN e.image ELSE depth
       /\ last_sequence' = e.sequence
       /\ synchronized' = TRUE
       /\ applied' = applied + 1
    \/ /\ ~Fits(e)
       /\ synchronized' = FALSE
       /\ UNCHANGED <<depth, last_sequence, applied>>

Apply(e) ==
    \/ /\ Fits(e)
       /\ depth' = e.image
       /\ last_sequence' = e.sequence
       /\ synchronized' = TRUE
       /\ applied' = applied + 1
    \/ /\ ~Fits(e)
       /\ synchronized' = FALSE
       /\ UNCHANGED <<depth, last_sequence, applied>>

\* publish_one(): events come from the queue, so each of them is valid().
PublishOne == /\ Queue!Pop
              /\ Apply(Head(queue))
              /\ UNCHANGED feedVars

\* The bounded run is over.
NoMoreCommands == /\ published_events + dropped_events = MaxPublish
                  /\ queue = <<>>
                  /\ UNCHANGED vars

Next == (\E image \in Depth : Publish(image)) \/ PublishOne \/ NoMoreCommands

Spec == Init /\ [][Next]_vars

\* The publisher thread keeps polling the queue; the engine owes nothing.
FairSpec == Spec /\ WF_vars(PublishOne)

------------------------------------------------------------------------------
\* Properties

TypeOK ==
    /\ next_sequence \in 1 .. MaxSequence
    /\ snapshot_pending \in BOOLEAN
    /\ updates_since_snapshot \in Nat
    /\ published_events \in Nat /\ dropped_events \in Nat
    /\ max_queue_occupancy \in 0 .. QueueCapacity
    /\ queue \in Seq(Event) /\ unseen \in Nat /\ event \in Event
    /\ depth \in Depth /\ last_sequence \in 0 .. MaxSequence - 1
    /\ synchronized \in BOOLEAN /\ applied \in Nat
    /\ images \in [Sequence -> Depth]

\* What the subscriber shows is what the engine's book looked like right after
\* the command of that sequence number, drops and snapshots notwithstanding.
ShowsEngineDepth == last_sequence # 0 => depth = images[last_sequence]

\* The event before the i-th one of the queue, as its consumer will see it.
Predecessor(i) == IF i = 1 THEN last_sequence ELSE queue[i - 1].sequence

\* Every update waiting in the queue continues what comes before it without a
\* gap: a dropped event is never followed by an update before a snapshot.
NoGapBeforeUpdate ==
    \A i \in DOMAIN queue :
       queue[i].kind = "depth_update" =>
          Predecessor(i) # 0 /\ queue[i].sequence = Predecessor(i) + 1

\* The subscriber refuses nothing that was published: each published event is
\* applied or waiting, and the recovery path of apply() is never needed behind
\* this queue.
NothingRefused == published_events = applied + Len(queue)

\* A subscriber that has drained the queue shows the latest book, or the feed
\* knows that it does not: the next event is then a snapshot.  Until a further
\* command is processed the subscriber stays behind.
StaleOnlyAfterDrop ==
    queue = <<>> /\ last_sequence # next_sequence - 1 => snapshot_pending

\* Between two snapshots there are at most SnapshotInterval updates.
SnapshotsRegular ==
    \A i, j \in DOMAIN queue :
       i <= j /\ (\A k \in i .. j : queue[k].kind = "depth_update")
          => j - i < SnapshotInterval

\* Each event that was queued reaches the subscriber.
EachEventShown ==
    \A s \in Sequence :
       (\E i \in DOMAIN queue : queue[i].sequence = s) ~> last_sequence >= s
==============================================================================
