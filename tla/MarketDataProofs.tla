--------------------------- MODULE MarketDataProofs ---------------------------
(***************************************************************************)
(* The market-data pipeline for every queue capacity, snapshot interval,    *)
(* sequence range and number of commands.                                   *)
(***************************************************************************)
EXTENDS MarketData, TLAPS

------------------------------------------------------------------------------
(* The inductive invariant *)

\* The sequence the subscriber will have reached once the queue is drained.
Latest == IF queue = <<>> THEN last_sequence ELSE queue[Len(queue)].sequence

\* The producer's view of the queue never exceeds its slots.
Room == Len(queue) + unseen <= QueueCapacity

\* Sequences in use are issued ones, and each event in the queue carries the
\* engine's depth at its sequence.
Faithful ==
    /\ last_sequence < next_sequence
    /\ \A i \in DOMAIN queue :
          /\ queue[i].sequence \in 1 .. next_sequence - 1
          /\ queue[i].image = images[queue[i].sequence]

\* While no snapshot is due, the last sequence spent is the last one queued.
Continues == ~snapshot_pending => Latest # 0 /\ Latest = next_sequence - 1

\* A subscriber that has applied an event is synchronized.
Synchronized == last_sequence # 0 => synchronized

\* From event i to the end of the queue there are updates only.
UpdatesFrom(i) == \A k \in i .. Len(queue) : queue[k].kind = "depth_update"

\* updates_since_snapshot bounds the updates at the end of the queue, and a
\* snapshot is due before it reaches the interval.
Counted ==
    /\ updates_since_snapshot <= SnapshotInterval
    /\ ~snapshot_pending => updates_since_snapshot < SnapshotInterval
    /\ \A i \in DOMAIN queue :
          UpdatesFrom(i) => Len(queue) - i + 1 <= updates_since_snapshot

Inv == /\ TypeOK /\ Room /\ Faithful /\ Continues /\ Synchronized /\ Counted
       /\ ShowsEngineDepth /\ NoGapBeforeUpdate /\ NothingRefused
       /\ SnapshotsRegular

------------------------------------------------------------------------------
(* Sequences *)

\* What Append does to the elements and the length.
LEMMA AppendFacts ==
    ASSUME NEW S, NEW s \in Seq(S), NEW e \in S
    PROVE  /\ Append(s, e) \in Seq(S)
           /\ Append(s, e) # <<>>
           /\ Len(Append(s, e)) = Len(s) + 1
           /\ DOMAIN Append(s, e) = 1 .. Len(s) + 1
           /\ Append(s, e)[Len(s) + 1] = e
           /\ \A i \in 1 .. Len(s) : Append(s, e)[i] = s[i]
  OBVIOUS

\* What Tail does to the elements and the length.
LEMMA TailFacts ==
    ASSUME NEW S, NEW s \in Seq(S), s # <<>>
    PROVE  /\ Head(s) = s[1] /\ Head(s) \in S
           /\ Len(s) \in Nat \ {0}
           /\ Tail(s) \in Seq(S)
           /\ Len(Tail(s)) = Len(s) - 1
           /\ DOMAIN Tail(s) = 1 .. Len(s) - 1
           /\ \A i \in 1 .. Len(s) - 1 : Tail(s)[i] = s[i + 1]
  OBVIOUS

------------------------------------------------------------------------------
(* The engine's step *)

\* The event the engine makes of its depth.
Made(image) ==
    [sequence |-> next_sequence,
     kind |-> IF snapshot_pending THEN "snapshot" ELSE "depth_update",
     image |-> image]

\* What a step of the feed that issues a sequence keeps, whether the queue takes
\* the event or not.
LEMMA OccupancyStep ==
    ASSUME TypeOK, RecordQueueOccupancy, unseen' \in Nat, Len(queue') \in Nat,
           Len(queue') + unseen' <= QueueCapacity
    PROVE  max_queue_occupancy' \in 0 .. QueueCapacity
  BY BoundsAssumption DEF TypeOK, RecordQueueOccupancy

\* No sequence left: nothing changes but the drop count and the pending snapshot.
LEMMA ExhaustedStep ==
    ASSUME Inv, Exhausted, UNCHANGED bookVars
    PROVE  Inv'
  <1> USE DEF Exhausted, bookVars
  <1>1. TypeOK' /\ Room' /\ Faithful' /\ Synchronized'
    BY DEF Inv, TypeOK, Room, Faithful, Synchronized
  <1>2. Continues'
    BY DEF Continues
  <1>3. Counted'
    BY DEF Inv, Counted, UpdatesFrom
  <1>4. ShowsEngineDepth' /\ NothingRefused' /\ SnapshotsRegular'
    BY DEF Inv, ShowsEngineDepth, NothingRefused, SnapshotsRegular
  <1>5. NoGapBeforeUpdate'
    BY DEF Inv, NoGapBeforeUpdate, Predecessor
  <1> QED BY <1>1, <1>2, <1>3, <1>4, <1>5 DEF Inv

\* A new sequence leaves the depths recorded for the issued ones alone.
LEMMA ImagesStep ==
    ASSUME Inv, NEW image \in Depth, next_sequence # MaxSequence,
           next_sequence' = next_sequence + 1,
           images' = [images EXCEPT ![next_sequence] = image]
    PROVE  /\ next_sequence \in Sequence /\ next_sequence' \in 1 .. MaxSequence
           /\ images' \in [Sequence -> Depth]
           /\ images'[next_sequence] = image
           /\ \A n \in 1 .. next_sequence - 1 : images'[n] = images[n]
  BY BoundsAssumption DEF Inv, TypeOK, Sequence

\* The queue refuses the event.
LEMMA DropStep ==
    ASSUME Inv, NEW image \in Depth, next_sequence # MaxSequence,
           next_sequence' = next_sequence + 1,
           images' = [images EXCEPT ![next_sequence] = image],
           Drop, UNCHANGED bookVars
    PROVE  Inv'
  <1>1. /\ next_sequence' \in 1 .. MaxSequence
        /\ images' \in [Sequence -> Depth]
        /\ \A n \in 1 .. next_sequence - 1 : images'[n] = images[n]
    BY ImagesStep
  <1> USE DEF Drop, Queue!Refuse, bookVars
  <1>2. queue' = queue /\ unseen' \in 0 .. unseen /\ Len(queue) \in Nat
    BY DEF Inv, TypeOK
  <1>3. Room'
    BY <1>2, BoundsAssumption DEF Inv, TypeOK, Room
  <1>4. TypeOK'
    <2>1. max_queue_occupancy' \in 0 .. QueueCapacity
      BY <1>2, <1>3, OccupancyStep DEF Inv, TypeOK, Room
    <2> QED BY <1>1, <1>2, <2>1 DEF Inv, TypeOK
  <1>5. Faithful'
    BY <1>1, <1>2 DEF Inv, TypeOK, Faithful
  <1>6. Continues'
    BY DEF Continues
  <1>7. Counted'
    BY <1>2 DEF Inv, Counted, UpdatesFrom
  <1>8. ShowsEngineDepth'
    BY <1>1 DEF Inv, TypeOK, Faithful, ShowsEngineDepth
  <1>9. NoGapBeforeUpdate'
    BY <1>2 DEF Inv, NoGapBeforeUpdate, Predecessor
  <1>10. NothingRefused' /\ SnapshotsRegular' /\ Synchronized'
    BY <1>2 DEF Inv, NothingRefused, SnapshotsRegular, Synchronized
  <1> QED BY <1>3, <1>4, <1>5, <1>6, <1>7, <1>8, <1>9, <1>10 DEF Inv

\* The queue takes the event.
LEMMA EnqueueStep ==
    ASSUME Inv, NEW image \in Depth, next_sequence # MaxSequence,
           next_sequence' = next_sequence + 1,
           images' = [images EXCEPT ![next_sequence] = image],
           Enqueue(Made(image)), UNCHANGED bookVars
    PROVE  Inv'
  <1> DEFINE e == Made(image)
             n == Len(queue)
  <1>1. /\ next_sequence \in Sequence /\ next_sequence' \in 1 .. MaxSequence
        /\ images' \in [Sequence -> Depth] /\ images'[next_sequence] = image
        /\ \A m \in 1 .. next_sequence - 1 : images'[m] = images[m]
    BY ImagesStep
  <1>2. /\ e \in Event /\ e.sequence = next_sequence /\ e.image = image
        /\ e.kind = "depth_update" <=> ~snapshot_pending
        /\ e.kind = "snapshot" <=> snapshot_pending
    BY <1>1, BoundsAssumption DEF Made, Event, Sequence, Inv, TypeOK
  <1> HIDE DEF e
  <1>3. queue \in Seq(Event) /\ n \in Nat /\ DOMAIN queue = 1 .. n
    BY DEF Inv, TypeOK
  <1>4. queue' = Append(queue, e)
    BY DEF Enqueue, Queue!Accept, e
  <1>5. /\ queue' \in Seq(Event) /\ queue' # <<>>
        /\ Len(queue') = n + 1 /\ DOMAIN queue' = 1 .. n + 1
        /\ queue'[n + 1] = e
        /\ \A i \in 1 .. n : queue'[i] = queue[i]
    BY <1>2, <1>3, <1>4, AppendFacts
  <1>6. Room' /\ unseen' \in Nat
    BY <1>3, <1>5, BoundsAssumption DEF Enqueue, Queue!Accept, Inv, TypeOK, Room
  <1>7. TypeOK'
    <2>1. max_queue_occupancy' \in 0 .. QueueCapacity
      BY <1>3, <1>5, <1>6, OccupancyStep DEF Inv, Room, Enqueue
    <2>2. updates_since_snapshot' \in Nat
      BY DEF Enqueue, AfterQueueing, Inv, TypeOK
    <2>3. snapshot_pending' \in BOOLEAN
      <3>1. \/ snapshot_pending' = FALSE
            \/ snapshot_pending' = (updates_since_snapshot' >= SnapshotInterval)
        BY Zenon DEF Enqueue, AfterQueueing
      <3>2. (updates_since_snapshot' >= SnapshotInterval) \in BOOLEAN
        BY <2>2, BoundsAssumption
      <3> QED BY <3>1, <3>2
    <2> QED BY <1>1, <1>5, <1>6, <2>1, <2>2, <2>3
            DEF Enqueue, Queue!Accept, bookVars, Inv, TypeOK
  <1>8. Faithful'
    <2>1. last_sequence' < next_sequence'
      BY DEF Inv, TypeOK, Faithful, bookVars
    <2>2. ASSUME NEW i \in 1 .. n + 1
          PROVE  /\ queue'[i].sequence \in 1 .. next_sequence' - 1
                 /\ queue'[i].image = images'[queue'[i].sequence]
      <3>1. CASE i = n + 1
        BY <3>1, <1>1, <1>2, <1>5 DEF Sequence
      <3>2. CASE i \in 1 .. n
        BY <3>2, <1>1, <1>3, <1>5 DEF Inv, Faithful, Sequence
      <3> QED BY <3>1, <3>2, <1>3
    <2> QED BY <2>1, <2>2, <1>5 DEF Faithful
  <1>9. Continues'
    BY <1>1, <1>2, <1>3, <1>5 DEF Continues, Latest, Sequence
  <1>10. Counted'
    <2>1. CASE e.kind = "snapshot"
      <3>1. updates_since_snapshot' = 0 /\ ~snapshot_pending'
        BY <2>1 DEF Enqueue, AfterQueueing, e
      <3>2. \A i \in 1 .. n + 1 : ~UpdatesFrom(i)'
        BY <2>1, <1>2, <1>3, <1>5 DEF UpdatesFrom
      <3> QED BY <3>1, <3>2, <1>5, BoundsAssumption DEF Counted
    <2>2. CASE e.kind # "snapshot"
      <3>1. /\ ~snapshot_pending
            /\ updates_since_snapshot' = updates_since_snapshot + 1
            /\ ~snapshot_pending' => ~(updates_since_snapshot' >= SnapshotInterval)
        BY <2>2, <1>2 DEF Enqueue, AfterQueueing, e
      <3>2. ASSUME NEW i \in 1 .. n + 1, UpdatesFrom(i)'
            PROVE  n + 1 - i + 1 <= updates_since_snapshot'
        <4>1. CASE i = n + 1
          BY <4>1, <1>3, <3>1 DEF Inv, TypeOK
        <4>2. CASE i \in 1 .. n
          <5>1. UpdatesFrom(i)
            BY <4>2, <3>2, <1>3, <1>5 DEF UpdatesFrom
          <5> QED BY <4>2, <5>1, <3>1, <1>3 DEF Inv, TypeOK, Counted
        <4> QED BY <4>1, <4>2, <1>3
      <3> QED BY <3>1, <3>2, <1>5, BoundsAssumption DEF Inv, TypeOK, Counted
    <2> QED BY <2>1, <2>2
  <1>11. ShowsEngineDepth'
    BY <1>1 DEF Inv, TypeOK, Faithful, ShowsEngineDepth, bookVars
  <1>12. NoGapBeforeUpdate'
    <2> SUFFICES ASSUME NEW i \in 1 .. n + 1, queue'[i].kind = "depth_update"
                 PROVE  /\ Predecessor(i)' # 0
                        /\ queue'[i].sequence = Predecessor(i)' + 1
      BY <1>5 DEF NoGapBeforeUpdate
    <2>1. CASE i = n + 1
      <3>1. Predecessor(i)' = Latest
        BY <2>1, <1>3, <1>5 DEF Predecessor, Latest, bookVars
      <3>2. Latest # 0 /\ Latest = next_sequence - 1
        BY <2>1, <1>2, <1>5 DEF Inv, Continues
      <3> QED BY <2>1, <3>1, <3>2, <1>1, <1>2, <1>5 DEF Sequence
    <2>2. CASE i \in 1 .. n
      <3>1. Predecessor(i)' = Predecessor(i)
        BY <2>2, <1>3, <1>5 DEF Predecessor, bookVars
      <3> QED BY <2>2, <3>1, <1>3, <1>5 DEF Inv, NoGapBeforeUpdate
    <2> QED BY <2>1, <2>2, <1>3
  <1>13. NothingRefused'
    BY <1>3, <1>5 DEF Inv, TypeOK, NothingRefused, Enqueue, bookVars
  <1>14. SnapshotsRegular'
    <2> SUFFICES ASSUME NEW i \in 1 .. n + 1, NEW j \in 1 .. n + 1, i <= j,
                        \A k \in i .. j : queue'[k].kind = "depth_update"
                 PROVE  j - i < SnapshotInterval
      BY <1>5 DEF SnapshotsRegular
    <2>1. CASE j \in 1 .. n
      <3>1. \A k \in i .. j : queue[k].kind = "depth_update"
        <4>1. \A k \in i .. j : k \in 1 .. n
          BY <2>1, <1>3
        <4> QED BY <4>1, <1>5
      <3> QED BY <2>1, <3>1, <1>3 DEF Inv, SnapshotsRegular
    <2>2. CASE j = n + 1 /\ i = n + 1
      BY <2>2, <1>3, BoundsAssumption
    <2>3. CASE j = n + 1 /\ i \in 1 .. n
      <3>1. UpdatesFrom(i)
        BY <2>3, <1>3, <1>5 DEF UpdatesFrom
      <3>2. updates_since_snapshot < SnapshotInterval
        BY <2>3, <1>2, <1>3, <1>5 DEF Inv, Counted
      <3> QED BY <2>3, <3>1, <3>2, <1>3, BoundsAssumption DEF Inv, TypeOK, Counted
    <2> QED BY <2>1, <2>2, <2>3, <1>3
  <1>15. Synchronized'
    BY DEF Inv, Synchronized, bookVars
  <1> QED BY <1>6, <1>7, <1>8, <1>9, <1>10, <1>11, <1>12, <1>13, <1>14, <1>15 DEF Inv

\* Whatever publish() does keeps the invariant.
LEMMA PublishStep ==
    ASSUME Inv, NEW image \in Depth, Publish(image)
    PROVE  Inv'
  <1>1. UNCHANGED bookVars
    BY DEF Publish
  <1>2. CASE Exhausted
    BY <1>1, <1>2, ExhaustedStep
  <1>3. CASE /\ next_sequence # MaxSequence
             /\ next_sequence' = next_sequence + 1
             /\ images' = [images EXCEPT ![next_sequence] = image]
             /\ Enqueue(Made(image))
    BY <1>1, <1>3, EnqueueStep
  <1>4. CASE /\ next_sequence # MaxSequence
             /\ next_sequence' = next_sequence + 1
             /\ images' = [images EXCEPT ![next_sequence] = image]
             /\ Drop
    BY <1>1, <1>4, DropStep
  <1> QED BY <1>2, <1>3, <1>4 DEF Publish, Made

------------------------------------------------------------------------------
(* The publisher's step *)

\* The event at the head of the queue always fits, so apply() takes it.
LEMMA HeadFits ==
    ASSUME Inv, queue # <<>>
    PROVE  Fits(Head(queue))
  <1>1. /\ Head(queue) = queue[1] /\ Head(queue) \in Event /\ 1 \in DOMAIN queue
    BY DEF Inv, TypeOK
  <1>2. CASE queue[1].kind = "depth_update"
    <2>1. last_sequence # 0 /\ queue[1].sequence = last_sequence + 1
      BY <1>1, <1>2 DEF Inv, NoGapBeforeUpdate, Predecessor
    <2>2. last_sequence # MaxSequence
      BY BoundsAssumption DEF Inv, TypeOK
    <2> QED BY <1>1, <2>1, <2>2 DEF Fits, IsNextSequence, Inv, Synchronized
  <1> QED BY <1>1, <1>2 DEF Event, Fits

\* The publisher moves one event from the queue into the subscriber's book.
LEMMA PublishOneStep ==
    ASSUME Inv, PublishOne
    PROVE  Inv'
  <1> DEFINE n == Len(queue)
             e == queue[1]
  <1>1. queue # <<>> /\ queue' = Tail(queue) /\ unseen' = unseen + 1 /\ event' = Head(queue)
    BY DEF PublishOne, Queue!Pop
  <1>2. queue \in Seq(Event) /\ DOMAIN queue = 1 .. n
    BY DEF Inv, TypeOK
  <1>3. /\ Head(queue) = e /\ e \in Event /\ n \in Nat \ {0}
        /\ queue' \in Seq(Event) /\ Len(queue') = n - 1
        /\ DOMAIN queue' = 1 .. n - 1
        /\ \A i \in 1 .. n - 1 : queue'[i] = queue[i + 1]
    BY <1>1, <1>2, TailFacts
  <1>4. /\ e.sequence \in 1 .. next_sequence - 1
        /\ e.image = images[e.sequence] /\ e.image \in Depth
    <2>1. e.image \in Depth
      BY <1>3 DEF Event
    <2>2. 1 \in DOMAIN queue
      BY <1>2, <1>3
    <2> QED BY <2>1, <2>2 DEF Inv, Faithful
  <1> HIDE DEF e
  <1>5. /\ depth' = e.image /\ last_sequence' = e.sequence
        /\ synchronized' = TRUE /\ applied' = applied + 1
    BY <1>1, <1>3, HeadFits DEF PublishOne, Apply
  <1>6. UNCHANGED feedVars
    BY DEF PublishOne
  <1> USE <1>6 DEF feedVars
  <1>7. TypeOK'
    BY <1>1, <1>3, <1>4, <1>5, BoundsAssumption DEF Inv, TypeOK
  <1>8. Room'
    BY <1>1, <1>3 DEF Inv, TypeOK, Room
  <1>9. Faithful'
    <2>1. ASSUME NEW i \in 1 .. n - 1
          PROVE  /\ queue'[i].sequence \in 1 .. next_sequence - 1
                 /\ queue'[i].image = images[queue'[i].sequence]
      <3>1. i + 1 \in 1 .. n /\ queue'[i] = queue[i + 1]
        BY <1>3
      <3> QED BY <3>1, <1>2 DEF Inv, Faithful
    <2>2. last_sequence' < next_sequence
      BY <1>4, <1>5 DEF Inv, TypeOK
    <2> QED BY <2>1, <2>2, <1>3 DEF Faithful
  <1>10. Latest' = Latest
    <2>1. CASE n = 1
      BY <2>1, <1>1, <1>2, <1>3, <1>5 DEF Latest, e
    <2>2. CASE n # 1
      <3>1. n - 1 \in 1 .. n - 1 /\ (n - 1) + 1 = n /\ queue' # <<>>
        BY <2>2, <1>3
      <3>2. queue'[n - 1] = queue[n]
        BY <3>1, <1>3
      <3> QED BY <3>1, <3>2, <1>1, <1>3 DEF Latest
    <2> QED BY <2>1, <2>2
  <1>11. Continues' /\ Synchronized'
    BY <1>5, <1>10 DEF Inv, Continues, Synchronized
  <1>12. Counted'
    <2> SUFFICES ASSUME NEW i \in 1 .. n - 1, UpdatesFrom(i)'
                 PROVE  n - 1 - i + 1 <= updates_since_snapshot
      BY <1>3 DEF Inv, Counted
    <2>1. UpdatesFrom(i + 1)
      <3> SUFFICES ASSUME NEW k \in i + 1 .. n
                   PROVE  queue[k].kind = "depth_update"
        BY DEF UpdatesFrom
      <3>1. k - 1 \in i .. n - 1 /\ k - 1 \in 1 .. n - 1 /\ (k - 1) + 1 = k
        BY <1>3
      <3>2. queue'[k - 1] = queue[k]
        BY <1>3, <3>1
      <3> QED BY <1>3, <3>1, <3>2 DEF UpdatesFrom
    <2>2. i + 1 \in DOMAIN queue
      BY <1>2, <1>3
    <2>3. n - (i + 1) + 1 <= updates_since_snapshot
      BY <2>1, <2>2 DEF Inv, Counted
    <2> QED BY <2>3, <1>3
  <1>13. ShowsEngineDepth'
    BY <1>4, <1>5 DEF ShowsEngineDepth
  <1>14. NoGapBeforeUpdate'
    <2> SUFFICES ASSUME NEW i \in 1 .. n - 1, queue'[i].kind = "depth_update"
                 PROVE  /\ Predecessor(i)' # 0
                        /\ queue'[i].sequence = Predecessor(i)' + 1
      BY <1>3 DEF NoGapBeforeUpdate
    <2>1. i + 1 \in 1 .. n /\ queue'[i] = queue[i + 1]
      BY <1>3
    <2>2. Predecessor(i)' = Predecessor(i + 1)
      <3>1. CASE i = 1
        BY <3>1, <1>5 DEF Predecessor, e
      <3>2. CASE i # 1
        <4>1. i - 1 \in 1 .. n - 1 /\ (i - 1) + 1 = i /\ (i + 1) - 1 = i
          BY <3>2, <1>3
        <4>2. queue'[i - 1] = queue[i]
          BY <4>1, <1>3
        <4> QED BY <3>2, <4>1, <4>2 DEF Predecessor
      <3> QED BY <3>1, <3>2
    <2> QED BY <2>1, <2>2, <1>2 DEF Inv, NoGapBeforeUpdate
  <1>15. NothingRefused'
    BY <1>3, <1>5 DEF Inv, TypeOK, NothingRefused
  <1>16. SnapshotsRegular'
    <2> SUFFICES ASSUME NEW i \in 1 .. n - 1, NEW j \in 1 .. n - 1, i <= j,
                        \A k \in i .. j : queue'[k].kind = "depth_update"
                 PROVE  j - i < SnapshotInterval
      BY <1>3 DEF SnapshotsRegular
    <2>1. ASSUME NEW k \in i + 1 .. j + 1
          PROVE  queue[k].kind = "depth_update"
      <3>1. k - 1 \in i .. j /\ k - 1 \in 1 .. n - 1 /\ (k - 1) + 1 = k
        BY <1>3
      <3>2. queue'[k - 1] = queue[k]
        BY <1>3, <3>1
      <3> QED BY <3>1, <3>2
    <2>2. i + 1 \in 1 .. n /\ j + 1 \in 1 .. n /\ i + 1 <= j + 1
      BY <1>3
    <2>3. (j + 1) - (i + 1) < SnapshotInterval
      BY <2>1, <2>2, <1>2 DEF Inv, SnapshotsRegular
    <2> QED BY <2>3
  <1> QED BY <1>7, <1>8, <1>9, <1>11, <1>12, <1>13, <1>14, <1>15, <1>16 DEF Inv

------------------------------------------------------------------------------
(* Theorems *)

\* The invariant holds throughout: it is true of the empty pipeline and kept by
\* publish(), publish_one() and the end of the bounded run.
THEOREM Invariance == Spec => []Inv
  <1>1. Init => Inv
    <2> SUFFICES ASSUME Init PROVE Inv
      OBVIOUS
    <2> USE BoundsAssumption, DepthAssumption DEF Init
    <2>1. TypeOK
      <3>1. event \in Event
        BY DEF Event, NoEvent
      <3>2. images \in [Sequence -> Depth]
        OBVIOUS
      <3>3. queue \in Seq(Event) /\ depth \in Depth
        OBVIOUS
      <3>4. /\ next_sequence \in 1 .. MaxSequence
            /\ last_sequence \in 0 .. MaxSequence - 1
            /\ max_queue_occupancy \in 0 .. QueueCapacity
        OBVIOUS
      <3> QED BY <3>1, <3>2, <3>3, <3>4 DEF TypeOK
    <2>2. Room /\ Faithful /\ Continues /\ Synchronized
      BY DEF Room, Faithful, Continues, Synchronized
    <2>3. Counted /\ SnapshotsRegular
      BY DEF Counted, SnapshotsRegular
    <2>4. ShowsEngineDepth /\ NoGapBeforeUpdate /\ NothingRefused
      BY DEF ShowsEngineDepth, NoGapBeforeUpdate, NothingRefused
    <2> QED BY <2>1, <2>2, <2>3, <2>4 DEF Inv
  <1>2. Inv /\ [Next]_vars => Inv'
    <2> SUFFICES ASSUME Inv, [Next]_vars PROVE Inv'
      OBVIOUS
    <2>1. CASE \E image \in Depth : Publish(image)
      BY <2>1, PublishStep
    <2>2. CASE PublishOne
      BY <2>2, PublishOneStep
    <2>3. CASE UNCHANGED vars
      <3> USE <2>3 DEF vars, feedVars, bookVars
      <3>1. TypeOK' /\ Room' /\ Faithful' /\ Synchronized'
        BY DEF Inv, TypeOK, Room, Faithful, Synchronized
      <3>2. Continues' /\ Counted'
        BY DEF Inv, Continues, Latest, Counted, UpdatesFrom
      <3>3. ShowsEngineDepth' /\ NothingRefused' /\ SnapshotsRegular'
        BY DEF Inv, ShowsEngineDepth, NothingRefused, SnapshotsRegular
      <3>4. NoGapBeforeUpdate'
        BY DEF Inv, NoGapBeforeUpdate, Predecessor
      <3> QED BY <3>1, <3>2, <3>3, <3>4 DEF Inv
    <2> QED BY <2>1, <2>2, <2>3 DEF Next, NoMoreCommands
  <1> QED BY <1>1, <1>2, PTL DEF Spec

\* The variables keep their types; in particular the high-water mark that
\* record_queue_occupancy() keeps never exceeds the slots of the queue.
THEOREM TypeCorrect == Spec => []TypeOK
  <1>1. Inv => TypeOK
    BY DEF Inv
  <1> QED BY <1>1, Invariance, PTL

\* The depth the subscriber's book shows is the engine's depth at the sequence
\* of the last event apply() took, whatever was dropped.
THEOREM SubscriberShowsEngineDepth == Spec => []ShowsEngineDepth
  <1>1. Inv => ShowsEngineDepth
    BY DEF Inv
  <1> QED BY <1>1, Invariance, PTL

\* publish() never queues an update behind a gap: after a drop the next event it
\* queues is a snapshot.
THEOREM UpdatesContinue == Spec => []NoGapBeforeUpdate
  <1>1. Inv => NoGapBeforeUpdate
    BY DEF Inv
  <1> QED BY <1>1, Invariance, PTL

\* apply() never refuses an event of this feed.
THEOREM EveryEventApplied == Spec => []NothingRefused
  <1>1. Inv => NothingRefused
    BY DEF Inv
  <1> QED BY <1>1, Invariance, PTL

\* publish() queues at most SnapshotInterval updates between two snapshots, also
\* when drops put snapshots out of their turn.
THEOREM SnapshotAtLeastEveryInterval == Spec => []SnapshotsRegular
  <1>1. Inv => SnapshotsRegular
    BY DEF Inv
  <1> QED BY <1>1, Invariance, PTL

\* A subscriber that has drained the queue and is behind will get a snapshot.
THEOREM StaleSubscriberRecovers == Spec => []StaleOnlyAfterDrop
  <1>1. Inv => StaleOnlyAfterDrop
    BY DEF Inv, Continues, Latest, StaleOnlyAfterDrop
  <1> QED BY <1>1, Invariance, PTL
==============================================================================
