---------------------------- MODULE EventLogProofs ----------------------------
(***************************************************************************)
(* Capture, recording, exit and replay for every set of commands, every     *)
(* order book, every capacity of the capture queue and every number of      *)
(* commands.                                                                *)
(***************************************************************************)
EXTENDS EventLog, TLAPS

------------------------------------------------------------------------------
(* The inductive invariant *)

\* s is a beginning of t.
Begins(s, t) == Len(s) <= Len(t) /\ \A i \in 1 .. Len(s) : s[i] = t[i]

\* The producer's view of the queue never exceeds its slots.
Room == Len(queue) + unseen <= QueueCapacity

\* The order in which the threads stop: a recorder with a good stream leaves its
\* loop only after the engine has been joined, and ends on an empty queue.
Phases ==
    /\ main \in {"joining", "exited"} => engine = "stopped"
    /\ main = "exited" => recorder = "finished"
    /\ good /\ recorder # "running" => engine = "stopped"
    /\ good /\ recorder = "finished" => queue = <<>>

\* Each accepted command was accepted in the state its predecessors led to.
Legal == \A n \in 0 .. Len(accepted) - 1 :
            Accepts(SubSeq(accepted, 1, n), accepted[n + 1])

\* As long as nothing is dropped, the stream is a beginning of the history, and
\* so is the file that the end of the process leaves.
Recorded ==
    dropped_commands = 0 =>
       Begins(stream, accepted) /\ (~Alive => Begins(file.records, accepted))

\* Exit status zero: nothing was dropped.
CleanExit == main = "exited" /\ status = 0 => dropped_commands = 0

\* The replay works through the file from its beginning.
Replaying ==
    /\ Alive => replay = "running" /\ replayed = <<>>
    /\ ~Alive => Begins(replayed, file.records)
    /\ replay = "succeeded" => Len(replayed) = Len(file.records)
    /\ replay = "truncated" => file.torn
    /\ dropped_commands = 0 => replay # "rejected"

Inv == /\ TypeOK /\ Room /\ Phases /\ Legal /\ Recorded /\ CleanExit /\ Replaying
       /\ LogIsHistory /\ CleanExitComplete

------------------------------------------------------------------------------
(* Sequences *)

\* What Append does to the elements and the length.
LEMMA AppendFacts ==
    ASSUME NEW S, NEW s \in Seq(S), NEW e \in S
    PROVE  /\ Append(s, e) \in Seq(S)
           /\ Len(Append(s, e)) = Len(s) + 1
           /\ Append(s, e)[Len(s) + 1] = e
           /\ \A i \in 1 .. Len(s) : Append(s, e)[i] = s[i]
  OBVIOUS

\* Sequences are equal when they agree element by element.
LEMMA SeqEqual ==
    ASSUME NEW S, NEW s \in Seq(S), NEW t \in Seq(S), Len(s) = Len(t),
           \A i \in 1 .. Len(s) : s[i] = t[i]
    PROVE  s = t
  OBVIOUS

\* A beginning of s, cut off after n elements.
LEMMA SubSeqFacts ==
    ASSUME NEW S, NEW s \in Seq(S), NEW n \in 0 .. Len(s)
    PROVE  /\ SubSeq(s, 1, n) \in Seq(S)
           /\ Len(SubSeq(s, 1, n)) = n
           /\ \A i \in 1 .. n : SubSeq(s, 1, n)[i] = s[i]
           /\ Begins(SubSeq(s, 1, n), s)
  BY DEF Begins

\* A beginning is what is left when the rest is cut off.
LEMMA BeginsIsSubSeq ==
    ASSUME NEW S, NEW s \in Seq(S), NEW t \in Seq(S), Begins(s, t)
    PROVE  Len(s) \in 0 .. Len(t) /\ s = SubSeq(t, 1, Len(s))
  <1>1. Len(s) \in 0 .. Len(t)
    BY DEF Begins
  <1>2. /\ SubSeq(t, 1, Len(s)) \in Seq(S)
        /\ Len(SubSeq(t, 1, Len(s))) = Len(s)
        /\ \A i \in 1 .. Len(s) : SubSeq(t, 1, Len(s))[i] = t[i]
    BY <1>1, SubSeqFacts
  <1>3. \A i \in 1 .. Len(s) : s[i] = SubSeq(t, 1, Len(s))[i]
    BY <1>2 DEF Begins
  <1> QED BY <1>1, <1>2, <1>3, SeqEqual

\* A beginning stays one when the sequence grows.
LEMMA BeginsGrows ==
    ASSUME NEW S, NEW s \in Seq(S), NEW t \in Seq(S), NEW e \in S, Begins(s, t)
    PROVE  Begins(s, Append(t, e))
  BY AppendFacts DEF Begins

\* A beginning of a beginning is one.
LEMMA BeginsTransitive ==
    ASSUME NEW S, NEW s \in Seq(S), NEW t \in Seq(S), NEW u \in Seq(S),
           Begins(s, t), Begins(t, u)
    PROVE  Begins(s, u)
  BY DEF Begins

\* The first of two parts is a beginning of the whole.
LEMMA BeginsConcat ==
    ASSUME NEW S, NEW s \in Seq(S), NEW q \in Seq(S)
    PROVE  Begins(s, s \o q)
  BY DEF Begins

\* Appending to the second part appends to the whole.
LEMMA ConcatAppend ==
    ASSUME NEW S, NEW s \in Seq(S), NEW q \in Seq(S), NEW e \in S
    PROVE  s \o Append(q, e) = Append(s \o q, e)
  <1> DEFINE l == s \o Append(q, e)
             r == Append(s \o q, e)
  <1>1. l \in Seq(S) /\ r \in Seq(S) /\ Len(l) = Len(r)
    OBVIOUS
  <1>2. \A i \in 1 .. Len(l) : l[i] = r[i]
    OBVIOUS
  <1> HIDE DEF l, r
  <1>3. l = r
    BY <1>1, <1>2, SeqEqual
  <1> QED BY <1>3 DEF l, r

\* Moving the head of the second part to the end of the first one.
LEMMA ConcatMove ==
    ASSUME NEW S, NEW s \in Seq(S), NEW q \in Seq(S), q # <<>>
    PROVE  Append(s, Head(q)) \o Tail(q) = s \o q
  <1> DEFINE l == Append(s, Head(q)) \o Tail(q)
             r == s \o q
  <1>1. l \in Seq(S) /\ r \in Seq(S) /\ Len(l) = Len(r)
    OBVIOUS
  <1>2. \A i \in 1 .. Len(l) : l[i] = r[i]
    OBVIOUS
  <1> HIDE DEF l, r
  <1>3. l = r
    BY <1>1, <1>2, SeqEqual
  <1> QED BY <1>3 DEF l, r

------------------------------------------------------------------------------
(* The engine's step *)

\* The high-water mark stays within the slots of the queue.
LEMMA OccupancyStep ==
    ASSUME TypeOK, RecordQueueOccupancy, unseen' \in Nat, Len(queue') \in Nat,
           Len(queue') + unseen' <= QueueCapacity
    PROVE  max_queue_occupancy' \in 0 .. QueueCapacity
  BY BoundsAssumption DEF TypeOK, RecordQueueOccupancy

\* What capture() does to the queue and the counters.
LEMMA CaptureStep ==
    ASSUME TypeOK, Room, NEW c \in Command, Capture(c)
    PROVE  /\ Room' /\ unseen' \in Nat /\ queue' \in Seq(Command)
           /\ captured_commands' \in Nat /\ dropped_commands' \in Nat
           /\ max_queue_occupancy' \in 0 .. QueueCapacity
           /\ UNCHANGED message
           /\ \/ queue' = Append(queue, c) /\ UNCHANGED dropped_commands
              \/ dropped_commands' # 0
  <1>1. CASE Queue!Accept(c) /\ captured_commands' = captured_commands + 1
             /\ UNCHANGED dropped_commands
    <2>1. /\ queue' = Append(queue, c) /\ queue' \in Seq(Command)
          /\ Len(queue') = Len(queue) + 1 /\ Len(queue) \in Nat
      BY <1>1, AppendFacts DEF Queue!Accept, TypeOK
    <2>2. unseen' \in Nat /\ Room'
      BY <1>1, <2>1, BoundsAssumption DEF Queue!Accept, TypeOK, Room
    <2>3. max_queue_occupancy' \in 0 .. QueueCapacity
      BY <2>1, <2>2, OccupancyStep DEF Capture, Room
    <2> QED BY <1>1, <2>1, <2>2, <2>3 DEF Queue!Accept, TypeOK
  <1>2. CASE Queue!Refuse /\ dropped_commands' = dropped_commands + 1
             /\ UNCHANGED captured_commands
    <2>1. queue' = queue /\ Len(queue) \in Nat
      BY <1>2 DEF Queue!Refuse, TypeOK
    <2>2. unseen' \in Nat /\ Room'
      BY <1>2, <2>1, BoundsAssumption DEF Queue!Refuse, TypeOK, Room
    <2>3. max_queue_occupancy' \in 0 .. QueueCapacity
      BY <2>1, <2>2, OccupancyStep DEF Capture, Room
    <2> QED BY <1>2, <2>1, <2>2, <2>3 DEF Queue!Refuse, TypeOK
  <1> QED BY <1>1, <1>2 DEF Capture

\* The book accepts a command, which is captured or counted as dropped.
LEMMA ProcessStep ==
    ASSUME Inv, NEW c \in Command, Process(c)
    PROVE  Inv'
  <1>1. /\ Alive /\ engine = "running" /\ Accepts(accepted, c)
        /\ accepted' = Append(accepted, c) /\ Capture(c)
        /\ UNCHANGED <<engine, recorder, main, stream, good, status, file,
                       replay, replayed>>
    BY DEF Process, writerVars, afterVars, replayVars
  <1>2. accepted \in Seq(Command) /\ queue \in Seq(Command) /\ stream \in Seq(Command)
    BY DEF Inv, TypeOK
  <1>3. /\ accepted' \in Seq(Command) /\ Len(accepted') = Len(accepted) + 1
        /\ accepted'[Len(accepted) + 1] = c /\ Len(accepted) \in Nat
        /\ \A i \in 1 .. Len(accepted) : accepted'[i] = accepted[i]
    BY <1>1, <1>2, AppendFacts
  <1>4. /\ Room' /\ unseen' \in Nat /\ queue' \in Seq(Command)
        /\ captured_commands' \in Nat /\ dropped_commands' \in Nat
        /\ max_queue_occupancy' \in 0 .. QueueCapacity /\ UNCHANGED message
        /\ \/ queue' = Append(queue, c) /\ UNCHANGED dropped_commands
           \/ dropped_commands' # 0
    BY <1>1, CaptureStep DEF Inv
  <1>5. TypeOK'
    BY <1>1, <1>3, <1>4 DEF Inv, TypeOK
  <1>6. Phases'
    BY <1>1 DEF Inv, Phases
  <1>7. Legal'
    <2> SUFFICES ASSUME NEW n \in 0 .. Len(accepted)
                 PROVE  Accepts(SubSeq(accepted', 1, n), accepted'[n + 1])
      BY <1>3 DEF Legal
    <2>1. n \in 0 .. Len(accepted') /\ n \in Nat
      BY <1>3
    <2>2. SubSeq(accepted', 1, n) = SubSeq(accepted, 1, n)
      <3> DEFINE l == SubSeq(accepted', 1, n)
                 r == SubSeq(accepted, 1, n)
      <3>1. l \in Seq(Command) /\ Len(l) = n /\ \A i \in 1 .. n : l[i] = accepted'[i]
        BY <2>1, <1>3, SubSeqFacts
      <3>2. r \in Seq(Command) /\ Len(r) = n /\ \A i \in 1 .. n : r[i] = accepted[i]
        BY <1>2, SubSeqFacts
      <3>3. \A i \in 1 .. n : accepted'[i] = accepted[i]
        BY <1>3
      <3> HIDE DEF l, r
      <3>4. l = r
        BY <3>1, <3>2, <3>3, SeqEqual
      <3> QED BY <3>4 DEF l, r
    <2>3. CASE n = Len(accepted)
      <3>1. SubSeq(accepted, 1, n) = accepted
        BY <1>2, <2>3
      <3> QED BY <1>1, <1>3, <2>2, <2>3, <3>1
    <2>4. CASE n # Len(accepted)
      <3>1. n \in 0 .. Len(accepted) - 1 /\ n + 1 \in 1 .. Len(accepted)
        BY <2>1, <2>4, <1>3
      <3>2. Accepts(SubSeq(accepted, 1, n), accepted[n + 1])
        BY <3>1 DEF Inv, Legal
      <3> QED BY <3>1, <3>2, <1>3, <2>2
    <2> QED BY <2>3, <2>4
  <1>8. Recorded'
    <2>1. Begins(stream, accepted) => Begins(stream, accepted')
      BY <1>1, <1>2, BeginsGrows
    <2> QED BY <1>1, <1>4, <2>1 DEF Inv, Recorded, Alive
  <1>9. CleanExit' /\ CleanExitComplete'
    BY <1>1 DEF CleanExit, CleanExitComplete, Alive
  <1>10. Replaying'
    BY <1>1 DEF Inv, Replaying, Alive
  <1>11. LogIsHistory'
    <2>1. stream \o Append(queue, c) = Append(stream \o queue, c)
      BY <1>2, ConcatAppend
    <2> QED BY <1>1, <1>4, <2>1 DEF Inv, LogIsHistory
  <1> QED BY <1>4, <1>5, <1>6, <1>7, <1>8, <1>9, <1>10, <1>11 DEF Inv

------------------------------------------------------------------------------
(* The recorder's steps *)

\* A message moves from the queue to the stream, or is lost with the stream.
LEMMA RecorderDrainsStep ==
    ASSUME Inv, RecorderDrains
    PROVE  Inv'
  <1>1. /\ Alive /\ recorder # "finished" /\ good /\ queue # <<>>
        /\ message' = Head(queue) /\ queue' = Tail(queue) /\ unseen' = unseen + 1
        /\ \/ stream' = Append(stream, Head(queue)) /\ UNCHANGED good
           \/ good' = FALSE /\ UNCHANGED stream
        /\ UNCHANGED <<accepted, captured_commands, dropped_commands,
                       max_queue_occupancy, engine, recorder, main, status, file,
                       replay, replayed>>
    BY DEF RecorderDrains, Queue!Pop, captureVars, afterVars, replayVars
  <1>2. accepted \in Seq(Command) /\ queue \in Seq(Command) /\ stream \in Seq(Command)
    BY DEF Inv, TypeOK
  <1>3. /\ Head(queue) \in Command /\ queue' \in Seq(Command)
        /\ Len(queue') = Len(queue) - 1 /\ Len(queue) \in Nat
    BY <1>1, <1>2
  <1>4. stream' \in Seq(Command) /\ good' \in BOOLEAN
    <2>1. Append(stream, Head(queue)) \in Seq(Command)
      BY <1>2, <1>3, AppendFacts
    <2> QED BY <1>1, <1>2, <2>1
  <1>5. TypeOK' /\ Room'
    <2>1. Room' /\ unseen' \in Nat
      BY <1>1, <1>3 DEF Inv, TypeOK, Room
    <2> QED BY <1>1, <1>3, <1>4, <2>1 DEF Inv, TypeOK
  <1>6. Phases'
    BY <1>1 DEF Inv, Phases
  <1>7. Legal'
    BY <1>1 DEF Inv, Legal
  <1>8. LogIsHistory'
    <2>1. Append(stream, Head(queue)) \o Tail(queue) = stream \o queue
      BY <1>1, <1>2, ConcatMove
    <2> QED BY <1>1, <2>1 DEF Inv, LogIsHistory
  <1>9. Recorded'
    <2>1. CASE good'
      <3>1. Begins(stream', stream' \o queue')
        BY <1>3, <1>4, BeginsConcat
      <3> QED BY <1>1, <1>8, <2>1, <3>1 DEF Recorded, LogIsHistory, Alive
    <2>2. CASE ~good'
      BY <1>1, <2>2 DEF Inv, Recorded, Alive
    <2> QED BY <2>1, <2>2
  <1>10. CleanExit' /\ CleanExitComplete' /\ Replaying'
    BY <1>1 DEF Inv, CleanExit, CleanExitComplete, Replaying, Alive
  <1> QED BY <1>5, <1>6, <1>7, <1>8, <1>9, <1>10 DEF Inv

\* The steps that only move a thread on: what is recorded stays as it is, and
\* the stream may turn bad.
LEMMA ThreadStep ==
    ASSUME Inv, Alive, Alive',
           UNCHANGED <<accepted, captureVars, queueVars, stream, afterVars, replayVars>>,
           good' \in {good, FALSE}, Phases',
           engine' \in {"running", "stopped"},
           recorder' \in {"running", "draining", "finished"},
           main' \in {"serving", "stopping", "joining", "exited", "crashed"}
    PROVE  Inv'
  <1> USE DEF captureVars, queueVars, afterVars, replayVars
  <1>1. good' \in BOOLEAN
    BY DEF Inv, TypeOK
  <1>2. TypeOK' /\ Room'
    BY <1>1 DEF Inv, TypeOK, Room
  <1>3. Legal' /\ LogIsHistory'
    <2>1. Legal'
      BY DEF Inv, Legal
    <2>2. LogIsHistory'
      BY DEF Inv, LogIsHistory
    <2> QED BY <2>1, <2>2
  <1>4. Recorded'
    BY DEF Inv, Recorded
  <1>5. CleanExit' /\ CleanExitComplete' /\ Replaying'
    BY DEF Inv, CleanExit, CleanExitComplete, Replaying, Alive
  <1> QED BY <1>2, <1>3, <1>4, <1>5 DEF Inv

\* The engine's loop ends, the recorder leaves its loop or flushes, the main
\* thread goes on with the shutdown.
LEMMA ShutdownStep ==
    ASSUME Inv,
           \/ EngineStops \/ RecorderLeavesLoop \/ RecorderFlushes
           \/ StopEngine \/ StopRecorder
    PROVE  Inv'
  <1> USE DEF Alive, writerVars
  <1>0. good \in BOOLEAN /\ TypeOK /\ Phases
    BY DEF Inv, TypeOK
  <1>1. CASE EngineStops
    <2>1. Phases' /\ Alive /\ Alive'
      BY <1>0, <1>1 DEF EngineStops, Phases, queueVars
    <2> QED BY <1>0, <1>1, <2>1, ThreadStep DEF EngineStops, TypeOK
  <1>2. CASE RecorderLeavesLoop
    <2>1. Phases' /\ Alive /\ Alive'
      BY <1>0, <1>2 DEF RecorderLeavesLoop, StopRequested, Phases, queueVars
    <2> QED BY <1>0, <1>2, <2>1, ThreadStep DEF RecorderLeavesLoop, TypeOK
  <1>3. CASE RecorderFlushes
    <2>0. good' => good
      BY <1>0, <1>3 DEF RecorderFlushes
    <2>1. Phases' /\ Alive /\ Alive'
      BY <1>0, <1>3, <2>0 DEF RecorderFlushes, Drained, Phases, queueVars
    <2> QED BY <1>0, <1>3, <2>1, ThreadStep DEF RecorderFlushes, TypeOK
  <1>4. CASE StopEngine
    <2>1. Phases' /\ Alive /\ Alive'
      BY <1>0, <1>4 DEF StopEngine, Phases, queueVars
    <2> QED BY <1>0, <1>4, <2>1, ThreadStep DEF StopEngine, TypeOK
  <1>5. CASE StopRecorder
    <2>1. Phases' /\ Alive /\ Alive'
      BY <1>0, <1>5 DEF StopRecorder, Phases, queueVars
    <2> QED BY <1>0, <1>5, <2>1, ThreadStep DEF StopRecorder, TypeOK
  <1> QED BY <1>1, <1>2, <1>3, <1>4, <1>5

------------------------------------------------------------------------------
(* The end of the process *)

\* What is on disk is a beginning of the stream, and all of it after a flush.
LEMMA OnDiskFacts ==
    ASSUME Inv, NEW f \in OnDisk
    PROVE  /\ f \in [records : Seq(Command), torn : BOOLEAN]
           /\ Begins(f.records, stream)
           /\ Flushed => f = File(stream, FALSE)
  <1>1. stream \in Seq(Command)
    BY DEF Inv, TypeOK
  <1>2. CASE Flushed
    <2>1. f = File(stream, FALSE)
      BY <1>2 DEF OnDisk
    <2>2. f.records = stream /\ f \in [records : Seq(Command), torn : BOOLEAN]
      BY <1>1, <2>1 DEF File
    <2>3. Begins(stream, stream)
      BY <1>1 DEF Begins
    <2> QED BY <2>1, <2>2, <2>3
  <1>3. CASE ~Flushed
    <2>1. PICK n \in 0 .. Len(stream), t \in BOOLEAN : f = File(SubSeq(stream, 1, n), t)
      BY <1>3 DEF OnDisk
    <2>2. SubSeq(stream, 1, n) \in Seq(Command) /\ Begins(SubSeq(stream, 1, n), stream)
      BY <1>1, SubSeqFacts
    <2> QED BY <1>3, <2>1, <2>2 DEF File
  <1> QED BY <1>2, <1>3

\* The process exits, or dies: the file is what the system has of the stream.
LEMMA EndStep ==
    ASSUME Inv, Exit \/ Crash
    PROVE  Inv'
  <1>1. /\ file' \in OnDisk /\ main' \in {"exited", "crashed"} /\ Alive
        /\ UNCHANGED <<accepted, captured_commands, dropped_commands,
                       max_queue_occupancy, queue, unseen, message, engine,
                       recorder, stream, good, replay, replayed>>
    BY DEF Exit, Crash, Alive, captureVars, queueVars, writerVars, replayVars
  <1>2. /\ file' \in [records : Seq(Command), torn : BOOLEAN]
        /\ Begins(file'.records, stream)
        /\ Flushed => file' = File(stream, FALSE)
    BY <1>1, OnDiskFacts
  <1>3. TypeOK'
    <2>1. status' \in {0, 1}
      BY DEF Exit, Crash, ExitStatus, Inv, TypeOK
    <2> QED BY <1>1, <1>2, <2>1 DEF Inv, TypeOK
  <1>4. Room' /\ Legal' /\ LogIsHistory'
    <2>1. Room' /\ LogIsHistory'
      BY <1>1 DEF Inv, Room, LogIsHistory
    <2>2. Legal'
      BY <1>1 DEF Inv, Legal
    <2> QED BY <2>1, <2>2
  <1>5. Phases'
    BY <1>1 DEF Exit, Crash, Inv, Phases
  <1>6. Recorded'
    <2> SUFFICES ASSUME dropped_commands = 0
                 PROVE  Begins(stream, accepted) /\ Begins(file'.records, accepted)
      BY <1>1 DEF Recorded
    <2>1. Begins(stream, accepted)
      BY DEF Inv, Recorded
    <2>2. /\ file'.records \in Seq(Command) /\ stream \in Seq(Command)
          /\ accepted \in Seq(Command)
      BY <1>2 DEF Inv, TypeOK
    <2> QED BY <2>1, <2>2, <1>2, BeginsTransitive
  <1>7. main' = "exited" /\ status' = 0
        => dropped_commands = 0 /\ file' = File(accepted, FALSE)
    <2> SUFFICES ASSUME main' = "exited", status' = 0
                 PROVE  dropped_commands = 0 /\ file' = File(accepted, FALSE)
      OBVIOUS
    <2>1. Exit
      BY DEF Crash
    <2>2. dropped_commands = 0 /\ good /\ recorder = "finished"
      BY <2>1 DEF Exit, ExitStatus
    <2>3. file' = File(stream, FALSE) /\ queue = <<>>
      BY <1>2, <2>2 DEF Flushed, Inv, Phases
    <2>4. stream \o <<>> = accepted
      BY <2>2, <2>3 DEF Inv, LogIsHistory
    <2>5. stream = accepted
      BY <2>4 DEF Inv, TypeOK
    <2> QED BY <1>1, <2>2, <2>3, <2>5
  <1>8. CleanExit' /\ CleanExitComplete'
    BY <1>1, <1>7 DEF CleanExit, CleanExitComplete
  <1>9. Replaying'
    <2>1. replay = "running" /\ replayed = <<>>
      BY <1>1 DEF Inv, Replaying
    <2>2. Begins(<<>>, file'.records)
      BY <1>2 DEF Begins
    <2> QED BY <1>1, <2>1, <2>2 DEF Replaying, Alive
  <1> QED BY <1>3, <1>4, <1>5, <1>6, <1>8, <1>9 DEF Inv

------------------------------------------------------------------------------
(* The replay *)

\* Without drops, what has been replayed is a state the engine had, and the next
\* record is the command it accepted then.
LEMMA NextRecordAccepted ==
    ASSUME Inv, ~Alive, dropped_commands = 0, Len(replayed) < Len(file.records)
    PROVE  Accepts(replayed, file.records[Len(replayed) + 1])
  <1> DEFINE n == Len(replayed)
  <1>1. /\ replayed \in Seq(Command) /\ accepted \in Seq(Command)
        /\ file.records \in Seq(Command) /\ n \in Nat
    BY DEF Inv, TypeOK
  <1>2. Begins(replayed, file.records) /\ Begins(file.records, accepted)
    BY DEF Inv, Replaying, Recorded
  <1>3. Begins(replayed, accepted)
    BY <1>1, <1>2, BeginsTransitive
  <1>4. replayed = SubSeq(accepted, 1, n)
    BY <1>1, <1>3, BeginsIsSubSeq
  <1>5. n \in 0 .. Len(accepted) - 1 /\ n + 1 \in 1 .. Len(file.records)
    BY <1>1, <1>2 DEF Begins
  <1>6. file.records[n + 1] = accepted[n + 1]
    BY <1>2, <1>5 DEF Begins
  <1>7. Accepts(SubSeq(accepted, 1, n), accepted[n + 1])
    BY <1>5 DEF Inv, Legal
  <1> QED BY <1>4, <1>6, <1>7

\* A record is applied or refused, or the end of the file is reached.
LEMMA ReplayStep ==
    ASSUME Inv, ReplayRecord \/ ReplayEnds
    PROVE  Inv'
  <1>1. /\ ~Alive /\ replay = "running"
        /\ UNCHANGED <<accepted, captured_commands, dropped_commands,
                       max_queue_occupancy, queue, unseen, message, engine,
                       recorder, main, stream, good, status, file>>
    BY DEF ReplayRecord, ReplayEnds, captureVars, queueVars, writerVars, afterVars
  <1>2. replayed \in Seq(Command) /\ file.records \in Seq(Command)
    BY DEF Inv, TypeOK
  <1>3. Begins(replayed, file.records)
    BY <1>1 DEF Inv, Replaying
  <1>4. Room' /\ Legal' /\ LogIsHistory' /\ Phases'
    <2>1. Room' /\ LogIsHistory' /\ Phases'
      BY <1>1 DEF Inv, Room, LogIsHistory, Phases
    <2>2. Legal'
      BY <1>1 DEF Inv, Legal
    <2> QED BY <2>1, <2>2
  <1>5. Recorded' /\ CleanExit' /\ CleanExitComplete'
    BY <1>1 DEF Inv, Recorded, CleanExit, CleanExitComplete, Alive
  <1>6. TypeOK' /\ Replaying'
    <2>1. CASE ReplayEnds
      <3>1. /\ UNCHANGED replayed /\ Len(replayed) = Len(file.records)
            /\ replay' = IF file.torn THEN "truncated" ELSE "succeeded"
        BY <2>1 DEF ReplayEnds
      <3>2. TypeOK'
        BY <1>1, <3>1 DEF Inv, TypeOK
      <3>3. Replaying'
        BY <1>1, <1>3, <3>1 DEF Replaying, Alive
      <3> QED BY <3>2, <3>3
    <2>2. CASE ReplayRecord
      <3> DEFINE c == file.records[Len(replayed) + 1]
      <3>1. /\ Len(replayed) < Len(file.records)
            /\ \/ replayed' = Append(replayed, c) /\ UNCHANGED replay
               \/ ~Accepts(replayed, c) /\ replay' = "rejected" /\ UNCHANGED replayed
        BY <2>2 DEF ReplayRecord
      <3>2. c \in Command /\ Len(replayed) \in Nat
        BY <1>2, <3>1
      <3>3. CASE replayed' = Append(replayed, c) /\ UNCHANGED replay
        <4>1. /\ replayed' \in Seq(Command) /\ Len(replayed') = Len(replayed) + 1
              /\ replayed'[Len(replayed) + 1] = c
              /\ \A i \in 1 .. Len(replayed) : replayed'[i] = replayed[i]
          BY <1>2, <3>2, <3>3, AppendFacts
        <4>2. Begins(replayed', file.records)
          <5>1. Len(replayed') <= Len(file.records)
            BY <1>2, <3>1, <3>2, <4>1
          <5>2. ASSUME NEW i \in 1 .. Len(replayed')
                PROVE  replayed'[i] = file.records[i]
            <6>1. i = Len(replayed) + 1 \/ i \in 1 .. Len(replayed)
              BY <3>2, <4>1
            <6> QED BY <6>1, <4>1, <1>3 DEF Begins
          <5> QED BY <5>1, <5>2 DEF Begins
        <4>3. TypeOK'
          BY <1>1, <3>3, <4>1 DEF Inv, TypeOK
        <4>4. Replaying'
          BY <1>1, <3>3, <4>2 DEF Replaying, Alive
        <4> QED BY <4>3, <4>4
      <3>4. CASE ~Accepts(replayed, c) /\ replay' = "rejected" /\ UNCHANGED replayed
        <4>1. dropped_commands # 0
          BY <1>1, <3>1, <3>4, NextRecordAccepted
        <4>2. TypeOK'
          BY <1>1, <3>4 DEF Inv, TypeOK
        <4>3. Replaying'
          BY <1>1, <1>3, <3>4, <4>1 DEF Replaying, Alive
        <4> QED BY <4>2, <4>3
      <3> QED BY <3>1, <3>3, <3>4
    <2> QED BY <2>1, <2>2
  <1> QED BY <1>4, <1>5, <1>6 DEF Inv

------------------------------------------------------------------------------
(* Theorems *)

\* The invariant holds throughout: it is true before the first command and kept
\* by every step of the three threads, the crash and the replay.
THEOREM Invariance == Spec => []Inv
  <1>1. Init => Inv
    <2> SUFFICES ASSUME Init PROVE Inv
      OBVIOUS
    <2> USE BoundsAssumption DEF Init
    <2>1. TypeOK
      <3>1. file \in [records : Seq(Command), torn : BOOLEAN]
        BY DEF File
      <3>2. accepted \in Seq(Command) /\ queue \in Seq(Command)
            /\ stream \in Seq(Command) /\ replayed \in Seq(Command)
        OBVIOUS
      <3>3. max_queue_occupancy \in 0 .. QueueCapacity
        OBVIOUS
      <3> QED BY <3>1, <3>2, <3>3 DEF TypeOK
    <2>2. Room /\ Phases /\ Legal /\ LogIsHistory
      BY DEF Room, Phases, Legal, LogIsHistory
    <2>3. Recorded /\ CleanExit /\ Replaying /\ CleanExitComplete
      BY DEF Recorded, Begins, CleanExit, Replaying, CleanExitComplete, Alive
    <2> QED BY <2>1, <2>2, <2>3 DEF Inv
  <1>2. Inv /\ [Next]_vars => Inv'
    <2> SUFFICES ASSUME Inv, [Next]_vars PROVE Inv'
      OBVIOUS
    <2>1. CASE \E c \in Command : Process(c)
      BY <2>1, ProcessStep
    <2>2. CASE RecorderDrains
      BY <2>2, RecorderDrainsStep
    <2>3. CASE \/ EngineStops \/ RecorderLeavesLoop \/ RecorderFlushes
               \/ StopEngine \/ StopRecorder
      BY <2>3, ShutdownStep
    <2>4. CASE Exit \/ Crash
      BY <2>4, EndStep
    <2>5. CASE ReplayRecord \/ ReplayEnds
      BY <2>5, ReplayStep
    <2>6. CASE UNCHANGED vars
      <3> USE <2>6 DEF vars, captureVars, queueVars, writerVars, afterVars, replayVars
      <3>1. TypeOK' /\ Room' /\ Phases' /\ LogIsHistory'
        BY DEF Inv, TypeOK, Room, Phases, LogIsHistory
      <3>2. Legal'
        BY DEF Inv, Legal
      <3>3. Recorded' /\ CleanExit' /\ Replaying' /\ CleanExitComplete'
        BY DEF Inv, Recorded, CleanExit, Replaying, CleanExitComplete, Alive
      <3> QED BY <3>1, <3>2, <3>3 DEF Inv
    <2> QED BY <2>1, <2>2, <2>3, <2>4, <2>5, <2>6 DEF Next, Done
  <1> QED BY <1>1, <1>2, PTL DEF Spec

\* The variables keep their types; in particular the high-water mark of the
\* capture queue never exceeds its slots.
THEOREM TypeCorrect == Spec => []TypeOK
  <1>1. Inv => TypeOK
    BY DEF Inv
  <1> QED BY <1>1, Invariance, PTL

\* While nothing was dropped and no write failed, the stream and the capture
\* queue together hold the accepted history.
THEOREM RecordsHistory == Spec => []LogIsHistory
  <1>1. Inv => LogIsHistory
    BY DEF Inv
  <1> QED BY <1>1, Invariance, PTL

\* run_gateway returns 0 only when the log file holds every accepted command.
THEOREM CleanExitVouches == Spec => []CleanExitComplete
  <1>1. Inv => CleanExitComplete
    BY DEF Inv
  <1> QED BY <1>1, Invariance, PTL

\* replay_event_log() of such a file succeeds in the engine's final state.
THEOREM CleanRunReplays == Spec => []ReplayOfCleanRun
  <1>1. Inv => ReplayOfCleanRun
    <2> SUFFICES ASSUME Inv, main = "exited", status = 0, replay # "running"
                 PROVE  replay = "succeeded" /\ replayed = accepted
      BY DEF ReplayOfCleanRun
    <2>1. ~Alive /\ dropped_commands = 0 /\ file = File(accepted, FALSE)
      BY DEF Inv, CleanExit, CleanExitComplete, Alive
    <2>2. file.records = accepted /\ file.torn = FALSE
      BY <2>1 DEF File
    <2>3. replay = "succeeded" /\ Len(replayed) = Len(accepted)
      BY <2>1, <2>2 DEF Inv, TypeOK, Replaying
    <2>4. \A i \in 1 .. Len(replayed) : replayed[i] = accepted[i]
      BY <2>1, <2>2 DEF Inv, Replaying, Begins
    <2>5. replayed \in Seq(Command) /\ accepted \in Seq(Command)
      BY DEF Inv, TypeOK
    <2> QED BY <2>3, <2>4, <2>5, SeqEqual
  <1> QED BY <1>1, Invariance, PTL

\* After a crash or a failed write replay_event_log() still rebuilds a state that
\* the engine had, as long as nothing was dropped.
THEOREM ReplayRebuildsAState == Spec => []ReplayIsPrefix
  <1>1. Inv => ReplayIsPrefix
    <2> SUFFICES ASSUME Inv, dropped_commands = 0
                 PROVE  /\ replay # "rejected"
                        /\ \E n \in 0 .. Len(accepted) : replayed = SubSeq(accepted, 1, n)
      BY DEF ReplayIsPrefix
    <2>1. replayed \in Seq(Command) /\ accepted \in Seq(Command)
      BY DEF Inv, TypeOK
    <2>2. Begins(replayed, accepted)
      <3>1. CASE Alive
        <4>1. replayed = <<>>
          BY <3>1 DEF Inv, Replaying
        <4> QED BY <2>1, <4>1 DEF Begins
      <3>2. CASE ~Alive
        <4>1. Begins(replayed, file.records) /\ Begins(file.records, accepted)
          BY <3>2 DEF Inv, Replaying, Recorded
        <4>2. file.records \in Seq(Command)
          BY DEF Inv, TypeOK
        <4> QED BY <2>1, <4>1, <4>2, BeginsTransitive
      <3> QED BY <3>1, <3>2
    <2>3. Len(replayed) \in 0 .. Len(accepted) /\ replayed = SubSeq(accepted, 1, Len(replayed))
      BY <2>1, <2>2, BeginsIsSubSeq
    <2>4. replay # "rejected"
      BY DEF Inv, Replaying
    <2> QED BY <2>3, <2>4
  <1> QED BY <1>1, Invariance, PTL
==============================================================================
