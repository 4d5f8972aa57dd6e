------------------------------- MODULE EventLog -------------------------------
(***************************************************************************)
(* Capture of accepted commands, the recorder thread, the exit of the      *)
(* process, and replay (event_log.cpp, and run_gateway of main.cpp).        *)
(*                                                                         *)
(* The order book is any deterministic machine in which a refused command   *)
(* changes nothing: its state is the sequence of the commands it accepted,  *)
(* and so is its digest.                                                    *)
(***************************************************************************)
EXTENDS Integers, Sequences

CONSTANTS Command,         \* commands the gateway passes on
          NoCommand,       \* std::monostate
          Accepts(_, _),   \* whether the book in this state accepts the command
          QueueCapacity,   \* slots of the EventCaptureQueue (4096)
          MaxCommands      \* bound on the number of accepted commands

ASSUME CommandAssumption == NoCommand \notin Command
ASSUME BoundsAssumption == QueueCapacity \in Nat \ {0} /\ MaxCommands \in Nat

VARIABLES accepted,        \* what the engine's book has accepted, in order
          captured_commands, dropped_commands, max_queue_occupancy,
          queue, unseen,   \* the capture queue, see BoundedFifo
          message,         \* the message the recorder popped last
          engine,          \* "running" or "stopped"
          recorder,        \* "running", "draining" or "finished"
          main,            \* how far run_gateway is with the shutdown
          stream,          \* records appended to the output stream
          good,            \* good() of the stream
          status,          \* exit status
          file,            \* what is found on disk afterwards
          replay,          \* state of a later replay_event_log
          replayed         \* commands that replay has applied

captureVars == <<captured_commands, dropped_commands, max_queue_occupancy>>
queueVars == <<queue, unseen, message>>
writerVars == <<stream, good>>
afterVars == <<status, file>>
replayVars == <<replay, replayed>>
vars == <<accepted, captureVars, queueVars, engine, recorder, main, writerVars,
          afterVars, replayVars>>

Queue == INSTANCE BoundedFifo
            WITH Capacity <- QueueCapacity, Item <- Command \cup {NoCommand},
                 items <- queue, out <- message

\* The log ends with a torn record when the writing of one was cut off.
File(records, torn) == [records |-> records, torn |-> torn]

Init == /\ accepted = <<>>
        /\ captured_commands = 0 /\ dropped_commands = 0 /\ max_queue_occupancy = 0
        /\ queue = <<>> /\ unseen = 0 /\ message = NoCommand
        /\ engine = "running" /\ recorder = "running" /\ main = "serving"
        /\ stream = <<>> /\ good = TRUE
        /\ status = 0 /\ file = File(<<>>, FALSE)
        /\ replay = "running" /\ replayed = <<>>

Alive == main \notin {"exited", "crashed"}

------------------------------------------------------------------------------
\* The engine thread

\* Fault: the command is counted whether the queue took it or not.
RecordCountsRefused ==
    LET size == Len(queue) + 1
    IN  max_queue_occupancy' =
           IF size > max_queue_occupancy THEN size ELSE max_queue_occupancy

\* record_queue_occupancy(): size() is called twice, and the second call may
\* know of more releases than the first.
RecordQueueOccupancy ==
    \E first \in 0 .. unseen' : \E second \in 0 .. first :
       max_queue_occupancy' = IF Len(queue') + first > max_queue_occupancy
                              THEN Len(queue') + second
                              ELSE max_queue_occupancy

\* Fault: a drop is not counted.
CaptureForgetsDrop(c) ==
    /\ \/ Queue!Accept(c) /\ captured_commands' = captured_commands + 1
       \/ Queue!Refuse /\ UNCHANGED captured_commands
    /\ UNCHANGED dropped_commands
    /\ RecordQueueOccupancy

Capture(c) ==
    /\ \/ /\ Queue!Accept(c)
          /\ captured_commands' = captured_commands + 1
          /\ UNCHANGED dropped_commands
       \/ /\ Queue!Refuse
          /\ dropped_commands' = dropped_commands + 1
          /\ UNCHANGED captured_commands
    /\ RecordQueueOccupancy

\* Fault: refused commands are captured as well.
ProcessCapturesAll(c) ==
    /\ Alive /\ engine = "running"
    /\ Len(accepted) < MaxCommands
    /\ accepted' = IF Accepts(accepted, c) THEN Append(accepted, c) ELSE accepted
    /\ Capture(c)
    /\ UNCHANGED <<engine, recorder, main, writerVars, afterVars, replayVars>>

\* process_one() for a command the book accepts; a refused one changes nothing
\* here.  The engine goes on with queued commands after a stop was requested.
Process(c) ==
    /\ Alive /\ engine = "running"
    /\ Len(accepted) < MaxCommands
    /\ Accepts(accepted, c)
    /\ accepted' = Append(accepted, c)
    /\ Capture(c)
    /\ UNCHANGED <<engine, recorder, main, writerVars, afterVars, replayVars>>

EngineStops ==
    /\ main = "stopping" /\ engine = "running"
    /\ engine' = "stopped"
    /\ UNCHANGED <<accepted, captureVars, queueVars, recorder, main, writerVars,
                   afterVars, replayVars>>

------------------------------------------------------------------------------
\* The recorder thread

\* drain_event_capture_one(): pop a message and append it.  A failed append
\* loses the message and leaves the stream bad for good.
RecorderDrains ==
    /\ Alive /\ recorder # "finished" /\ good
    /\ Queue!Pop
    /\ \/ stream' = Append(stream, Head(queue)) /\ UNCHANGED good
       \/ good' = FALSE /\ UNCHANGED stream
    /\ UNCHANGED <<accepted, captureVars, engine, recorder, main, afterVars, replayVars>>

StopRequested == main = "joining"

RecorderLeavesLoop ==
    /\ Alive /\ recorder = "running"
    /\ StopRequested \/ ~good
    /\ recorder' = "draining"
    /\ UNCHANGED <<accepted, captureVars, queueVars, engine, main, writerVars,
                   afterVars, replayVars>>

\* Fault: what is left in the queue is not drained before the flush.
DrainedAtOnce == TRUE

\* Fault: the loop goes on until the queue is empty, on a bad stream too.
DrainedWhenEmpty == queue = <<>>

\* The second loop of the recorder ends.  The engine has been joined by then,
\* so its last push is visible and an empty answer of try_pop is final.
Drained == ~good \/ queue = <<>>

\* The flush may fail; a bad stream stays bad.
RecorderFlushes ==
    /\ Alive /\ recorder = "draining"
    /\ Drained
    /\ recorder' = "finished"
    /\ good' \in {good, FALSE}
    /\ UNCHANGED <<accepted, captureVars, queueVars, engine, main, stream,
                   afterVars, replayVars>>

------------------------------------------------------------------------------
\* The main thread, and the end of the process

\* io_ctx.run() has returned: stop the engine and join it.
StopEngine ==
    /\ main = "serving"
    /\ main' = "stopping"
    /\ UNCHANGED <<accepted, captureVars, queueVars, engine, recorder, writerVars,
                   afterVars, replayVars>>

\* The engine is joined: stop the recorder and join it.
StopRecorder ==
    /\ main = "stopping" /\ engine = "stopped"
    /\ main' = "joining"
    /\ UNCHANGED <<accepted, captureVars, queueVars, engine, recorder, writerVars,
                   afterVars, replayVars>>

\* What the operating system has of the stream: all of it after a successful
\* flush; otherwise some beginning, which may end inside a record.
Flushed == recorder = "finished" /\ good
OnDisk == IF Flushed
          THEN {File(stream, FALSE)}
          ELSE {File(SubSeq(stream, 1, n), FALSE) : n \in 0 .. Len(stream)}
               \cup {File(SubSeq(stream, 1, n), TRUE) :
                        n \in {k \in 0 .. Len(stream) :
                                 k < Len(stream) \/ queue # <<>> \/ ~good}}

\* Fault: the state of the stream is not looked at.
ExitStatusIgnoresStream == IF dropped_commands # 0 THEN 1 ELSE 0

ExitStatus == IF dropped_commands # 0 \/ ~good THEN 1 ELSE 0

Exit ==
    /\ main = "joining" /\ recorder = "finished"
    /\ main' = "exited"
    /\ status' = ExitStatus
    /\ file' \in OnDisk
    /\ UNCHANGED <<accepted, captureVars, queueVars, engine, recorder, writerVars, replayVars>>

Crash ==
    /\ Alive
    /\ main' = "crashed"
    /\ file' \in OnDisk
    /\ UNCHANGED <<accepted, captureVars, queueVars, engine, recorder, writerVars,
                   status, replayVars>>

------------------------------------------------------------------------------
\* replay_event_log() on the file that was left, one record per step.

ReplayRecord ==
    /\ ~Alive /\ replay = "running"
    /\ Len(replayed) < Len(file.records)
    /\ LET c == file.records[Len(replayed) + 1] IN
          IF Accepts(replayed, c)
          THEN replayed' = Append(replayed, c) /\ UNCHANGED replay
          ELSE replay' = "rejected" /\ UNCHANGED replayed
    /\ UNCHANGED <<accepted, captureVars, queueVars, engine, recorder, main,
                   writerVars, afterVars>>

ReplayEnds ==
    /\ ~Alive /\ replay = "running"
    /\ Len(replayed) = Len(file.records)
    /\ replay' = IF file.torn THEN "truncated" ELSE "succeeded"
    /\ UNCHANGED <<accepted, captureVars, queueVars, engine, recorder, main,
                   writerVars, afterVars, replayed>>

Done == replay # "running" /\ UNCHANGED vars

Next == \/ \E c \in Command : Process(c)
        \/ EngineStops
        \/ RecorderDrains \/ RecorderLeavesLoop \/ RecorderFlushes
        \/ StopEngine \/ StopRecorder \/ Exit \/ Crash
        \/ ReplayRecord \/ ReplayEnds
        \/ Done

Spec == Init /\ [][Next]_vars

\* The recorder and the main thread are scheduled.  Nothing is assumed of the
\* engine thread, nor that anybody presses Ctrl-C.
FairSpec == /\ Spec
            /\ WF_vars(RecorderDrains \/ RecorderLeavesLoop \/ RecorderFlushes)
            /\ WF_vars(StopRecorder \/ Exit)

------------------------------------------------------------------------------
\* Properties

TypeOK ==
    /\ accepted \in Seq(Command) /\ queue \in Seq(Command) /\ stream \in Seq(Command)
    /\ captured_commands \in Nat /\ dropped_commands \in Nat
    /\ max_queue_occupancy \in 0 .. QueueCapacity
    /\ unseen \in Nat /\ message \in Command \cup {NoCommand}
    /\ engine \in {"running", "stopped"}
    /\ recorder \in {"running", "draining", "finished"}
    /\ main \in {"serving", "stopping", "joining", "exited", "crashed"}
    /\ good \in BOOLEAN /\ status \in {0, 1}
    /\ file \in [records : Seq(Command), torn : BOOLEAN]
    /\ replay \in {"running", "succeeded", "truncated", "rejected"}
    /\ replayed \in Seq(Command)

\* As long as nothing was dropped, what is recorded followed by what is queued
\* is the accepted history, with nothing missing, doubled or out of order.
LogIsHistory == dropped_commands = 0 /\ good => stream \o queue = accepted

\* Exit status zero vouches for the file: it holds every accepted command,
\* whole, whatever the recorder had left to do when the shutdown began.
CleanExitComplete ==
    main = "exited" /\ status = 0 => file = File(accepted, FALSE)

\* A replay of such a file succeeds and ends in the engine's state.
ReplayOfCleanRun ==
    main = "exited" /\ status = 0 /\ replay # "running"
        => replay = "succeeded" /\ replayed = accepted

\* After a crash or a failed write too, as long as nothing was dropped: the
\* replay is never refused a command and rebuilds some state the engine had.
ReplayIsPrefix ==
    dropped_commands = 0 =>
       /\ replay # "rejected"
       /\ \E n \in 0 .. Len(accepted) : replayed = SubSeq(accepted, 1, n)

\* Once the engine has stopped, the recorder and the main thread do not wait
\* for each other: the process comes to its end, on a bad stream as well.
ShutdownCompletes == (engine = "stopped") ~> ~Alive
==============================================================================
