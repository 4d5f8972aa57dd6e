------------------------------- MODULE Exchange -------------------------------
(***************************************************************************)
(* The gateway and the matching engine, joined by their two queues, and the *)
(* shutdown of run_gateway in main.cpp.  The engine is the one of           *)
(* MatchingEngine, of which only this matters here: it takes commands in    *)
(* order, and answers each with reports of trades, which may go to owners   *)
(* of resting orders as well, and one terminal response.                    *)
(***************************************************************************)
EXTENDS Gateway

VARIABLES engine,      \* "running", "idle" between two batches, "stopped"
          replies,     \* what the engine has yet to push for its command
          handled,     \* last sequence taken from each connection
          addressed,   \* number of responses pushed for each connection
          main         \* how far run_gateway is with the shutdown

engineVars == <<engine, replies, handled, addressed>>
vars == <<gatewayVars, engineVars, main>>

Init == /\ GatewayInit
        /\ engine = "running" /\ replies = <<>>
        /\ handled = [c \in Connection |-> 0]
        /\ addressed = [c \in Connection |-> 0]
        /\ main = "serving"

------------------------------------------------------------------------------
\* The engine thread

\* A message before it is pushed: for the session that sent command m.
Reply(m, sequence, terminal) ==
    [id |-> m.id, conn |-> m.conn, sequence |-> sequence, terminal |-> terminal]

\* The owners of resting orders: sessions with an earlier command.
Owners == {[id |-> session[d].id, conn |-> d] : d \in {c \in Connection : handled[c] > 0}}

\* The responses to m: none or one trade, with an order of the same or of
\* another session.
Answers(m) ==
    LET terminal == Reply(m, m.sequence, TRUE)
        trade(o) == Reply(o, m.sequence, FALSE)
    IN  {<<terminal>>} \cup
        {<<trade(m)>> \o (IF o.conn = m.conn THEN <<>> ELSE <<trade(o)>>) \o <<terminal>>
            : o \in Owners}

\* process_one() takes a command and calls its handler.
ProcessOne ==
    /\ engine = "running" /\ replies = <<>>
    /\ inbound # <<>> /\ inbound' = Tail(inbound) /\ unseen' = unseen + 1
    /\ replies' \in Answers(Head(inbound))
    /\ handled' = [handled EXCEPT ![Head(inbound).conn] = Head(inbound).sequence]
    /\ UNCHANGED <<io, sessions, next_session_id, accepted, session, outbound, clientVars,
                   engine, addressed, main>>

OutboundFull == Len(outbound) >= OutboundCapacity

\* push_outbound(), when the queue has room.
PushOutbound ==
    /\ engine = "running" /\ replies # <<>> /\ ~OutboundFull
    /\ LET m == Head(replies) IN
          /\ addressed' = [addressed EXCEPT ![m.conn] = @ + 1]
          /\ outbound' = Append(outbound,
                [type |-> "response", id |-> m.id, conn |-> m.conn,
                 number |-> addressed[m.conn] + 1,
                 sequence |-> m.sequence, terminal |-> m.terminal])
    /\ replies' = Tail(replies)
    /\ UNCHANGED <<io, sessions, next_session_id, accepted, session, queueVars, clientVars,
                   engine, handled, main>>

\* push_outbound() tries again; it looks at no stop token.
Spin == /\ engine = "running" /\ replies # <<>> /\ OutboundFull
        /\ UNCHANGED vars

\* process_available() finds no command and returns.
BatchEnds ==
    /\ engine = "running" /\ replies = <<>> /\ inbound = <<>>
    /\ engine' = "idle"
    /\ UNCHANGED <<gatewayVars, replies, handled, addressed, main>>

\* Fault: the engine thread waits for the outbound queue to be drained.
LoopEndsDrained == main = "joining" /\ outbound = <<>>

\* stop_requested()
LoopEnds == main = "joining"

\* The engine thread looks at its stop token, after a sleep in which commands
\* may have come: it leaves its loop, or begins another batch.
EngineLoop ==
    /\ engine = "idle"
    /\ engine' = IF LoopEnds THEN "stopped" ELSE "running"
    /\ UNCHANGED <<gatewayVars, replies, handled, addressed, main>>

------------------------------------------------------------------------------
\* The main thread

\* io_ctx.run() has returned: engine_thread.request_stop().
RequestStop == /\ main = "serving" /\ io = "stopped"
               /\ main' = "joining"
               /\ UNCHANGED <<gatewayVars, engineVars>>

\* engine_thread.join(), the other joins, and the end of the process.
Exit == /\ main = "joining" /\ engine = "stopped"
        /\ main' = "exited"
        /\ UNCHANGED <<gatewayVars, engineVars>>

Exited == main = "exited" /\ UNCHANGED vars

Engine == ProcessOne \/ PushOutbound \/ BatchEnds \/ EngineLoop

Next == \/ GatewayNext /\ UNCHANGED <<engineVars, main>>
        \/ ProcessOne \/ PushOutbound \/ Spin \/ BatchEnds \/ EngineLoop
        \/ RequestStop \/ Exit \/ Exited

Spec == Init /\ [][Next]_vars

\* The engine and the main thread run, the drain timer fires, and its handler
\* returns when nothing is left.  Of the clients one thing is assumed, for the
\* code has no timeout: they read what is written to them or go away, so that a
\* started write succeeds or fails.
Fairness ==
    /\ WF_vars(Engine)
    /\ WF_vars(RequestStop \/ Exit)
    /\ WF_vars(PollOutbound /\ UNCHANGED <<engineVars, main>>)
    /\ WF_vars(PollEnds /\ outbound = <<>> /\ UNCHANGED <<engineVars, main>>)
    /\ \A c \in Connection :
          WF_vars((WriteDone(c) \/ WriteFails(c)) /\ UNCHANGED <<engineVars, main>>)

FairSpec == Spec /\ Fairness

------------------------------------------------------------------------------
\* Properties

IsResponse(f) == f.type = "response"

\* The number of error frames before the i-th frame: a session has one at most.
ErrorsBefore(frames, i) == IF \E j \in 1 .. i - 1 : ~IsResponse(frames[j]) THEN 1 ELSE 0

\* A TcpSession lives as long as it is registered or has a pending operation.
Alive(c) == Registered(c) \/ session[c].reading # "none" \/ session[c].writing

\* The commands of a connection reach the engine in strictly increasing
\* sequence: "Preserve client send order", whatever the gateway and the engine
\* do in between and however often a client repeats itself.
CommandsInOrder ==
    \A i \in DOMAIN inbound :
       /\ inbound[i].sequence > handled[inbound[i].conn]
       /\ \A j \in 1 .. i - 1 : inbound[j].conn = inbound[i].conn
             => inbound[j].sequence < inbound[i].sequence

\* Frames queued in the session of a connection: responses meant for that
\* connection, that follow without a gap on those its client has read.  What
\* is dropped when a session goes is the tail of its responses, and no client
\* ever reads the response meant for another.
ResponsesWithoutGap ==
    \A c \in Connection :
       LET frames == session[c].write_queue IN
       \A i \in DOMAIN frames : IsResponse(frames[i]) =>
          /\ frames[i].conn = c
          /\ frames[i].number = received[c] + i - ErrorsBefore(frames, i)

\* After a protocol error no command of the session reaches the engine.
NothingAfterError ==
    [][Len(inbound') > Len(inbound) => ~failed[inbound'[Len(inbound')].conn]]_vars

\* After a protocol error the close stays due: as long as the session lives, it
\* reads no more and a write is under way, at the end of which the session is
\* closed if nothing else was queued meanwhile.  It is never left open with
\* nothing to write, however many responses are queued behind the error frame.
CloseStaysDue ==
    \A c \in Connection : failed[c] /\ Alive(c) =>
       /\ session[c].reading = "none"
       /\ session[c].writing /\ session[c].close_after_write

\* The client is sent the error frame, unless its session is lost or the gateway
\* stops.
ErrorFrameWritten ==
    \A c \in Connection :
       failed[c] ~> \/ \A i \in DOMAIN session[c].write_queue :
                          IsResponse(session[c].write_queue[i])
                    \/ ~Registered(c) \/ io = "stopped"

\* A command that entered the inbound queue is answered, in spite of full
\* queues, unless its session is lost or the gateway stops.
CommandAnswered ==
    \A c \in Connection : \A q \in 1 .. MaxSequence[c] :
       session[c].last_sequence = q
          ~> answered[c] >= q \/ ~Registered(c) \/ io = "stopped"

\* Once the gateway has stopped, nothing but an outbound queue that stays full
\* keeps the process from its end.
OnlyFullQueueDelaysExit ==
    io = "stopped" ~> main = "exited" \/ (OutboundFull /\ replies # <<>>)

\* Ctrl-C ends the process: README.md, "shuts down cleanly on Ctrl-C".
ShutsDown == io = "stopped" ~> main = "exited"
==============================================================================
