------------------------------- MODULE Gateway -------------------------------
(***************************************************************************)
(* TcpGateway and TcpSession of tcp_gateway.cpp.  Everything here runs on   *)
(* the one thread of the io_context: an action is one completion handler,   *)
(* run to its end, and the handlers come in any order the pending           *)
(* operations allow.  The exception is the drain timer, whose handler works *)
(* while the engine refills the queue: each message is a step of its own,   *)
(* and no other handler runs until the last one.  Connections are numbered  *)
(* as they are accepted; the record of a connection is its TcpSession.      *)
(*                                                                         *)
(* A frame is what the properties need of it: the protocol error, or a      *)
(* response together with the connection it is meant for, its number among  *)
(* the responses for that connection, the sequence of the command and       *)
(* whether it is the terminal response of the command.                      *)
(***************************************************************************)
EXTENDS Naturals, Sequences

CONSTANTS MaxConnections,    \* bound on the connections accepted
          MaxSequence,       \* bound on the sequences the client of a connection sends
          InboundCapacity,   \* 4096
          OutboundCapacity   \* 4096

ASSUME BoundsAssumption ==
    /\ {MaxConnections, InboundCapacity, OutboundCapacity} \subseteq Nat \ {0}
    /\ MaxSequence \in [1 .. MaxConnections -> Nat]

VARIABLES io,                \* "running", "draining" in poll_outbound(), "stopped"
          sessions,          \* sessions_: connection by session id, 0 if absent
          next_session_id,
          accepted,          \* number of connections so far
          session,           \* TcpSession of each connection
          inbound, unseen,   \* inbound queue, see BoundedFifo
          outbound,          \* outbound queue
          failed,            \* history: whether the connection had a protocol error
          received,          \* history: responses its client has read
          answered           \* history: last sequence its client has an answer to

queueVars == <<inbound, unseen>>
clientVars == <<failed, received, answered>>
gatewayVars == <<io, sessions, next_session_id, accepted, session, queueVars,
                 outbound, clientVars>>

Connection == 1 .. MaxConnections

\* Its end of the queue: only try_push.
Inbound == INSTANCE BoundedFifo
              WITH Capacity <- InboundCapacity,
                   Item <- [id : Nat, conn : Nat, sequence : Nat],
                   items <- inbound, out <- 0

ErrorFrame == [type |-> "error"]

\* A TcpSession before its connection is accepted.
NewSession == [id |-> 0, open |-> FALSE, reading |-> "none", writing |-> FALSE,
               write_queue |-> <<>>, last_sequence |-> 0, close_after_write |-> FALSE]

GatewayInit ==
    /\ io = "running"
    /\ sessions = [id \in Connection |-> 0]
    /\ next_session_id = 1 /\ accepted = 0
    /\ session = [c \in Connection |-> NewSession]
    /\ inbound = <<>> /\ unseen = 0
    /\ outbound = <<>>
    /\ failed = [c \in Connection |-> FALSE]
    /\ received = [c \in Connection |-> 0]
    /\ answered = [c \in Connection |-> 0]

------------------------------------------------------------------------------
\* Members of TcpSession, on the record r of a session

\* Fault: a write is started only when something was queued before.
SendRawFrameNotStarted(r, frame) ==
    IF ~r.open THEN r ELSE [r EXCEPT !.write_queue = Append(@, frame)]

\* send_raw_frame(): queued, and written at once when nothing was queued before.
SendRawFrame(r, frame) ==
    IF ~r.open THEN r
    ELSE [r EXCEPT !.write_queue = Append(@, frame),
                   !.writing = @ \/ r.write_queue = <<>>]

\* Fault: the read loop goes on after an error.
SendProtocolErrorGoesOn(r) ==
    SendRawFrame([r EXCEPT !.close_after_write = TRUE, !.reading = "header"], ErrorFrame)

\* send_protocol_error(): always fatal; the read loop ends with it.
SendProtocolError(r) ==
    SendRawFrame([r EXCEPT !.close_after_write = TRUE, !.reading = "none"], ErrorFrame)

Close(r) == [r EXCEPT !.open = FALSE]

\* unregister_session(id)
Unregister(id) == sessions' = [sessions EXCEPT ![id] = 0]

Registered(c) == session[c].open /\ sessions[session[c].id] = c

------------------------------------------------------------------------------
\* Handlers of TcpGateway

\* Fault: session identifiers of the departed are used again.
LeastFreeSessionId ==
    CHOOSE id \in Connection :
       sessions[id] = 0 /\ \A other \in 1 .. id - 1 : sessions[other] # 0

\* next_session_id_++
NextSessionId == next_session_id

\* do_accept(): the session is registered and starts to read.
Accept ==
    /\ io = "running" /\ accepted < MaxConnections
    /\ accepted' = accepted + 1
    /\ next_session_id' = next_session_id + 1
    /\ sessions' = [sessions EXCEPT ![NextSessionId] = accepted + 1]
    /\ session' = [session EXCEPT ![accepted + 1] =
                      [NewSession EXCEPT !.id = NextSessionId, !.open = TRUE,
                                         !.reading = "header"]]
    /\ UNCHANGED <<io, queueVars, outbound, clientVars>>

\* Whom poll_outbound() hands a message to; session id 0 stands for everyone.
Receivers(m) ==
    {c \in Connection : Registered(c) /\ m.id \in {0, session[c].id}}

\* A message of poll_outbound(), which the drain timer calls.  One for a session
\* that is gone is dropped.
PollOutbound ==
    /\ io \in {"running", "draining"} /\ outbound # <<>>
    /\ io' = "draining"
    /\ outbound' = Tail(outbound)
    /\ session' = [c \in Connection |-> IF c \in Receivers(Head(outbound))
                                        THEN SendRawFrame(session[c], Head(outbound))
                                        ELSE session[c]]
    /\ UNCHANGED <<sessions, next_session_id, accepted, queueVars, clientVars>>

\* poll_outbound() returns: try_pop() found the queue empty, which it may do
\* before it sees a message just pushed.
PollEnds ==
    /\ io = "draining" /\ io' = "running"
    /\ UNCHANGED <<sessions, next_session_id, accepted, session, queueVars, outbound,
                   clientVars>>

\* The signal handler of main.cpp: stop() closes and forgets every session,
\* io_context::stop() ends the thread's work.
Stop ==
    /\ io = "running"
    /\ io' = "stopped"
    /\ session' = [c \in Connection |->
                      IF Registered(c) THEN Close(session[c]) ELSE session[c]]
    /\ sessions' = [id \in Connection |-> 0]
    /\ UNCHANGED <<next_session_id, accepted, queueVars, outbound, clientVars>>

------------------------------------------------------------------------------
\* Handlers of TcpSession: reading

Reading(c, what) == io = "running" /\ session[c].reading = what

sameGateway == UNCHANGED <<io, next_session_id, accepted>>

\* The client has gone, or its end of the connection is closed.
ReadFails(c) ==
    /\ \E what \in {"header", "payload"} : Reading(c, what)
    /\ session' = [session EXCEPT ![c].reading = "none"]
    /\ Unregister(session[c].id)
    /\ UNCHANGED <<queueVars, outbound, clientVars>> /\ sameGateway

\* A header that validate_header() accepts: of a command, or of a message that
\* only the server sends, whose payload is read before it is refused.
ReadHeader(c) ==
    /\ Reading(c, "header")
    /\ session' = [session EXCEPT ![c].reading = "payload"]
    /\ UNCHANGED <<sessions, queueVars, outbound, clientVars>> /\ sameGateway

Fail(c) ==
    /\ session' = [session EXCEPT ![c] = SendProtocolError(@)]
    /\ failed' = [failed EXCEPT ![c] = TRUE]

\* An invalid header or payload, or the payload of a server's message.
Malformed(c) ==
    /\ \E what \in {"header", "payload"} : Reading(c, what)
    /\ Fail(c)
    /\ UNCHANGED <<sessions, queueVars, outbound, received, answered>> /\ sameGateway

\* Fault: a sequence number may come twice.
OutOfOrderLax(c, sequence) == sequence < session[c].last_sequence

OutOfOrder(c, sequence) == sequence <= session[c].last_sequence

\* A valid command: enqueue_command(), and on success the next header.
ReadCommand(c, sequence) ==
    /\ Reading(c, "payload")
    /\ LET m == [id |-> session[c].id, conn |-> c, sequence |-> sequence] IN
       \/ OutOfOrder(c, sequence) /\ Fail(c) /\ UNCHANGED queueVars
       \/ ~OutOfOrder(c, sequence) /\ Inbound!Refuse /\ Fail(c)
       \/ /\ ~OutOfOrder(c, sequence) /\ Inbound!Accept(m)
          /\ session' = [session EXCEPT ![c].last_sequence = sequence, ![c].reading = "header"]
          /\ UNCHANGED failed
    /\ UNCHANGED <<sessions, outbound, received, answered>> /\ sameGateway

------------------------------------------------------------------------------
\* Handlers of TcpSession: writing

\* What the client learns from a frame.
ClientReads(c, f) ==
    IF f.type = "error"
    THEN UNCHANGED <<received, answered>>
    ELSE /\ received' = [received EXCEPT ![c] = @ + 1]
         /\ answered' = [answered EXCEPT ![c] = IF f.terminal THEN f.sequence ELSE @]

\* Fault: the session of an error is not closed once its queue is written.
WrittenStaysOpen(c) ==
    /\ session' = [session EXCEPT ![c].write_queue = <<>>, ![c].writing = FALSE]
    /\ UNCHANGED sessions

\* The last queued frame is written.
Written(c) ==
    LET r == [session[c] EXCEPT !.write_queue = <<>>, !.writing = FALSE] IN
    IF r.close_after_write
    THEN /\ session' = [session EXCEPT ![c] = Close([r EXCEPT !.close_after_write = FALSE])]
         /\ Unregister(r.id)
    ELSE session' = [session EXCEPT ![c] = r] /\ UNCHANGED sessions

\* do_write() completes.
WriteDone(c) ==
    /\ io = "running" /\ session[c].writing
    /\ ClientReads(c, Head(session[c].write_queue))
    /\ IF Len(session[c].write_queue) > 1
       THEN /\ session' = [session EXCEPT ![c].write_queue = Tail(@)]
            /\ UNCHANGED sessions
       ELSE Written(c)
    /\ UNCHANGED <<queueVars, outbound, failed>> /\ sameGateway

\* do_write() fails: the frame stays at the head of the queue, the session is
\* forgotten, and its read loop goes on.
WriteFails(c) ==
    /\ io = "running" /\ session[c].writing
    /\ session' = [session EXCEPT ![c].writing = FALSE]
    /\ Unregister(session[c].id)
    /\ UNCHANGED <<queueVars, outbound, clientVars>> /\ sameGateway

GatewayNext ==
    \/ Accept \/ PollOutbound \/ PollEnds \/ Stop
    \/ \E c \in Connection :
          \/ ReadFails(c) \/ ReadHeader(c) \/ Malformed(c)
          \/ \E sequence \in 1 .. MaxSequence[c] : ReadCommand(c, sequence)
          \/ WriteDone(c) \/ WriteFails(c)
==============================================================================
