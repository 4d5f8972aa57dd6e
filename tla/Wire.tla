--------------------------------- MODULE Wire ---------------------------------
(***************************************************************************)
(* One frame on its way: a client encodes a command and TcpSession reads it *)
(* (header, check, payload, decoder), or the gateway serializes an event    *)
(* and a client decodes it.  One byte of a client's frame may be another    *)
(* than the encoder writes: TcpSession reads whatever a client sends.       *)
(***************************************************************************)
EXTENDS Protocol

CONSTANTS Command,       \* commands, by message type
          Event,         \* events, by message type
          Altered        \* the values a byte may be changed to

VARIABLES sent,          \* message type and body, or Nothing
          wire,          \* the bytes of the frame
          altered,       \* position of the changed byte, -1 if none
          stage,         \* "idle", "header", "payload" or "read"
          header,        \* the header in hand
          outcome        \* what the receiver makes of the frame

vars == <<sent, wire, altered, stage, header, outcome>>

Nothing == [type |-> "none"]
Message == UNION {[type : {t}, flags : {0}, body : Command[t]] : t \in Inbound}
           \cup UNION {[type : {t}, flags : {0, 1}, body : Event[t]] : t \in DOMAIN Event}

Init == /\ sent = Nothing /\ wire = <<>> /\ altered = -1
        /\ stage = "idle" /\ header = Nothing /\ outcome = Nothing

\* The client's encoder, or serialize_outbound().
Send(m) ==
    /\ stage = "idle" /\ stage' = "header"
    /\ sent' = m
    /\ wire' = EncodeFrame(m.type, m.flags, EncodeBody(m.type, m.body))
    /\ UNCHANGED <<altered, header, outcome>>

\* The frame is not quite the encoder's.
Alter(k, v) ==
    /\ stage = "header" /\ sent.type \in Inbound /\ altered = -1 /\ wire[k] # v
    /\ wire' = [wire EXCEPT ![k] = v]
    /\ altered' = k
    /\ UNCHANGED <<sent, stage, header, outcome>>

\* The header is read and checked.
ReadHeader ==
    /\ stage = "header"
    /\ LET h == DecodeHeader(Slice(wire, 0, kHeaderSize))
           check == ValidateHeader(h)
       IN  IF check.error = "none"
           THEN stage' = "payload" /\ header' = h /\ UNCHANGED outcome
           ELSE stage' = "read" /\ outcome' = check /\ UNCHANGED header
    /\ UNCHANGED <<sent, wire, altered>>

TypeOf(h) == CHOOSE t \in DOMAIN MessageType : MessageType[t] = h.type

\* The payload is read, as far as the stream goes, and decoded: by TcpSession
\* what a client sent, by the client what the gateway sent.
ReadPayload ==
    /\ stage = "payload" /\ stage' = "read"
    /\ kHeaderSize + header.payload_length <= Size(wire)
    /\ LET payload == Slice(wire, kHeaderSize, header.payload_length)
       IN  outcome' = IF sent.type \in Inbound
                      THEN DecodeCommand(TypeOf(header), payload)
                      ELSE DecodeEvent(TypeOf(header), payload)
    /\ UNCHANGED <<sent, wire, altered, header>>

\* The frame is done with.
Finished == /\ \/ stage = "read"
               \/ stage = "payload" /\ kHeaderSize + header.payload_length > Size(wire)
            /\ UNCHANGED vars

Next == \/ \E m \in Message : Send(m)
        \/ \E k \in DOMAIN wire, v \in Altered : Alter(k, v)
        \/ ReadHeader \/ ReadPayload \/ Finished

Spec == Init /\ [][Next]_vars

------------------------------------------------------------------------------
\* Properties

Accepted == stage = "read" /\ outcome.error = "none"

\* What one end encodes, the other decodes to the same message: every type,
\* the largest and the smallest values of the fields.
RoundTrip ==
    stage = "read" /\ altered = -1 =>
       /\ outcome = [error |-> "none", value |-> sent.body]
       /\ TypeOf(header) = sent.type /\ header.flags = sent.flags

\* A frame the gateway takes a command from is, to the byte, the one the encoder
\* writes for that command, and the command is one the engine may be given:
\* "Malformed or oversized frames never reach the matching engine."
CommandsValid ==
    Accepted /\ sent.type \in Inbound =>
       LET c == outcome.value
           t == TypeOf(header)
       IN  /\ wire = EncodeFrame(t, header.flags, EncodeCommand(t, c))
           /\ \A f \in DOMAIN c \ {"side", "type", "limit_price"} : c[f] > 0
           /\ t = "new_order" =>
                 IF c.type = "limit" THEN c.limit_price \in 1 .. Base ^ Word \div 2 - 1
                 ELSE c.limit_price = NoPrice
           /\ t = "replace_order" => c.new_price \in 1 .. Base ^ Word \div 2 - 1
==============================================================================
