---------------------------- MODULE ExchangeProofs ----------------------------
(***************************************************************************)
(* The gateway and the engine for every number of connections, every        *)
(* number of commands and every capacity of the two queues.                 *)
(***************************************************************************)
EXTENDS Exchange, TLAPS

------------------------------------------------------------------------------
(* The inductive invariant *)

Message == [id : Connection, conn : Connection, sequence : Nat]
ReplyMessage == [id : Connection, conn : Connection, sequence : Nat, terminal : BOOLEAN]
Response == [type : {"response"}, id : Connection, conn : Connection, number : Nat,
             sequence : Nat, terminal : BOOLEAN]
Frame == Response \cup {ErrorFrame}
Session == [id : 0 .. MaxConnections, open : BOOLEAN,
            reading : {"none", "header", "payload"}, writing : BOOLEAN,
            write_queue : Seq(Frame), last_sequence : Nat, close_after_write : BOOLEAN]

Typed ==
    /\ accepted \in 0 .. MaxConnections /\ next_session_id = accepted + 1
    /\ sessions \in [Connection -> 0 .. MaxConnections]
    /\ session \in [Connection -> Session]
    /\ inbound \in Seq(Message) /\ outbound \in Seq(Response)
    /\ replies \in Seq(ReplyMessage)
    /\ failed \in [Connection -> BOOLEAN] /\ received \in [Connection -> Nat]
    /\ handled \in [Connection -> Nat] /\ addressed \in [Connection -> Nat]

\* The id of a session is the number of its connection and is never given to
\* another; a connection that is still to come has left no trace.
Identified ==
    \A c \in Connection :
       /\ sessions[c] \in {0, c}
       /\ c <= accepted => session[c].id = c
       /\ c > accepted => /\ session[c] = NewSession /\ ~failed[c]
                          /\ handled[c] = 0 /\ addressed[c] = 0 /\ received[c] = 0

\* Whatever is under way belongs to a connection that was accepted.
Addressed(m) == m.id = m.conn /\ m.conn <= accepted
UnderWay ==
    /\ \A i \in DOMAIN inbound : Addressed(inbound[i])
    /\ \A i \in DOMAIN replies : Addressed(replies[i])
    /\ \A i \in DOMAIN outbound : Addressed(outbound[i])

\* The gateway's last sequence of a connection is ahead of its commands.
Sequenced ==
    /\ \A c \in Connection : handled[c] <= session[c].last_sequence
    /\ \A i \in DOMAIN inbound :
          inbound[i].sequence <= session[inbound[i].conn].last_sequence

\* The frames of a session: the responses are numbered without a gap after those
\* its client has read, and there is one error frame at most, after which the
\* session reads no more.
Numbered(frames, c, read) ==
    \A i \in DOMAIN frames : IsResponse(frames[i]) =>
       /\ frames[i].conn = c
       /\ frames[i].number = read + i - ErrorsBefore(frames, i)

OneError(frames) ==
    \A i, j \in DOMAIN frames : ~IsResponse(frames[i]) /\ ~IsResponse(frames[j]) => i = j

Queued(r, c, read, error) ==
    /\ Numbered(r.write_queue, c, read)
    /\ OneError(r.write_queue)
    /\ \A i \in DOMAIN r.write_queue : ~IsResponse(r.write_queue[i]) => error
    /\ error => r.reading = "none"
    /\ r.writing => r.write_queue # <<>>

SessionsQueue ==
    \A c \in Connection : Queued(session[c], c, received[c], failed[c])

\* The number of the last response that was handed to the session.
LastNumber(frames, read) == read + Len(frames) - ErrorsBefore(frames, Len(frames) + 1)
Handed(c) == LastNumber(session[c].write_queue, received[c])

\* In the outbound queue the responses for a connection are in order.
OutboundOrdered ==
    /\ \A i \in DOMAIN outbound : outbound[i].number <= addressed[outbound[i].conn]
    /\ \A i, j \in DOMAIN outbound :
          i < j /\ outbound[i].conn = outbound[j].conn => outbound[i].number < outbound[j].number

\* For a registered session they are the ones that follow on those handed to it.
OutboundComplete ==
    \A c \in Connection : Registered(c) =>
       /\ Handed(c) <= addressed[c]
       /\ \A n \in Handed(c) + 1 .. addressed[c] :
             \E k \in DOMAIN outbound : outbound[k].conn = c /\ outbound[k].number = n
       /\ \A k \in DOMAIN outbound : outbound[k].conn = c => outbound[k].number > Handed(c)

Inv == /\ Typed /\ Identified /\ UnderWay /\ Sequenced /\ CommandsInOrder
       /\ SessionsQueue /\ OutboundOrdered /\ OutboundComplete

------------------------------------------------------------------------------
(* Sequences *)

\* What Append does to the elements and the length.
LEMMA AppendFacts ==
    ASSUME NEW S, NEW s \in Seq(S), NEW e \in S
    PROVE  /\ Append(s, e) \in Seq(S)
           /\ Append(s, e) # <<>>
           /\ Len(Append(s, e)) = Len(s) + 1
           /\ DOMAIN Append(s, e) = 1 .. Len(s) + 1
           /\ Append(s, e)[Len(s) + 1] = e
           /\ \A i \in 1 .. Len(s) : Append(s, e)[i] = s[i]
  OBVIOUS

\* What Tail does to the elements and the length.
LEMMA TailFacts ==
    ASSUME NEW S, NEW s \in Seq(S), s # <<>>
    PROVE  /\ Head(s) = s[1] /\ Head(s) \in S
           /\ Len(s) \in Nat \ {0} /\ DOMAIN s = 1 .. Len(s)
           /\ Tail(s) \in Seq(S)
           /\ Len(Tail(s)) = Len(s) - 1
           /\ DOMAIN Tail(s) = 1 .. Len(s) - 1
           /\ \A i \in 1 .. Len(s) - 1 : Tail(s)[i] = s[i + 1]
  OBVIOUS

------------------------------------------------------------------------------
(* The frames of a session *)

\* A frame is either a response or the error frame.
LEMMA FrameKinds ==
    /\ \A f \in Response : IsResponse(f) /\ f \in Frame
    /\ ErrorFrame \in Frame /\ ~IsResponse(ErrorFrame)
  BY DEF Response, Frame, ErrorFrame, IsResponse

\* Appending a frame does not change what comes before.
LEMMA ErrorsBeforeAppend ==
    ASSUME NEW q \in Seq(Frame), NEW f \in Frame, NEW i \in 1 .. Len(q) + 1
    PROVE  ErrorsBefore(Append(q, f), i) = ErrorsBefore(q, i)
  <1>1. \A j \in 1 .. i - 1 : Append(q, f)[j] = q[j]
    BY AppendFacts
  <1> QED BY <1>1 DEF ErrorsBefore

\* An error frame that is counted is one of the frames.
LEMMA LastNumberNat ==
    ASSUME NEW q \in Seq(Frame), NEW read \in Nat
    PROVE  LastNumber(q, read) \in Nat
  <1> DEFINE n == Len(q)
  <1>1. n \in Nat
    OBVIOUS
  <1> HIDE DEF n
  <1>2. CASE n = 0
    <2>1. 1 .. (n + 1) - 1 = {}
      BY <1>2
    <2>2. ErrorsBefore(q, n + 1) = 0
      BY <2>1 DEF ErrorsBefore
    <2> QED BY <1>2, <2>2 DEF LastNumber, n
  <1>3. CASE n # 0
    <2>1. ErrorsBefore(q, n + 1) \in {0, 1}
      BY DEF ErrorsBefore
    <2>2. read + n - ErrorsBefore(q, n + 1) \in Nat
      BY <1>1, <1>3, <2>1
    <2> QED BY <2>2 DEF LastNumber, n
  <1> QED BY <1>2, <1>3

\* The next response is queued.
LEMMA QueueResponse ==
    ASSUME NEW q \in Seq(Frame), NEW c, NEW read \in Nat, NEW f \in Response,
           Numbered(q, c, read), OneError(q), f.conn = c, f.number = LastNumber(q, read) + 1
    PROVE  /\ Numbered(Append(q, f), c, read)
           /\ OneError(Append(q, f))
           /\ LastNumber(Append(q, f), read) = LastNumber(q, read) + 1
  <1> DEFINE t == Append(q, f)
             n == Len(q)
  <1>1. IsResponse(f) /\ f \in Frame
    BY FrameKinds
  <1>2. /\ t \in Seq(Frame) /\ Len(t) = n + 1 /\ DOMAIN t = 1 .. n + 1
        /\ t[n + 1] = f /\ \A i \in 1 .. n : t[i] = q[i]
        /\ n \in Nat /\ DOMAIN q = 1 .. n
    BY <1>1, AppendFacts
  <1>3. \A i \in 1 .. n + 1 : ErrorsBefore(t, i) = ErrorsBefore(q, i)
    BY <1>1, ErrorsBeforeAppend
  <1> HIDE DEF t
  <1>4. Numbered(t, c, read)
    <2> SUFFICES ASSUME NEW i \in 1 .. n + 1, IsResponse(t[i])
                 PROVE  t[i].conn = c /\ t[i].number = read + i - ErrorsBefore(t, i)
      BY <1>2 DEF Numbered
    <2>1. CASE i = n + 1
      <3>1. LastNumber(q, read) = read + n - ErrorsBefore(q, n + 1)
        BY DEF LastNumber
      <3>2. ErrorsBefore(q, n + 1) \in {0, 1}
        BY DEF ErrorsBefore
      <3>3. t[i] = f /\ ErrorsBefore(t, i) = ErrorsBefore(q, n + 1)
        BY <1>2, <1>3, <2>1
      <3>4. (read + n - ErrorsBefore(q, n + 1)) + 1 = read + (n + 1) - ErrorsBefore(q, n + 1)
        <4>1. n \in Nat /\ read \in Nat
          BY <1>2
        <4> HIDE DEF n
        <4> QED BY ONLY <3>2, <4>1
      <3> QED BY <2>1, <3>1, <3>3, <3>4
    <2>2. CASE i \in 1 .. n
      BY <1>2, <1>3, <2>2 DEF Numbered
    <2> QED BY <1>2, <2>1, <2>2
  <1>5. OneError(t)
    <2> SUFFICES ASSUME NEW i \in 1 .. n + 1, NEW j \in 1 .. n + 1,
                        ~IsResponse(t[i]), ~IsResponse(t[j])
                 PROVE  i = j
      BY <1>2 DEF OneError
    <2>1. i \in 1 .. n /\ j \in 1 .. n
      BY <1>1, <1>2
    <2> QED BY <1>2, <2>1 DEF OneError
  <1>6. LastNumber(t, read) = LastNumber(q, read) + 1
    <2>1. ErrorsBefore(t, n + 2) = ErrorsBefore(t, n + 1)
      <3>1. \A j \in 1 .. n + 1 : ~IsResponse(t[j]) => j \in 1 .. n
        BY <1>1, <1>2
      <3>2. (n + 2) - 1 = n + 1 /\ (n + 1) - 1 = n /\ \A j \in 1 .. n : j \in 1 .. n + 1
        BY <1>2
      <3> QED BY <3>1, <3>2 DEF ErrorsBefore
    <2>2. ErrorsBefore(t, n + 1) = ErrorsBefore(q, n + 1) /\ ErrorsBefore(q, n + 1) \in {0, 1}
      BY <1>2, <1>3 DEF ErrorsBefore
    <2>3. LastNumber(t, read) = read + (n + 1) - ErrorsBefore(t, n + 2)
      BY <1>2 DEF LastNumber
    <2> QED BY <1>2, <2>1, <2>2, <2>3 DEF LastNumber
  <1> QED BY <1>4, <1>5, <1>6 DEF t

\* The error frame is queued behind responses only.
LEMMA QueueError ==
    ASSUME NEW q \in Seq(Frame), NEW c, NEW read \in Nat, Numbered(q, c, read),
           \A i \in DOMAIN q : IsResponse(q[i])
    PROVE  /\ Numbered(Append(q, ErrorFrame), c, read)
           /\ OneError(Append(q, ErrorFrame))
           /\ LastNumber(Append(q, ErrorFrame), read) = LastNumber(q, read)
  <1> DEFINE f == ErrorFrame
             t == Append(q, f)
             n == Len(q)
  <1>1. f \in Frame /\ ~IsResponse(f)
    BY FrameKinds
  <1> HIDE DEF f
  <1>2. /\ t \in Seq(Frame) /\ Len(t) = n + 1 /\ DOMAIN t = 1 .. n + 1
        /\ t[n + 1] = f /\ \A i \in 1 .. n : t[i] = q[i]
        /\ n \in Nat /\ DOMAIN q = 1 .. n
    BY <1>1, AppendFacts
  <1>3. \A i \in 1 .. n + 1 : ErrorsBefore(t, i) = ErrorsBefore(q, i)
    BY <1>1, ErrorsBeforeAppend
  <1> HIDE DEF t
  <1>4. Numbered(t, c, read)
    <2> SUFFICES ASSUME NEW i \in 1 .. n + 1, IsResponse(t[i])
                 PROVE  t[i].conn = c /\ t[i].number = read + i - ErrorsBefore(t, i)
      BY <1>2 DEF Numbered
    <2>1. i \in 1 .. n
      BY <1>1, <1>2
    <2> QED BY <1>2, <1>3, <2>1 DEF Numbered
  <1>5. OneError(t)
    BY <1>1, <1>2 DEF OneError
  <1>6. LastNumber(t, read) = LastNumber(q, read)
    <2>1. ErrorsBefore(t, n + 2) = 1
      <3>1. n + 1 \in 1 .. (n + 2) - 1 /\ ~IsResponse(t[n + 1])
        BY <1>1, <1>2
      <3> QED BY <3>1 DEF ErrorsBefore
    <2>2. ErrorsBefore(q, n + 1) = 0
      BY <1>2 DEF ErrorsBefore
    <2>3. LastNumber(t, read) = read + (n + 1) - ErrorsBefore(t, n + 2)
      BY <1>2 DEF LastNumber
    <2> QED BY <1>2, <2>1, <2>2, <2>3 DEF LastNumber
  <1> QED BY <1>4, <1>5, <1>6 DEF t, f

\* Dropping the head moves the error count with it.
LEMMA ErrorsBeforeTail ==
    ASSUME NEW q \in Seq(Frame), q # <<>>, OneError(q), NEW i \in 1 .. Len(q)
    PROVE  /\ IsResponse(Head(q)) => ErrorsBefore(q, i + 1) = ErrorsBefore(Tail(q), i)
           /\ ~IsResponse(Head(q)) => ErrorsBefore(q, i + 1) = 1 /\ ErrorsBefore(Tail(q), i) = 0
  <1> DEFINE t == Tail(q)
             n == Len(q)
  <1>1. /\ Head(q) = q[1] /\ n \in Nat \ {0} /\ DOMAIN q = 1 .. n
        /\ \A j \in 1 .. n - 1 : t[j] = q[j + 1]
    BY TailFacts
  <1> HIDE DEF t
  <1>2. CASE IsResponse(Head(q))
    <2>1. ASSUME NEW j \in 1 .. (i + 1) - 1, ~IsResponse(q[j])
          PROVE  j - 1 \in 1 .. i - 1 /\ ~IsResponse(t[j - 1])
      <3>1. j # 1
        BY <1>1, <1>2, <2>1
      <3>2. j - 1 \in 1 .. i - 1 /\ j - 1 \in 1 .. n - 1 /\ (j - 1) + 1 = j
        BY <3>1, <1>1
      <3>3. t[j - 1] = q[j]
        BY <3>2, <1>1
      <3> QED BY <3>2, <3>3, <2>1
    <2>2. ASSUME NEW j \in 1 .. i - 1, ~IsResponse(t[j])
          PROVE  j + 1 \in 1 .. (i + 1) - 1 /\ ~IsResponse(q[j + 1])
      BY <1>1, <2>2
    <2>3. (\E j \in 1 .. (i + 1) - 1 : ~IsResponse(q[j]))
             <=> (\E j \in 1 .. i - 1 : ~IsResponse(t[j]))
      BY <2>1, <2>2
    <2> QED BY <1>2, <2>3 DEF ErrorsBefore, t
  <1>3. CASE ~IsResponse(Head(q))
    <2>1. 1 \in 1 .. (i + 1) - 1 /\ ~IsResponse(q[1])
      BY <1>1, <1>3
    <2>2. ErrorsBefore(q, i + 1) = 1
      BY <2>1 DEF ErrorsBefore
    <2>3. ASSUME NEW j \in 1 .. i - 1
          PROVE  IsResponse(t[j])
      <3>1. t[j] = q[j + 1] /\ j + 1 \in 1 .. n /\ 1 \in 1 .. n /\ j + 1 # 1
        BY <1>1
      <3> QED BY <1>1, <2>1, <3>1 DEF OneError
    <2>4. ErrorsBefore(t, i) = 0
      BY <2>3 DEF ErrorsBefore
    <2> QED BY <1>3, <2>2, <2>4 DEF t
  <1> QED BY <1>2, <1>3

\* The client reads the frame at the head.
LEMMA FrameRead ==
    ASSUME NEW q \in Seq(Frame), q # <<>>, NEW c, NEW read \in Nat, NEW later \in Nat,
           Numbered(q, c, read), OneError(q),
           later = IF IsResponse(Head(q)) THEN read + 1 ELSE read
    PROVE  /\ Numbered(Tail(q), c, later)
           /\ OneError(Tail(q))
           /\ LastNumber(Tail(q), later) = LastNumber(q, read)
  <1> DEFINE t == Tail(q)
             n == Len(q)
  <1>1. /\ Head(q) = q[1] /\ n \in Nat \ {0} /\ DOMAIN q = 1 .. n
        /\ Len(t) = n - 1 /\ DOMAIN t = 1 .. n - 1
        /\ \A j \in 1 .. n - 1 : t[j] = q[j + 1]
    BY TailFacts
  <1>2. /\ IsResponse(Head(q)) => \A i \in 1 .. n : ErrorsBefore(q, i + 1) = ErrorsBefore(t, i)
        /\ ~IsResponse(Head(q)) =>
              \A i \in 1 .. n : ErrorsBefore(q, i + 1) = 1 /\ ErrorsBefore(t, i) = 0
    BY ErrorsBeforeTail
  <1>3. \A i \in 1 .. n : ErrorsBefore(t, i) \in {0, 1} /\ ErrorsBefore(q, i + 1) \in {0, 1}
    BY DEF ErrorsBefore
  <1> HIDE DEF t
  <1>4. Numbered(t, c, later)
    <2> SUFFICES ASSUME NEW i \in 1 .. n - 1, IsResponse(t[i])
                 PROVE  t[i].conn = c /\ t[i].number = later + i - ErrorsBefore(t, i)
      BY <1>1 DEF Numbered
    <2>1. t[i] = q[i + 1] /\ i + 1 \in 1 .. n /\ i \in 1 .. n
      BY <1>1
    <2>2. t[i].conn = c /\ t[i].number = read + (i + 1) - ErrorsBefore(q, i + 1)
      BY <1>1, <2>1 DEF Numbered
    <2>3. CASE IsResponse(Head(q))
      <3>1. ErrorsBefore(q, i + 1) = ErrorsBefore(t, i) /\ ErrorsBefore(t, i) \in Nat
        BY <1>2, <1>3, <2>1, <2>3
      <3> QED BY <2>2, <2>3, <3>1
    <2>4. CASE ~IsResponse(Head(q))
      <3>1. ErrorsBefore(q, i + 1) = 1 /\ ErrorsBefore(t, i) = 0
        BY <1>2, <2>1, <2>4
      <3> QED BY <2>2, <2>4, <3>1
    <2> QED BY <2>3, <2>4
  <1>5. OneError(t)
    <2> SUFFICES ASSUME NEW i \in 1 .. n - 1, NEW j \in 1 .. n - 1,
                        ~IsResponse(t[i]), ~IsResponse(t[j])
                 PROVE  i = j
      BY <1>1 DEF OneError
    <2>1. /\ t[i] = q[i + 1] /\ i + 1 \in 1 .. n
          /\ t[j] = q[j + 1] /\ j + 1 \in 1 .. n
      BY <1>1
    <2>2. i + 1 = j + 1
      BY <1>1, <2>1 DEF OneError
    <2> QED BY <2>2
  <1>6. LastNumber(t, later) = LastNumber(q, read)
    <2>1. LastNumber(t, later) = later + (n - 1) - ErrorsBefore(t, n)
      <3>1. (n - 1) + 1 = n
        BY <1>1
      <3> QED BY <1>1, <3>1 DEF LastNumber
    <2>2. LastNumber(q, read) = read + n - ErrorsBefore(q, n + 1)
      BY DEF LastNumber
    <2>3. n \in 1 .. n
      BY <1>1
    <2>4. CASE IsResponse(Head(q))
      <3>1. ErrorsBefore(q, n + 1) = ErrorsBefore(t, n) /\ ErrorsBefore(t, n) \in Nat
        BY <1>2, <1>3, <2>3, <2>4
      <3> QED BY <1>1, <2>1, <2>2, <2>4, <3>1
    <2>5. CASE ~IsResponse(Head(q))
      <3>1. ErrorsBefore(q, n + 1) = 1 /\ ErrorsBefore(t, n) = 0
        BY <1>2, <2>3, <2>5
      <3> QED BY <1>1, <2>1, <2>2, <2>5, <3>1
    <2> QED BY <2>4, <2>5
  <1> QED BY <1>4, <1>5, <1>6 DEF t

------------------------------------------------------------------------------
(* Steps of a session *)

\* Connections are positive numbers.
LEMMA ConnectionFacts ==
    /\ MaxConnections \in Nat
    /\ \A c \in Connection : c \in Nat /\ c # 0 /\ c \in 0 .. MaxConnections
  BY BoundsAssumption DEF Connection

\* A handler of session c that leaves the queues of the gateway alone: nobody
\* becomes registered, and what was handed to the sessions stays handed.
LEMMA SessionStep ==
    ASSUME Inv, NEW c \in Connection, c <= accepted, NEW r \in Session,
           r.id = c, r.last_sequence >= session[c].last_sequence,
           r.open => session[c].open,
           session' = [session EXCEPT ![c] = r],
           sessions' = sessions \/ sessions' = [sessions EXCEPT ![c] = 0],
           received' \in [Connection -> Nat], failed' \in [Connection -> BOOLEAN],
           \A d \in Connection : d # c => received'[d] = received[d] /\ failed'[d] = failed[d],
           Queued(r, c, received'[c], failed'[c]),
           LastNumber(r.write_queue, received'[c]) = Handed(c),
           UNCHANGED <<accepted, next_session_id, outbound, replies, handled, addressed>>
    PROVE  /\ inbound' \in Seq(Message) => Typed'
           /\ Identified' /\ SessionsQueue' /\ OutboundOrdered' /\ OutboundComplete'
           /\ \A d \in Connection : /\ session'[d].last_sequence \in Nat
                                    /\ session'[d].last_sequence >= session[d].last_sequence
                                    /\ d # c => session'[d] = session[d]
  <1>1. /\ session \in [Connection -> Session]
        /\ sessions \in [Connection -> 0 .. MaxConnections]
        /\ accepted \in Nat
    BY ConnectionFacts DEF Inv, Typed
  <1>2. /\ session'[c] = r /\ session' \in [Connection -> Session]
        /\ \A d \in Connection : d # c => session'[d] = session[d]
    BY <1>1
  <1>3. /\ sessions' \in [Connection -> 0 .. MaxConnections]
        /\ \A d \in Connection : sessions'[d] \in {0, sessions[d]}
        /\ \A d \in Connection : d # c => sessions'[d] = sessions[d]
    BY <1>1, ConnectionFacts
  <1>4. inbound' \in Seq(Message) => Typed'
    BY <1>2, <1>3 DEF Inv, Typed
  <1>5. Identified'
    <2> SUFFICES ASSUME NEW d \in Connection
                 PROVE  /\ sessions'[d] \in {0, d}
                        /\ d <= accepted => session'[d].id = d
                        /\ d > accepted =>
                              /\ session'[d] = NewSession /\ ~failed'[d]
                              /\ handled[d] = 0 /\ addressed[d] = 0 /\ received'[d] = 0
      BY DEF Identified
    <2>1. /\ sessions[d] \in {0, d}
          /\ d <= accepted => session[d].id = d
          /\ d > accepted => /\ session[d] = NewSession /\ ~failed[d]
                             /\ handled[d] = 0 /\ addressed[d] = 0 /\ received[d] = 0
      BY DEF Inv, Identified
    <2>2. CASE d = c
      BY <1>1, <1>2, <1>3, <2>1, <2>2, ConnectionFacts
    <2>3. CASE d # c
      BY <1>2, <1>3, <2>1, <2>3
    <2> QED BY <2>2, <2>3
  <1>6. SessionsQueue'
    <2> SUFFICES ASSUME NEW d \in Connection
                 PROVE  Queued(session'[d], d, received'[d], failed'[d])
      BY DEF SessionsQueue
    <2>1. CASE d = c
      BY <1>2, <2>1
    <2>2. CASE d # c
      BY <1>2, <2>2 DEF Inv, SessionsQueue
    <2> QED BY <2>1, <2>2
  <1>7. OutboundOrdered'
    BY DEF Inv, OutboundOrdered
  <1>8. OutboundComplete'
    <2>1. ASSUME NEW d \in Connection
          PROVE  /\ Handed(d)' = Handed(d)
                 /\ Registered(d)' => Registered(d)
      <3>1. CASE d = c
        <4>1. session[c].id = c
          BY DEF Inv, Identified
        <4> QED BY <1>2, <1>3, <3>1, <4>1, ConnectionFacts DEF Handed, Registered
      <3>2. CASE d # c
        <4>1. Handed(d)' = Handed(d)
          BY <1>2, <3>2 DEF Handed
        <4>2. Registered(d)' => Registered(d)
          <5> SUFFICES ASSUME session[d].open, sessions'[session[d].id] = d
                       PROVE  sessions[session[d].id] = d
            BY <1>2, <3>2 DEF Registered
          <5>1. d <= accepted
            BY <1>1, ConnectionFacts DEF Inv, Identified, NewSession
          <5>2. session[d].id = d
            BY <5>1 DEF Inv, Identified
          <5> QED BY <1>3, <3>2, <5>2
        <4> QED BY <4>1, <4>2
      <3> QED BY <3>1, <3>2
    <2>2. SUFFICES ASSUME NEW d \in Connection, Registered(d)'
                   PROVE  /\ Handed(d)' <= addressed[d]
                          /\ \A n \in Handed(d)' + 1 .. addressed[d] :
                                \E k \in DOMAIN outbound :
                                   outbound[k].conn = d /\ outbound[k].number = n
                          /\ \A k \in DOMAIN outbound :
                                outbound[k].conn = d => outbound[k].number > Handed(d)'
      BY DEF OutboundComplete
    <2> QED BY <2>1, <2>2 DEF Inv, OutboundComplete
  <1>9. ASSUME NEW d \in Connection
        PROVE  /\ session'[d].last_sequence \in Nat
               /\ session'[d].last_sequence >= session[d].last_sequence
    <2>1. session'[d].last_sequence \in Nat /\ session[d].last_sequence \in Nat
      BY <1>1, <1>2 DEF Session
    <2> QED BY <1>2, <2>1
  <1> QED BY <1>2, <1>4, <1>5, <1>6, <1>7, <1>8, <1>9

\* While the inbound queue stays as it is, a growing last_sequence disturbs nothing.
LEMMA InboundKept ==
    ASSUME Inv, UNCHANGED <<inbound, handled>>,
           \A d \in Connection : /\ session'[d].last_sequence \in Nat
                                 /\ session'[d].last_sequence >= session[d].last_sequence
    PROVE  Sequenced' /\ CommandsInOrder'
  <1>1. CommandsInOrder'
    BY DEF Inv, CommandsInOrder
  <1>2. Sequenced'
    <2>1. ASSUME NEW d \in Connection
          PROVE  handled[d] <= session'[d].last_sequence
      BY DEF Inv, Typed, Session, Sequenced
    <2>2. ASSUME NEW i \in DOMAIN inbound
          PROVE  inbound[i].sequence <= session'[inbound[i].conn].last_sequence
      <3>1. inbound[i] \in Message
        BY DEF Inv, Typed
      <3>2. inbound[i].conn \in Connection /\ inbound[i].sequence \in Nat
        BY <3>1 DEF Message
      <3>3. session[inbound[i].conn].last_sequence \in Nat
        BY <3>2 DEF Inv, Typed, Session
      <3> QED BY <3>2, <3>3 DEF Inv, Sequenced
    <2> QED BY <2>1, <2>2 DEF Sequenced
  <1> QED BY <1>1, <1>2

\* Both together: a handler that leaves the inbound queue alone as well.
LEMMA HandlerKeeps ==
    ASSUME Inv, NEW c \in Connection, c <= accepted, NEW r \in Session,
           r.id = c, r.last_sequence >= session[c].last_sequence,
           r.open => session[c].open,
           session' = [session EXCEPT ![c] = r],
           sessions' = sessions \/ sessions' = [sessions EXCEPT ![c] = 0],
           received' \in [Connection -> Nat], failed' \in [Connection -> BOOLEAN],
           \A d \in Connection : d # c => received'[d] = received[d] /\ failed'[d] = failed[d],
           Queued(r, c, received'[c], failed'[c]),
           LastNumber(r.write_queue, received'[c]) = Handed(c),
           UNCHANGED <<accepted, next_session_id, inbound, outbound, replies, handled, addressed>>
    PROVE  Inv'
  <1>1. /\ inbound' \in Seq(Message) => Typed'
        /\ Identified' /\ SessionsQueue' /\ OutboundOrdered' /\ OutboundComplete'
        /\ \A d \in Connection : /\ session'[d].last_sequence \in Nat
                                 /\ session'[d].last_sequence >= session[d].last_sequence
    BY SessionStep, Zenon
  <1>2. inbound' \in Seq(Message)
    BY DEF Inv, Typed
  <1>3. Sequenced' /\ CommandsInOrder'
    BY <1>1, InboundKept
  <1>4. UnderWay'
    BY DEF Inv, UnderWay, Addressed
  <1> QED BY <1>1, <1>2, <1>3, <1>4 DEF Inv

\* A session with a pending operation.
LEMMA PendingSession ==
    ASSUME Inv, NEW c \in Connection, session[c].reading # "none" \/ session[c].writing
    PROVE  /\ c <= accepted /\ session[c] \in Session /\ session[c].id = c
           /\ received[c] \in Nat /\ failed[c] \in BOOLEAN
           /\ Queued(session[c], c, received[c], failed[c])
           /\ session[c].reading # "none" =>
                 /\ ~failed[c]
                 /\ \A i \in DOMAIN session[c].write_queue :
                       IsResponse(session[c].write_queue[i])
  <1>1. c <= accepted
    <2>1. accepted \in Nat /\ c \in Nat
      BY ConnectionFacts DEF Inv, Typed
    <2>2. c > accepted => session[c] = NewSession
      BY DEF Inv, Identified
    <2>3. NewSession.reading = "none" /\ ~NewSession.writing
      BY DEF NewSession
    <2> QED BY <2>1, <2>2, <2>3
  <1>2. session[c] \in Session /\ received[c] \in Nat /\ failed[c] \in BOOLEAN
    BY DEF Inv, Typed
  <1>3. session[c].id = c
    BY <1>1 DEF Inv, Identified
  <1>4. Queued(session[c], c, received[c], failed[c])
    BY DEF Inv, SessionsQueue
  <1>5. session[c].reading # "none" => ~failed[c]
    BY <1>4 DEF Queued
  <1>6. ~failed[c] => \A i \in DOMAIN session[c].write_queue :
                         IsResponse(session[c].write_queue[i])
    BY <1>4 DEF Queued
  <1> QED BY <1>1, <1>2, <1>3, <1>4, <1>5, <1>6

\* send_protocol_error() on a session that reads.
LEMMA FailKeeps ==
    ASSUME Inv, NEW c \in Connection, session[c].reading # "none", Fail(c),
           UNCHANGED <<sessions, received, accepted, next_session_id, inbound, outbound, replies,
                       handled, addressed>>
    PROVE  Inv'
  <1> DEFINE s == session[c]
             q == s.write_queue
             r == SendProtocolError(s)
  <1>1. /\ c <= accepted /\ s \in Session /\ s.id = c
        /\ received[c] \in Nat /\ failed[c] \in BOOLEAN
        /\ Queued(s, c, received[c], failed[c])
        /\ ~failed[c]
        /\ \A i \in DOMAIN q : IsResponse(q[i])
    BY PendingSession
  <1>2. /\ s.open \in BOOLEAN /\ s.writing \in BOOLEAN /\ q \in Seq(Frame)
        /\ s.last_sequence \in Nat /\ s.id \in 0 .. MaxConnections
    BY <1>1 DEF Session
  <1>3. Numbered(q, c, received[c])
    BY <1>1 DEF Queued
  <1>4. /\ Numbered(Append(q, ErrorFrame), c, received[c])
        /\ OneError(Append(q, ErrorFrame))
        /\ LastNumber(Append(q, ErrorFrame), received[c]) = LastNumber(q, received[c])
    BY <1>1, <1>2, <1>3, QueueError
  <1>5. Append(q, ErrorFrame) \in Seq(Frame) /\ Append(q, ErrorFrame) # <<>>
    <2>1. ErrorFrame \in Frame
      BY FrameKinds
    <2> HIDE DEF q
    <2> QED BY <1>2, <2>1, AppendFacts
  <1>6. session' = [session EXCEPT ![c] = r] /\ failed' = [failed EXCEPT ![c] = TRUE]
    BY DEF Fail
  <1>7. /\ failed' \in [Connection -> BOOLEAN] /\ failed'[c] = TRUE
        /\ \A d \in Connection : d # c => failed'[d] = failed[d]
    BY <1>6 DEF Inv, Typed
  <1>8. received' \in [Connection -> Nat] /\ received' = received
    BY DEF Inv, Typed
  <1>9. /\ r \in Session /\ r.id = c /\ r.last_sequence = s.last_sequence
        /\ r.open = s.open
        /\ Queued(r, c, received[c], TRUE)
        /\ LastNumber(r.write_queue, received[c]) = LastNumber(q, received[c])
    <2>1. CASE s.open
      <3>1. r = [s EXCEPT !.close_after_write = TRUE, !.reading = "none",
                          !.write_queue = Append(q, ErrorFrame),
                          !.writing = s.writing \/ q = <<>>]
        BY <1>1, <2>1 DEF SendProtocolError, SendRawFrame, Session
      <3>2. /\ r \in Session /\ r.id = c /\ r.last_sequence = s.last_sequence
            /\ r.open = s.open /\ r.write_queue = Append(q, ErrorFrame)
            /\ r.reading = "none"
        BY <1>1, <1>2, <1>5, <3>1, Zenon DEF Session
      <3>3. Queued(r, c, received[c], TRUE)
        BY <1>4, <1>5, <3>2 DEF Queued
      <3> QED BY <1>4, <3>2, <3>3, Zenon
    <2>2. CASE ~s.open
      <3>1. r = [s EXCEPT !.close_after_write = TRUE, !.reading = "none"]
        BY <1>1, <2>2 DEF SendProtocolError, SendRawFrame, Session
      <3>2. /\ r \in Session /\ r.id = c /\ r.last_sequence = s.last_sequence
            /\ r.open = s.open /\ r.write_queue = q /\ r.writing = s.writing
            /\ r.reading = "none"
        BY <1>1, <3>1, Zenon DEF Session
      <3>3. Queued(r, c, received[c], TRUE)
        BY <1>1, <3>2 DEF Queued
      <3> QED BY <3>2, <3>3, Zenon
    <2> QED BY <2>1, <2>2, Zenon
  <1>10. LastNumber(q, received[c]) = Handed(c)
    BY DEF Handed
  <1>11. r.last_sequence >= session[c].last_sequence
    BY <1>2, <1>9
  <1> HIDE DEF r
  <1> QED BY <1>1, <1>6, <1>7, <1>8, <1>9, <1>10, <1>11, HandlerKeeps, Zenon

\* A handler that touches neither the frames nor the sequence of the session.
LEMMA QuietHandlerKeeps ==
    ASSUME Inv, NEW c \in Connection, session[c].reading # "none" \/ session[c].writing,
           NEW r \in Session,
           r.id = session[c].id, r.open = session[c].open,
           r.write_queue = session[c].write_queue,
           r.last_sequence = session[c].last_sequence,
           r.writing => session[c].writing,
           session[c].reading = "none" => r.reading = "none",
           session' = [session EXCEPT ![c] = r],
           sessions' = sessions \/ sessions' = [sessions EXCEPT ![session[c].id] = 0],
           UNCHANGED <<received, failed, accepted, next_session_id, inbound, outbound, replies,
                       handled, addressed>>
    PROVE  Inv'
  <1>1. /\ c <= accepted /\ session[c] \in Session /\ session[c].id = c
        /\ Queued(session[c], c, received[c], failed[c])
        /\ session[c].reading # "none" => ~failed[c]
    BY PendingSession
  <1>2. Queued(r, c, received'[c], failed'[c])
    BY <1>1 DEF Queued
  <1>3. LastNumber(r.write_queue, received'[c]) = Handed(c)
    BY DEF Handed
  <1>4. received' \in [Connection -> Nat] /\ failed' \in [Connection -> BOOLEAN]
    BY DEF Inv, Typed
  <1>5. r.last_sequence >= session[c].last_sequence
    BY DEF Session
  <1>6. sessions' = sessions \/ sessions' = [sessions EXCEPT ![c] = 0]
    BY <1>1
  <1> QED BY <1>1, <1>2, <1>3, <1>4, <1>5, <1>6, HandlerKeeps, Zenon

\* A failed read ends the read loop and unregisters the session.
LEMMA ReadFailsKeeps ==
    ASSUME Inv, NEW c \in Connection, ReadFails(c), UNCHANGED <<engineVars, main>>
    PROVE  Inv'
  <1> DEFINE r == [session[c] EXCEPT !.reading = "none"]
  <1>1. session[c].reading # "none"
    BY DEF ReadFails, Reading
  <1>2. session[c] \in Session
    BY <1>1, PendingSession
  <1>3. /\ r \in Session /\ r.id = session[c].id /\ r.open = session[c].open
        /\ r.write_queue = session[c].write_queue /\ r.writing = session[c].writing
        /\ r.last_sequence = session[c].last_sequence /\ r.reading = "none"
    BY <1>2 DEF Session
  <1>4. session' = [session EXCEPT ![c] = r]
    BY DEF ReadFails
  <1>5. sessions' = [sessions EXCEPT ![session[c].id] = 0]
    BY DEF ReadFails, Unregister
  <1>6. UNCHANGED <<received, failed, accepted, next_session_id, inbound, outbound, replies,
                    handled, addressed>>
    BY DEF ReadFails, queueVars, clientVars, sameGateway, engineVars
  <1> HIDE DEF r
  <1> QED BY <1>1, <1>3, <1>4, <1>5, <1>6, QuietHandlerKeeps, Zenon

\* After a header the payload is read.
LEMMA ReadHeaderKeeps ==
    ASSUME Inv, NEW c \in Connection, ReadHeader(c), UNCHANGED <<engineVars, main>>
    PROVE  Inv'
  <1> DEFINE r == [session[c] EXCEPT !.reading = "payload"]
  <1>1. session[c].reading # "none"
    BY DEF ReadHeader, Reading
  <1>2. session[c] \in Session
    BY <1>1, PendingSession
  <1>3. /\ r \in Session /\ r.id = session[c].id /\ r.open = session[c].open
        /\ r.write_queue = session[c].write_queue /\ r.writing = session[c].writing
        /\ r.last_sequence = session[c].last_sequence
    BY <1>2 DEF Session
  <1>4. session' = [session EXCEPT ![c] = r] /\ sessions' = sessions
    BY DEF ReadHeader
  <1>5. UNCHANGED <<received, failed, accepted, next_session_id, inbound, outbound, replies,
                    handled, addressed>>
    BY DEF ReadHeader, queueVars, clientVars, sameGateway, engineVars
  <1> HIDE DEF r
  <1> QED BY <1>1, <1>3, <1>4, <1>5, QuietHandlerKeeps, Zenon

\* A failed write unregisters the session and leaves its frames queued.
LEMMA WriteFailsKeeps ==
    ASSUME Inv, NEW c \in Connection, WriteFails(c), UNCHANGED <<engineVars, main>>
    PROVE  Inv'
  <1> DEFINE r == [session[c] EXCEPT !.writing = FALSE]
  <1>1. session[c].writing
    BY DEF WriteFails
  <1>2. session[c] \in Session
    BY <1>1, PendingSession
  <1>3. /\ r \in Session /\ r.id = session[c].id /\ r.open = session[c].open
        /\ r.write_queue = session[c].write_queue /\ r.reading = session[c].reading
        /\ r.last_sequence = session[c].last_sequence /\ r.writing = FALSE
    BY <1>2, Zenon DEF Session
  <1>4. session' = [session EXCEPT ![c] = r]
    BY DEF WriteFails
  <1>5. sessions' = [sessions EXCEPT ![session[c].id] = 0]
    BY DEF WriteFails, Unregister
  <1>6. UNCHANGED <<received, failed, accepted, next_session_id, inbound, outbound, replies,
                    handled, addressed>>
    BY DEF WriteFails, queueVars, clientVars, sameGateway, engineVars
  <1> HIDE DEF r
  <1> QED BY <1>1, <1>3, <1>4, <1>5, <1>6, QuietHandlerKeeps, Zenon

\* A malformed message is answered with the error frame.
LEMMA MalformedKeeps ==
    ASSUME Inv, NEW c \in Connection, Malformed(c), UNCHANGED <<engineVars, main>>
    PROVE  Inv'
  <1>1. session[c].reading # "none" /\ Fail(c)
    BY DEF Malformed, Reading
  <1>2. UNCHANGED <<sessions, received, accepted, next_session_id, inbound, outbound, replies,
                    handled, addressed>>
    BY DEF Malformed, queueVars, sameGateway, engineVars
  <1> QED BY <1>1, <1>2, FailKeeps

\* The client reads the frame that was written.
LEMMA WriteDoneKeeps ==
    ASSUME Inv, NEW c \in Connection, WriteDone(c), UNCHANGED <<engineVars, main>>
    PROVE  Inv'
  <1> DEFINE s == session[c]
             q == s.write_queue
             later == IF IsResponse(Head(q)) THEN received[c] + 1 ELSE received[c]
  <1>1. s.writing
    BY DEF WriteDone
  <1>2. /\ c <= accepted /\ s \in Session /\ s.id = c
        /\ received[c] \in Nat /\ failed[c] \in BOOLEAN
        /\ Queued(s, c, received[c], failed[c])
    BY <1>1, PendingSession
  <1>3. q \in Seq(Frame) /\ q # <<>> /\ s.last_sequence \in Nat
    BY <1>1, <1>2 DEF Queued, Session
  <1>4. /\ Head(q) = q[1] /\ Head(q) \in Frame
        /\ Len(q) \in Nat \ {0} /\ DOMAIN q = 1 .. Len(q)
        /\ Tail(q) \in Seq(Frame) /\ Len(Tail(q)) = Len(q) - 1
        /\ DOMAIN Tail(q) = 1 .. Len(q) - 1
        /\ \A i \in 1 .. Len(q) - 1 : Tail(q)[i] = q[i + 1]
    BY <1>3, TailFacts
  <1>5. later \in Nat
    BY <1>2
  <1>6. Numbered(q, c, received[c]) /\ OneError(q)
    BY <1>2 DEF Queued
  <1>7. /\ Numbered(Tail(q), c, later) /\ OneError(Tail(q))
        /\ LastNumber(Tail(q), later) = LastNumber(q, received[c])
    <2>1. later = IF IsResponse(Head(q)) THEN received[c] + 1 ELSE received[c]
      OBVIOUS
    <2> HIDE DEF later, q
    <2> QED BY <1>2, <1>3, <1>5, <1>6, <2>1, FrameRead
  <1>8. received' = [received EXCEPT ![c] = later]
    <2>1. received \in [Connection -> Nat]
      BY DEF Inv, Typed
    <2>2. ClientReads(c, Head(q))
      BY DEF WriteDone
    <2>3. CASE IsResponse(Head(q))
      <3>1. Head(q).type # "error"
        BY <2>3 DEF IsResponse
      <3> QED BY <2>2, <2>3, <3>1 DEF ClientReads
    <2>4. CASE ~IsResponse(Head(q))
      <3>1. Head(q) = ErrorFrame
        BY <1>4, <2>4, FrameKinds DEF Frame
      <3>2. Head(q).type = "error"
        BY <3>1 DEF ErrorFrame
      <3>3. received' = received
        BY <2>2, <3>2 DEF ClientReads
      <3> QED BY <2>1, <2>4, <3>3
    <2> QED BY <2>3, <2>4
  <1>9. /\ received' \in [Connection -> Nat] /\ received'[c] = later
        /\ \A d \in Connection : d # c => received'[d] = received[d]
    BY <1>5, <1>8 DEF Inv, Typed
  <1>10. PICK r \in Session :
           /\ r.id = c /\ (r.open => s.open) /\ r.write_queue = Tail(q)
           /\ r.last_sequence = s.last_sequence /\ r.reading = s.reading
           /\ r.writing => Tail(q) # <<>>
           /\ session' = [session EXCEPT ![c] = r]
           /\ sessions' = sessions \/ sessions' = [sessions EXCEPT ![c] = 0]
    <2>1. CASE Len(q) > 1
      <3> DEFINE r == [s EXCEPT !.write_queue = Tail(q)]
      <3>1. /\ r \in Session /\ r.id = c /\ r.open = s.open /\ r.write_queue = Tail(q)
            /\ r.last_sequence = s.last_sequence /\ r.reading = s.reading
        BY <1>2, <1>4, Zenon DEF Session
      <3>2. Tail(q) # <<>>
        BY <1>4, <2>1
      <3>3. session' = [session EXCEPT ![c] = r] /\ sessions' = sessions
        BY <2>1 DEF WriteDone
      <3> QED BY <3>1, <3>2, <3>3, Zenon
    <2>2. CASE ~(Len(q) > 1)
      <3> DEFINE e == [s EXCEPT !.write_queue = <<>>, !.writing = FALSE]
                 x == Close([e EXCEPT !.close_after_write = FALSE])
      <3>1. Tail(q) = <<>> /\ <<>> \in Seq(Frame)
        BY <1>4, <2>2
      <3>2. /\ e \in Session /\ e.id = c /\ e.open = s.open /\ e.write_queue = Tail(q)
            /\ e.last_sequence = s.last_sequence /\ e.reading = s.reading /\ e.writing = FALSE
        BY <1>2, <3>1, Zenon DEF Session
      <3>3. /\ x \in Session /\ x.id = c /\ x.open = FALSE /\ x.write_queue = Tail(q)
            /\ x.last_sequence = s.last_sequence /\ x.reading = s.reading /\ x.writing = FALSE
        BY <1>2, <3>1, Zenon DEF Session, Close
      <3>4. Written(c)
        BY <2>2 DEF WriteDone
      <3>5. CASE e.close_after_write
        <4>1. session' = [session EXCEPT ![c] = x] /\ sessions' = [sessions EXCEPT ![c] = 0]
          BY <3>2, <3>4, <3>5 DEF Written, Unregister
        <4> QED BY <3>3, <4>1, Zenon
      <3>6. CASE ~e.close_after_write
        <4>1. session' = [session EXCEPT ![c] = e] /\ sessions' = sessions
          BY <3>4, <3>6 DEF Written
        <4> QED BY <3>2, <4>1, Zenon
      <3> QED BY <3>5, <3>6
    <2> QED BY <2>1, <2>2
  <1>11. Queued(r, c, later, failed[c])
    <2>1. ASSUME NEW i \in DOMAIN Tail(q), ~IsResponse(Tail(q)[i])
          PROVE  failed[c]
      <3>1. i + 1 \in DOMAIN q /\ ~IsResponse(q[i + 1])
        BY <1>4, <2>1
      <3> QED BY <1>2, <3>1 DEF Queued
    <2> QED BY <1>2, <1>7, <1>10, <2>1 DEF Queued
  <1>12. UNCHANGED <<failed, accepted, next_session_id, inbound, outbound, replies, handled,
                     addressed>>
    BY DEF WriteDone, queueVars, sameGateway, engineVars
  <1>13. LastNumber(r.write_queue, received'[c]) = Handed(c)
    BY <1>7, <1>9, <1>10 DEF Handed
  <1>14. Queued(r, c, received'[c], failed'[c]) /\ failed' \in [Connection -> BOOLEAN]
    BY <1>9, <1>11, <1>12 DEF Inv, Typed
  <1>15. r.last_sequence >= session[c].last_sequence
    BY <1>3, <1>10
  <1> HIDE DEF later
  <1> QED BY <1>2, <1>9, <1>10, <1>12, <1>13, <1>14, <1>15, HandlerKeeps, Zenon

\* enqueue_command() on success: the command is ahead of every earlier one of its
\* connection, for last_sequence was.
LEMMA CommandEntersKeeps ==
    ASSUME Inv, NEW c \in Connection, NEW sequence \in Nat, session[c].reading # "none",
           sequence > session[c].last_sequence,
           inbound' = Append(inbound, [id |-> session[c].id, conn |-> c, sequence |-> sequence]),
           session' = [session EXCEPT ![c].last_sequence = sequence, ![c].reading = "header"],
           UNCHANGED <<sessions, received, failed, accepted, next_session_id, outbound, replies,
                       handled, addressed>>
    PROVE  Inv'
  <1> DEFINE m == [id |-> session[c].id, conn |-> c, sequence |-> sequence]
             r == [session[c] EXCEPT !.last_sequence = sequence, !.reading = "header"]
             n == Len(inbound)
  <1>1. /\ c <= accepted /\ session[c] \in Session /\ session[c].id = c
        /\ Queued(session[c], c, received[c], failed[c]) /\ ~failed[c]
    BY PendingSession
  <1>2. session[c].last_sequence \in Nat
    BY <1>1 DEF Session
  <1>3. /\ r \in Session /\ r.id = c /\ r.open = session[c].open
        /\ r.write_queue = session[c].write_queue /\ r.writing = session[c].writing
        /\ r.last_sequence = sequence
    BY <1>1, Zenon DEF Session
  <1>4. session \in [Connection -> Session] /\ inbound \in Seq(Message)
    BY DEF Inv, Typed
  <1>5. session' = [session EXCEPT ![c] = r]
    BY <1>4, Zenon
  <1>6. Queued(r, c, received'[c], failed'[c])
    BY <1>1, <1>3 DEF Queued
  <1>7. LastNumber(r.write_queue, received'[c]) = Handed(c)
    BY <1>3 DEF Handed
  <1>8. received' \in [Connection -> Nat] /\ failed' \in [Connection -> BOOLEAN]
    BY DEF Inv, Typed
  <1>9. r.last_sequence >= session[c].last_sequence
    BY <1>2, <1>3
  <1>10. /\ inbound' \in Seq(Message) => Typed'
         /\ Identified' /\ SessionsQueue' /\ OutboundOrdered' /\ OutboundComplete'
         /\ \A d \in Connection : /\ session'[d].last_sequence \in Nat
                                  /\ session'[d].last_sequence >= session[d].last_sequence
                                  /\ d # c => session'[d] = session[d]
    <2>1. \A d \in Connection : d # c => received'[d] = received[d] /\ failed'[d] = failed[d]
      OBVIOUS
    <2>2. UNCHANGED <<accepted, next_session_id, outbound, replies, handled, addressed>>
      OBVIOUS
    <2>3. sessions' = sessions
      OBVIOUS
    <2> HIDE DEF r, m
    <2> QED
      BY ONLY Inv, <1>1, <1>3, <1>5, <1>6, <1>7, <1>8, <1>9, <2>1, <2>2, <2>3, SessionStep, Zenon
  <1>11. m \in Message
    BY <1>1 DEF Message
  <1>12. /\ m.id = c /\ m.conn = c /\ m.sequence = sequence
    BY <1>1
  <1>13. inbound' = Append(inbound, m)
    OBVIOUS
  <1> HIDE DEF m, r
  <1>14. /\ inbound' \in Seq(Message) /\ n \in Nat
         /\ DOMAIN inbound = 1 .. n /\ DOMAIN inbound' = 1 .. n + 1
         /\ inbound'[n + 1] = m
         /\ \A i \in 1 .. n : inbound'[i] = inbound[i]
    BY <1>4, <1>11, <1>13, AppendFacts
  <1>15. ASSUME NEW i \in 1 .. n
         PROVE  /\ inbound[i].conn \in Connection /\ inbound[i].sequence \in Nat
                /\ Addressed(inbound[i])
                /\ inbound[i].sequence <= session[inbound[i].conn].last_sequence
                /\ inbound[i].sequence > handled[inbound[i].conn]
                /\ \A j \in 1 .. i - 1 : inbound[j].conn = inbound[i].conn
                      => inbound[j].sequence < inbound[i].sequence
    <2>1. inbound[i] \in Message
      BY <1>4, <1>14
    <2>2. inbound[i].conn \in Connection /\ inbound[i].sequence \in Nat
      BY <2>1 DEF Message
    <2> QED BY <1>14, <2>2 DEF Inv, UnderWay, Sequenced, CommandsInOrder
  <1>16. UnderWay'
    <2>1. ASSUME NEW i \in DOMAIN inbound'
          PROVE  Addressed(inbound[i])'
      <3>1. CASE i = n + 1
        <4>1. inbound'[i] = m
          BY <1>14, <3>1
        <4>2. accepted' = accepted
          OBVIOUS
        <4> QED BY ONLY <1>1, <1>12, <4>1, <4>2 DEF Addressed
      <3>2. CASE i # n + 1
        <4>1. i \in 1 .. n
          BY <1>14, <3>2
        <4>2. inbound'[i] = inbound[i] /\ accepted' = accepted
          BY <1>14, <4>1
        <4> QED BY ONLY <1>15, <4>1, <4>2 DEF Addressed
      <3> QED BY <3>1, <3>2
    <2>2. (/\ \A i \in DOMAIN replies : Addressed(replies[i])
           /\ \A i \in DOMAIN outbound : Addressed(outbound[i]))'
      BY DEF Inv, UnderWay, Addressed
    <2> QED BY <2>1, <2>2 DEF UnderWay
  <1>17. Sequenced'
    <2>1. ASSUME NEW d \in Connection
          PROVE  handled'[d] <= session'[d].last_sequence
      <3>1. handled[d] \in Nat /\ session[d].last_sequence \in Nat
        BY DEF Inv, Typed, Session
      <3>2. handled'[d] = handled[d] /\ handled[d] <= session[d].last_sequence
        BY DEF Inv, Sequenced
      <3> QED BY ONLY <1>10, <2>1, <3>1, <3>2
    <2>2. ASSUME NEW i \in DOMAIN inbound'
          PROVE  inbound'[i].sequence <= session'[inbound'[i].conn].last_sequence
      <3>1. CASE i = n + 1
        <4>1. session'[c].last_sequence = sequence
          BY <1>3, <1>4, <1>5
        <4>2. inbound'[i] = m
          BY <1>14, <3>1
        <4>3. sequence <= sequence
          OBVIOUS
        <4> QED BY ONLY <1>12, <4>1, <4>2, <4>3
      <3>2. CASE i # n + 1
        <4>1. i \in 1 .. n
          BY <1>14, <3>2
        <4>2. session[inbound[i].conn].last_sequence \in Nat
          BY <1>4, <1>15, <4>1 DEF Session
        <4>3. inbound'[i] = inbound[i]
          BY <1>14, <4>1
        <4> QED BY ONLY <1>10, <1>15, <4>1, <4>2, <4>3
      <3> QED BY <3>1, <3>2
    <2> QED BY <2>1, <2>2, Zenon DEF Sequenced
  <1>18. CommandsInOrder'
    <2> SUFFICES ASSUME NEW i \in DOMAIN inbound'
                 PROVE  /\ inbound'[i].sequence > handled[inbound'[i].conn]
                        /\ \A j \in 1 .. i - 1 : inbound'[j].conn = inbound'[i].conn
                              => inbound'[j].sequence < inbound'[i].sequence
      BY DEF CommandsInOrder
    <2>1. CASE i = n + 1
      <3>1. handled[c] \in Nat /\ handled[c] <= session[c].last_sequence
        BY DEF Inv, Typed, Sequenced
      <3>2. ASSUME NEW j \in 1 .. i - 1, inbound'[j].conn = c
            PROVE  inbound'[j].sequence < sequence
        <4>1. j \in 1 .. n
          BY <1>14, <2>1
        <4> QED BY <1>2, <1>14, <1>15, <3>2, <4>1
      <3> QED BY <1>2, <1>12, <1>14, <2>1, <3>1, <3>2
    <2>2. CASE i # n + 1
      <3>1. i \in 1 .. n /\ \A j \in 1 .. i - 1 : j \in 1 .. n
        BY <1>14, <2>2
      <3> QED BY <1>14, <1>15, <3>1
    <2> QED BY <2>1, <2>2, Zenon
  <1> QED BY <1>10, <1>14, <1>16, <1>17, <1>18 DEF Inv

\* A command is refused or enters the queue.
LEMMA ReadCommandKeeps ==
    ASSUME Inv, NEW c \in Connection, NEW sequence \in 1 .. MaxSequence[c],
           ReadCommand(c, sequence), UNCHANGED <<engineVars, main>>
    PROVE  Inv'
  <1> DEFINE m == [id |-> session[c].id, conn |-> c, sequence |-> sequence]
  <1>1. session[c].reading # "none" /\ sequence \in Nat
    <2>1. MaxSequence[c] \in Nat
      BY BoundsAssumption DEF Connection
    <2> QED BY <2>1 DEF ReadCommand, Reading
  <1>2. UNCHANGED <<sessions, received, accepted, next_session_id, outbound, replies, handled,
                    addressed>>
    BY DEF ReadCommand, sameGateway, engineVars
  <1>3. CASE Fail(c) /\ inbound' = inbound
    BY <1>1, <1>2, <1>3, FailKeeps
  <1>4. CASE /\ ~OutOfOrder(c, sequence) /\ inbound' = Append(inbound, m)
             /\ session' = [session EXCEPT ![c].last_sequence = sequence, ![c].reading = "header"]
             /\ failed' = failed
    <2>1. session[c].last_sequence \in Nat
      BY DEF Inv, Typed, Session
    <2>2. sequence > session[c].last_sequence
      BY <1>1, <1>4, <2>1 DEF OutOfOrder
    <2> QED BY <1>1, <1>2, <1>4, <2>2, CommandEntersKeeps, Zenon
  <1>5. \/ Fail(c) /\ inbound' = inbound
        \/ /\ ~OutOfOrder(c, sequence) /\ inbound' = Append(inbound, m)
           /\ session' = [session EXCEPT ![c].last_sequence = sequence, ![c].reading = "header"]
           /\ failed' = failed
    BY DEF ReadCommand, Inbound!Accept, Inbound!Refuse, queueVars
  <1> QED BY <1>3, <1>4, <1>5

------------------------------------------------------------------------------
(* Steps of the gateway *)

\* The elements of a tail and where they were.
LEMMA TailIndices ==
    ASSUME NEW S, NEW s \in Seq(S), s # <<>>
    PROVE  /\ Tail(s) \in Seq(S) /\ 1 \in DOMAIN s /\ Head(s) = s[1] /\ s[1] \in S
           /\ \A k \in DOMAIN Tail(s) : k \in Nat /\ k + 1 \in DOMAIN s /\ Tail(s)[k] = s[k + 1]
           /\ \A k \in DOMAIN s : k # 1 => k - 1 \in DOMAIN Tail(s) /\ Tail(s)[k - 1] = s[k]
  <1> DEFINE t == Tail(s)
             n == Len(s)
  <1>1. /\ Head(s) = s[1] /\ Head(s) \in S /\ n \in Nat \ {0} /\ DOMAIN s = 1 .. n
        /\ t \in Seq(S) /\ DOMAIN t = 1 .. n - 1
        /\ \A i \in 1 .. n - 1 : t[i] = s[i + 1]
    BY TailFacts
  <1> HIDE DEF t, n
  <1>2. ASSUME NEW k \in DOMAIN s, k # 1
        PROVE  k - 1 \in DOMAIN t /\ t[k - 1] = s[k]
    <2>1. k - 1 \in 1 .. n - 1 /\ (k - 1) + 1 = k
      BY <1>1, <1>2
    <2>2. t[k - 1] = s[(k - 1) + 1]
      BY <1>1, <2>1
    <2> QED BY <1>1, <2>1, <2>2
  <1>3. ASSUME NEW k \in DOMAIN t
        PROVE  k \in Nat /\ k + 1 \in DOMAIN s /\ t[k] = s[k + 1]
    BY <1>1
  <1>4. 1 \in DOMAIN s
    BY <1>1
  <1> QED BY <1>1, <1>2, <1>3, <1>4 DEF t

\* send_raw_frame() on an open session.
LEMMA FrameQueued ==
    ASSUME NEW s \in Session, NEW f \in Frame, s.open
    PROVE  LET r == SendRawFrame(s, f) IN
           /\ r \in Session /\ r.id = s.id /\ r.open = s.open
           /\ r.last_sequence = s.last_sequence /\ r.reading = s.reading
           /\ r.write_queue = Append(s.write_queue, f)
  <1> DEFINE q == Append(s.write_queue, f)
             w == s.writing \/ s.write_queue = <<>>
  <1>1. q \in Seq(Frame)
    BY AppendFacts DEF Session
  <1>2. w \in BOOLEAN
    BY DEF Session
  <1>3. SendRawFrame(s, f) = [s EXCEPT !.write_queue = q, !.writing = w]
    BY DEF SendRawFrame, Session
  <1> HIDE DEF q, w
  <1>4. LET r == [s EXCEPT !.write_queue = q, !.writing = w] IN
        /\ r \in Session /\ r.id = s.id /\ r.open = s.open
        /\ r.last_sequence = s.last_sequence /\ r.reading = s.reading
        /\ r.write_queue = q
    BY <1>1, <1>2, Zenon DEF Session
  <1> QED BY <1>3, <1>4, Zenon DEF q

\* send_raw_frame() of the next response.
LEMMA ResponseQueued ==
    ASSUME NEW s \in Session, s.open, NEW m \in Response, NEW c, NEW read \in Nat, NEW error,
           Queued(s, c, read, error), m.conn = c, m.number = LastNumber(s.write_queue, read) + 1
    PROVE  LET r == SendRawFrame(s, m) IN
           /\ r \in Session /\ r.id = s.id /\ r.open = s.open
           /\ r.last_sequence = s.last_sequence
           /\ Queued(r, c, read, error)
           /\ LastNumber(r.write_queue, read) = LastNumber(s.write_queue, read) + 1
  <1> DEFINE q == s.write_queue
             r == SendRawFrame(s, m)
             t == Append(q, m)
             n == Len(q)
  <1>1. q \in Seq(Frame)
    BY DEF Session
  <1>2. Numbered(q, c, read) /\ OneError(q)
    BY DEF Queued
  <1>3. m \in Frame /\ IsResponse(m)
    BY FrameKinds
  <1>4. /\ r \in Session /\ r.id = s.id /\ r.open = s.open
        /\ r.last_sequence = s.last_sequence /\ r.reading = s.reading
        /\ r.write_queue = t
    BY <1>3, FrameQueued, Zenon
  <1>5. \A i \in DOMAIN q : ~IsResponse(q[i]) => error
    BY DEF Queued
  <1>6. error => s.reading = "none"
    BY DEF Queued
  <1> HIDE DEF q, r
  <1>7. /\ Numbered(t, c, read) /\ OneError(t)
        /\ LastNumber(t, read) = LastNumber(q, read) + 1
    BY <1>1, <1>2, QueueResponse DEF q
  <1>8. /\ t # <<>> /\ n \in Nat /\ DOMAIN q = 1 .. n /\ DOMAIN t = 1 .. n + 1
        /\ t[n + 1] = m /\ \A i \in 1 .. n : t[i] = q[i]
    <2>1. q \in Seq(Frame) /\ m \in Frame /\ n \in Nat /\ DOMAIN q = 1 .. n
      BY <1>1, <1>3
    <2> QED BY ONLY <2>1, AppendFacts
  <1> HIDE DEF t, n
  <1>9. ASSUME NEW i \in DOMAIN t, ~IsResponse(t[i])
        PROVE  error
    <2>1. i # n + 1
      BY <1>3, <1>8, <1>9
    <2>2. i \in 1 .. n
      BY <1>8, <2>1
    <2> QED BY <1>5, <1>8, <1>9, <2>2
  <1>10. Queued(r, c, read, error)
    BY <1>4, <1>6, <1>7, <1>8, <1>9, Zenon DEF Queued
  <1> QED BY <1>4, <1>7, <1>10 DEF q, r

\* The session a registered connection is registered under is its own.
LEMMA RegisteredOwn ==
    ASSUME Inv, NEW d \in Connection, Registered(d)
    PROVE  d <= accepted /\ session[d].id = d /\ session[d].open /\ sessions[d] = d
  <1>1. d <= accepted
    <2>1. accepted \in Nat /\ d \in Nat
      BY ConnectionFacts DEF Inv, Typed
    <2>2. d > accepted => session[d] = NewSession
      BY DEF Inv, Identified
    <2>3. ~NewSession.open
      BY DEF NewSession
    <2> QED BY <2>1, <2>2, <2>3 DEF Registered
  <1>2. session[d].id = d
    BY <1>1 DEF Inv, Identified
  <1> QED BY <1>1, <1>2 DEF Registered

\* What is known of the oldest message of the outbound queue.
LEMMA OldestResponse ==
    ASSUME Inv, outbound # <<>>
    PROVE  LET m == Head(outbound) IN
           /\ m \in Response /\ m.conn \in Connection /\ m.conn <= accepted
           /\ \A d \in Connection : d \in Receivers(m) <=> d = m.conn /\ Registered(m.conn)
           /\ Registered(m.conn) => m.number = Handed(m.conn) + 1
  <1> DEFINE m == Head(outbound)
             c == m.conn
  <1>1. /\ outbound \in Seq(Response) /\ addressed \in [Connection -> Nat]
    BY DEF Inv, Typed
  <1>2. 1 \in DOMAIN outbound /\ m = outbound[1] /\ m \in Response
    BY <1>1, TailIndices
  <1>3. c \in Connection /\ m.number \in Nat
    BY <1>2 DEF Response
  <1>4. m.id = c /\ c <= accepted
    BY <1>2 DEF Inv, UnderWay, Addressed
  <1>5. ASSUME NEW d \in Connection
        PROVE  d \in Receivers(m) <=> d = c /\ Registered(c)
    <2>1. Registered(d) => session[d].id = d
      BY RegisteredOwn
    <2>2. d \in Receivers(m) <=> Registered(d) /\ c \in {0, session[d].id}
      BY <1>4 DEF Receivers
    <2>3. c # 0
      BY <1>3, ConnectionFacts
    <2> QED BY <2>1, <2>2, <2>3
  <1>6. ASSUME Registered(c)
        PROVE  m.number = Handed(c) + 1
    <2>1. /\ \A n \in Handed(c) + 1 .. addressed[c] :
                \E k \in DOMAIN outbound : outbound[k].conn = c /\ outbound[k].number = n
          /\ m.number > Handed(c)
      BY <1>2, <1>3, <1>6 DEF Inv, OutboundComplete
    <2>2. m.number <= addressed[c] /\ addressed[c] \in Nat
      BY <1>1, <1>2, <1>3 DEF Inv, OutboundOrdered
    <2>3. Handed(c) \in Nat
      <3>1. session[c].write_queue \in Seq(Frame) /\ received[c] \in Nat
        BY <1>3 DEF Inv, Typed, Session
      <3> QED BY <3>1, LastNumberNat DEF Handed
    <2>4. Handed(c) + 1 \in Handed(c) + 1 .. addressed[c]
      BY <1>3, <2>1, <2>2, <2>3
    <2>5. PICK k \in DOMAIN outbound : outbound[k].conn = c /\ outbound[k].number = Handed(c) + 1
      BY <2>1, <2>4
    <2>6. k \in Nat /\ 1 <= k
      BY <1>1
    <2>7. 1 < k => m.number < Handed(c) + 1
      BY <1>2, <2>5, <2>6 DEF Inv, OutboundOrdered
    <2>8. k = 1
      BY <1>3, <2>1, <2>3, <2>6, <2>7
    <2> QED BY <1>2, <2>5, <2>8
  <1> QED BY <1>2, <1>3, <1>4, <1>5, <1>6

\* poll_outbound() hands the oldest message over: it is the next one for its
\* session, or its session is gone.
LEMMA PollOutboundKeeps ==
    ASSUME Inv, PollOutbound, UNCHANGED <<engineVars, main>>
    PROVE  Inv'
  <1> DEFINE m == Head(outbound)
             c == m.conn
             s == session[c]
             q == s.write_queue
             r == SendRawFrame(s, m)
  <1>1. outbound # <<>> /\ outbound' = Tail(outbound)
    BY DEF PollOutbound
  <1>2. UNCHANGED <<sessions, next_session_id, accepted, inbound, failed, received, replies,
                    handled, addressed>>
    BY DEF PollOutbound, queueVars, clientVars, engineVars
  <1>3. /\ m \in Response /\ c \in Connection
        /\ \A d \in Connection : d \in Receivers(m) <=> d = c /\ Registered(c)
        /\ Registered(c) => m.number = Handed(c) + 1
    BY <1>1, OldestResponse
  <1>4. /\ session \in [Connection -> Session] /\ outbound \in Seq(Response)
        /\ received \in [Connection -> Nat]
    BY DEF Inv, Typed
  <1>5. /\ outbound' \in Seq(Response) /\ 1 \in DOMAIN outbound /\ m = outbound[1]
        /\ \A k \in DOMAIN outbound' :
              k \in Nat /\ k + 1 \in DOMAIN outbound /\ outbound'[k] = outbound[k + 1]
        /\ \A k \in DOMAIN outbound :
              k # 1 => k - 1 \in DOMAIN outbound' /\ outbound'[k - 1] = outbound[k]
    BY <1>1, <1>4, TailIndices
  <1>6. session' = IF Registered(c) THEN [session EXCEPT ![c] = r] ELSE session
    <2>1. session' = [d \in Connection |-> IF d \in Receivers(m) THEN SendRawFrame(session[d], m)
                                           ELSE session[d]]
      BY DEF PollOutbound
    <2>2. ASSUME NEW d \in Connection
          PROVE  session'[d] = IF d = c /\ Registered(c) THEN r ELSE session[d]
      BY <1>3, <2>1, <2>2
    <2> QED BY <1>3, <1>4, <2>1, <2>2, Zenon
  <1>7. ASSUME Registered(c)
        PROVE  /\ r \in Session /\ r.id = s.id /\ r.open = s.open
               /\ r.last_sequence = s.last_sequence
               /\ Queued(r, c, received[c], failed[c])
               /\ LastNumber(r.write_queue, received[c]) = Handed(c) + 1
    <2>1. s.open /\ s \in Session /\ received[c] \in Nat
      BY <1>3, <1>4, <1>7 DEF Registered
    <2>2. Queued(s, c, received[c], failed[c])
      BY <1>3 DEF Inv, SessionsQueue
    <2>3. m.number = LastNumber(s.write_queue, received[c]) + 1
      BY <1>3, <1>7 DEF Handed
    <2>4. Handed(c) = LastNumber(s.write_queue, received[c])
      BY DEF Handed
    <2> HIDE DEF m, s
    <2> QED BY <1>3, <2>1, <2>2, <2>3, <2>4, ResponseQueued, Zenon DEF c
  <1> HIDE DEF r
  <1>8. /\ session' \in [Connection -> Session]
        /\ \A d \in Connection : /\ session'[d].last_sequence = session[d].last_sequence
                                 /\ session'[d].open = session[d].open
                                 /\ session'[d].id = session[d].id
                                 /\ d # c => session'[d] = session[d]
        /\ Registered(c) => session'[c] = r
        /\ ~Registered(c) => session' = session
    BY <1>3, <1>4, <1>6, <1>7
  <1>9. Typed'
    BY <1>2, <1>5, <1>8 DEF Inv, Typed
  <1>10. UnderWay'
    <2>1. (\A i \in DOMAIN outbound : Addressed(outbound[i]))'
      BY <1>2, <1>5 DEF Inv, UnderWay, Addressed
    <2> QED BY <1>2, <2>1 DEF Inv, UnderWay, Addressed
  <1>11. Sequenced' /\ CommandsInOrder'
    <2>1. \A d \in Connection : session[d].last_sequence \in Nat
      BY <1>4 DEF Session
    <2>2. \A d \in Connection : /\ session'[d].last_sequence \in Nat
                                /\ session'[d].last_sequence >= session[d].last_sequence
      BY ONLY <1>8, <2>1
    <2>3. UNCHANGED <<inbound, handled>>
      BY <1>2
    <2> QED BY <2>2, <2>3, InboundKept
  <1>12. Identified'
    <2> SUFFICES ASSUME NEW d \in Connection
                 PROVE  /\ sessions[d] \in {0, d}
                        /\ d <= accepted => session'[d].id = d
                        /\ d > accepted => /\ session'[d] = NewSession /\ ~failed[d]
                                           /\ handled[d] = 0 /\ addressed[d] = 0 /\ received[d] = 0
      BY <1>2 DEF Identified
    <2>1. d > accepted => d # c
      <3>1. c <= accepted
        BY <1>1, OldestResponse
      <3>2. accepted \in Nat /\ c \in Nat /\ d \in Nat
        BY <1>3, ConnectionFacts DEF Inv, Typed
      <3> QED BY <3>1, <3>2
    <2>2. session'[d].id = session[d].id /\ (d # c => session'[d] = session[d])
      BY <1>8
    <2> QED BY <2>1, <2>2 DEF Inv, Identified
  <1>13. SessionsQueue'
    <2> SUFFICES ASSUME NEW d \in Connection
                 PROVE  Queued(session'[d], d, received[d], failed[d])
      BY <1>2 DEF SessionsQueue
    <2>1. CASE d = c /\ Registered(c)
      BY <1>7, <1>8, <2>1
    <2>2. CASE ~(d = c /\ Registered(c))
      <3>1. session'[d] = session[d]
        BY <1>8, <2>2
      <3> QED BY <3>1 DEF Inv, SessionsQueue
    <2> QED BY <2>1, <2>2
  <1>14. OutboundOrdered'
    <2>1. ASSUME NEW i \in DOMAIN outbound'
          PROVE  outbound'[i].number <= addressed'[outbound'[i].conn]
      BY <1>2, <1>5 DEF Inv, OutboundOrdered
    <2>2. ASSUME NEW i \in DOMAIN outbound', NEW j \in DOMAIN outbound', i < j,
                 outbound'[i].conn = outbound'[j].conn
          PROVE  outbound'[i].number < outbound'[j].number
      <3>1. i + 1 \in DOMAIN outbound /\ j + 1 \in DOMAIN outbound /\ i + 1 < j + 1
        BY <1>5, <2>2
      <3>2. outbound'[i] = outbound[i + 1] /\ outbound'[j] = outbound[j + 1]
        BY <1>5
      <3> QED BY <2>2, <3>1, <3>2 DEF Inv, OutboundOrdered
    <2> QED BY <2>1, <2>2 DEF OutboundOrdered
  <1>15. OutboundComplete'
    <2> SUFFICES ASSUME NEW d \in Connection, Registered(d)'
                 PROVE  /\ Handed(d)' <= addressed[d]
                        /\ \A n \in Handed(d)' + 1 .. addressed[d] :
                              \E k \in DOMAIN outbound' :
                                 outbound'[k].conn = d /\ outbound'[k].number = n
                        /\ \A k \in DOMAIN outbound' :
                              outbound'[k].conn = d => outbound'[k].number > Handed(d)'
      BY <1>2 DEF OutboundComplete
    <2>1. Registered(d)
      BY <1>2, <1>8 DEF Registered
    <2>2. /\ Handed(d) <= addressed[d]
          /\ \A n \in Handed(d) + 1 .. addressed[d] :
                \E k \in DOMAIN outbound : outbound[k].conn = d /\ outbound[k].number = n
          /\ \A k \in DOMAIN outbound : outbound[k].conn = d => outbound[k].number > Handed(d)
      BY <2>1 DEF Inv, OutboundComplete
    <2>3. /\ addressed[d] \in Nat /\ Handed(d) \in Nat
      <3>1. addressed[d] \in Nat /\ received[d] \in Nat /\ session[d].write_queue \in Seq(Frame)
        BY DEF Inv, Typed, Session
      <3> QED BY <3>1, LastNumberNat, Zenon DEF Handed
    <2>4. CASE d = c
      <3>1. Handed(d)' = Handed(d) + 1
        BY <1>2, <1>7, <1>8, <2>1, <2>4 DEF Handed
      <3>2. m.number = Handed(d) + 1
        BY <1>3, <2>1, <2>4
      <3>3. Handed(d) + 1 <= addressed[d]
        BY <1>5, <2>4, <3>2 DEF Inv, OutboundOrdered
      <3>4. ASSUME NEW n \in (Handed(d) + 1) + 1 .. addressed[d]
            PROVE  \E k \in DOMAIN outbound' : outbound'[k].conn = d /\ outbound'[k].number = n
        <4>1. n \in Handed(d) + 1 .. addressed[d] /\ n # Handed(d) + 1
          BY <2>3
        <4>2. PICK k \in DOMAIN outbound : outbound[k].conn = d /\ outbound[k].number = n
          BY <2>2, <4>1
        <4>3. k # 1
          BY <1>5, <3>2, <4>1, <4>2
        <4> QED BY <1>5, <4>2, <4>3
      <3>5. ASSUME NEW k \in DOMAIN outbound', outbound'[k].conn = d
            PROVE  outbound'[k].number > Handed(d) + 1
        <4>1. k \in Nat /\ k + 1 \in DOMAIN outbound /\ outbound'[k] = outbound[k + 1]
          BY <1>5
        <4>2. k # 0
          <5>1. DOMAIN outbound' = 1 .. Len(outbound')
            BY <1>5
          <5> QED BY <5>1
        <4>3. 1 < k + 1 /\ outbound[1].conn = outbound[k + 1].conn
          BY <1>5, <2>4, <3>5, <4>1, <4>2
        <4>4. outbound[1].number < outbound[k + 1].number
          BY <1>5, <4>1, <4>3 DEF Inv, OutboundOrdered
        <4>5. outbound[k + 1] \in Response
          BY <1>4, <4>1
        <4>6. outbound[k + 1].number \in Nat
          BY <4>5 DEF Response
        <4> QED BY <1>5, <2>3, <3>2, <4>1, <4>4, <4>6
      <3> QED BY <3>1, <3>3, <3>4, <3>5
    <2>5. CASE d # c
      <3>1. Handed(d)' = Handed(d)
        BY <1>2, <1>8, <2>5 DEF Handed
      <3>2. ASSUME NEW n \in Handed(d) + 1 .. addressed[d]
            PROVE  \E k \in DOMAIN outbound' : outbound'[k].conn = d /\ outbound'[k].number = n
        <4>1. PICK k \in DOMAIN outbound : outbound[k].conn = d /\ outbound[k].number = n
          BY <2>2
        <4>2. k # 1
          BY <1>5, <2>5, <4>1
        <4> QED BY <1>5, <4>1, <4>2
      <3>3. ASSUME NEW k \in DOMAIN outbound', outbound'[k].conn = d
            PROVE  outbound'[k].number > Handed(d)
        BY <1>5, <2>2, <3>3
      <3> QED BY <2>2, <3>1, <3>2, <3>3
    <2> QED BY <2>4, <2>5
  <1> QED BY <1>9, <1>10, <1>11, <1>12, <1>13, <1>14, <1>15 DEF Inv

\* stop() forgets every session, so that nothing is registered any more.
LEMMA StopKeeps ==
    ASSUME Inv, Stop, UNCHANGED <<engineVars, main>>
    PROVE  Inv'
  <1>1. /\ session' = [c \in Connection |-> IF Registered(c) THEN Close(session[c]) ELSE session[c]]
        /\ sessions' = [id \in Connection |-> 0]
        /\ UNCHANGED <<next_session_id, accepted, inbound, outbound, failed, received, replies,
                       handled, addressed>>
    BY DEF Stop, queueVars, clientVars, engineVars
  <1>2. session \in [Connection -> Session]
    BY DEF Inv, Typed
  <1>3. ASSUME NEW d \in Connection
        PROVE  /\ session'[d] \in Session
               /\ session'[d].id = session[d].id
               /\ session'[d].write_queue = session[d].write_queue
               /\ session'[d].reading = session[d].reading
               /\ session'[d].writing = session[d].writing
               /\ session'[d].last_sequence = session[d].last_sequence
               /\ ~Registered(d) => session'[d] = session[d]
    <2>1. session[d] \in Session
      BY <1>2
    <2>2. CASE Registered(d)
      <3>1. session'[d] = [session[d] EXCEPT !.open = FALSE]
        BY <1>1, <2>2 DEF Close
      <3> QED BY <2>1, <2>2, <3>1, Zenon DEF Session
    <2>3. CASE ~Registered(d)
      <3>1. session'[d] = session[d]
        BY <1>1, <2>3
      <3> QED BY <2>1, <3>1
    <2> QED BY <2>2, <2>3
  <1>4. Typed'
    <2>1. session' \in [Connection -> Session]
      BY <1>1, <1>3
    <2>2. sessions' \in [Connection -> 0 .. MaxConnections]
      BY <1>1, ConnectionFacts
    <2> QED BY <1>1, <2>1, <2>2 DEF Inv, Typed
  <1>5. Identified'
    <2> SUFFICES ASSUME NEW d \in Connection
                 PROVE  /\ sessions'[d] \in {0, d}
                        /\ d <= accepted => session'[d].id = d
                        /\ d > accepted => /\ session'[d] = NewSession /\ ~failed[d]
                                           /\ handled[d] = 0 /\ addressed[d] = 0 /\ received[d] = 0
      BY <1>1 DEF Identified
    <2>1. d > accepted => session[d] = NewSession
      BY DEF Inv, Identified
    <2>2. ~NewSession.open
      BY DEF NewSession
    <2>3. d > accepted => ~Registered(d)
      BY <2>1, <2>2 DEF Registered
    <2> QED BY <1>1, <1>3, <2>3 DEF Inv, Identified
  <1>6. UnderWay'
    BY <1>1 DEF Inv, UnderWay, Addressed
  <1>7. Sequenced' /\ CommandsInOrder'
    <2>1. \A d \in Connection : session[d].last_sequence \in Nat
      BY <1>2 DEF Session
    <2>2. \A d \in Connection : /\ session'[d].last_sequence \in Nat
                                /\ session'[d].last_sequence >= session[d].last_sequence
      BY ONLY <1>3, <2>1
    <2>3. UNCHANGED <<inbound, handled>>
      BY <1>1
    <2> QED BY <2>2, <2>3, InboundKept
  <1>8. SessionsQueue'
    <2> SUFFICES ASSUME NEW d \in Connection
                 PROVE  Queued(session'[d], d, received[d], failed[d])
      BY <1>1 DEF SessionsQueue
    <2>1. Queued(session[d], d, received[d], failed[d])
      BY DEF Inv, SessionsQueue
    <2> QED BY <1>3, <2>1 DEF Queued
  <1>9. OutboundOrdered'
    BY <1>1 DEF Inv, OutboundOrdered
  <1>10. OutboundComplete'
    <2> SUFFICES ASSUME NEW d \in Connection
                 PROVE  ~Registered(d)'
      BY DEF OutboundComplete
    <2>1. session'[d].open => session'[d].id = d
      <3>1. accepted \in Nat /\ d \in Nat
        BY ConnectionFacts DEF Inv, Typed
      <3>2. d > accepted => session'[d] = NewSession
        BY <1>1, <1>5 DEF Identified
      <3>3. d <= accepted => session'[d].id = d
        BY <1>1, <1>5 DEF Identified
      <3> QED BY <3>1, <3>2, <3>3 DEF NewSession
    <2> QED BY <1>1, <2>1, ConnectionFacts DEF Registered
  <1> QED BY <1>4, <1>5, <1>6, <1>7, <1>8, <1>9, <1>10 DEF Inv

\* do_accept(): the session is registered under a number nobody had before, and
\* starts with nothing.
LEMMA AcceptKeeps ==
    ASSUME Inv, Accept, UNCHANGED <<engineVars, main>>
    PROVE  Inv'
  <1> DEFINE c == accepted + 1
             r == [NewSession EXCEPT !.id = c, !.open = TRUE, !.reading = "header"]
  <1>1. /\ accepted \in Nat /\ c \in Connection /\ c \in Nat /\ next_session_id = c
        /\ c \in 0 .. MaxConnections
    BY ConnectionFacts DEF Inv, Typed, Accept, Connection
  <1>2. /\ session \in [Connection -> Session]
        /\ sessions \in [Connection -> 0 .. MaxConnections]
    BY DEF Inv, Typed
  <1>3. /\ accepted' = c /\ next_session_id' = c + 1
        /\ sessions' = [sessions EXCEPT ![c] = c]
        /\ session' = [session EXCEPT ![c] = r]
    BY <1>1 DEF Accept, NextSessionId
  <1>4. UNCHANGED <<inbound, outbound, failed, received, replies, handled, addressed>>
    BY DEF Accept, queueVars, clientVars, engineVars
  <1>5. /\ r \in Session /\ r.id = c /\ r.open /\ r.write_queue = <<>>
        /\ r.last_sequence = 0 /\ r.writing = FALSE
    <2>1. <<>> \in Seq(Frame)
      OBVIOUS
    <2> QED BY <1>1, <2>1, Zenon DEF Session, NewSession
  <1> HIDE DEF r
  <1>6. /\ session[c] = NewSession /\ ~failed[c]
        /\ handled[c] = 0 /\ addressed[c] = 0 /\ received[c] = 0
    <2>1. c > accepted
      BY <1>1
    <2> QED BY <1>1, <2>1 DEF Inv, Identified
  <1>7. /\ session'[c] = r /\ sessions'[c] = c
        /\ session' \in [Connection -> Session]
        /\ sessions' \in [Connection -> 0 .. MaxConnections]
        /\ \A d \in Connection : d # c => session'[d] = session[d] /\ sessions'[d] = sessions[d]
    BY <1>1, <1>2, <1>3, <1>5
  <1>8. Typed'
    BY <1>1, <1>3, <1>4, <1>7 DEF Inv, Typed
  <1>9. Identified'
    <2> SUFFICES ASSUME NEW d \in Connection
                 PROVE  /\ sessions'[d] \in {0, d}
                        /\ d <= c => session'[d].id = d
                        /\ d > c => /\ session'[d] = NewSession /\ ~failed[d]
                                    /\ handled[d] = 0 /\ addressed[d] = 0 /\ received[d] = 0
      BY <1>3, <1>4 DEF Identified
    <2>1. CASE d = c
      BY <1>1, <1>5, <1>7, <2>1
    <2>2. CASE d # c
      <3>1. d \in Nat
        BY ConnectionFacts
      <3>2. (d <= c => d <= accepted) /\ (d > c => d > accepted)
        BY <1>1, <2>2, <3>1
      <3> QED BY <1>7, <2>2, <3>2 DEF Inv, Identified
    <2> QED BY <2>1, <2>2
  <1>10. UnderWay'
    <2>1. ASSUME NEW m, m.conn \in Connection, Addressed(m)
          PROVE  Addressed(m)'
      <3>1. m.conn \in Nat
        BY <2>1, ConnectionFacts
      <3> QED BY <1>1, <1>3, <2>1, <3>1 DEF Addressed
    <2>2. \A i \in DOMAIN inbound : inbound[i] \in Message
      BY DEF Inv, Typed
    <2>3. \A i \in DOMAIN replies : replies[i] \in ReplyMessage
      BY DEF Inv, Typed
    <2>4. \A i \in DOMAIN outbound : outbound[i] \in Response
      BY DEF Inv, Typed
    <2>5. /\ \A i \in DOMAIN inbound : inbound[i].conn \in Connection
          /\ \A i \in DOMAIN replies : replies[i].conn \in Connection
          /\ \A i \in DOMAIN outbound : outbound[i].conn \in Connection
      BY <2>2, <2>3, <2>4 DEF Message, ReplyMessage, Response
    <2> QED BY <1>4, <2>1, <2>5 DEF Inv, UnderWay, Addressed
  <1>11. ASSUME NEW s, NEW i \in DOMAIN s, s[i].conn \in Connection, Addressed(s[i])
         PROVE  s[i].conn # c
    BY <1>1, <1>11, ConnectionFacts DEF Addressed
  <1>12. Sequenced' /\ CommandsInOrder'
    <2>1. \A d \in Connection : session[d].last_sequence \in Nat
      BY <1>2 DEF Session
    <2>2. session[c].last_sequence = 0
      <3>1. NewSession.last_sequence = 0
        BY DEF NewSession
      <3> QED BY <1>6, <3>1
    <2>3. \A d \in Connection : session'[d].last_sequence = session[d].last_sequence
      BY <1>5, <1>7, <2>2
    <2>4. \A d \in Connection : /\ session'[d].last_sequence \in Nat
                                /\ session'[d].last_sequence >= session[d].last_sequence
      BY ONLY <2>1, <2>3
    <2>5. UNCHANGED <<inbound, handled>>
      BY <1>4
    <2> QED BY <2>4, <2>5, InboundKept
  <1>13. SessionsQueue'
    <2> SUFFICES ASSUME NEW d \in Connection
                 PROVE  Queued(session'[d], d, received[d], failed[d])
      BY <1>4 DEF SessionsQueue
    <2>1. CASE d = c
      <3>1. /\ session'[d].write_queue = <<>> /\ ~session'[d].writing /\ ~failed[d]
        BY <1>5, <1>6, <1>7, <2>1
      <3>2. DOMAIN <<>> = {}
        OBVIOUS
      <3> QED BY ONLY <3>1, <3>2 DEF Queued, Numbered, OneError
    <2>2. CASE d # c
      BY <1>7, <2>2 DEF Inv, SessionsQueue
    <2> QED BY <2>1, <2>2
  <1>14. OutboundOrdered'
    BY <1>4 DEF Inv, OutboundOrdered
  <1>15. OutboundComplete'
    <2> SUFFICES ASSUME NEW d \in Connection, Registered(d)'
                 PROVE  /\ Handed(d)' <= addressed[d]
                        /\ \A n \in Handed(d)' + 1 .. addressed[d] :
                              \E k \in DOMAIN outbound :
                                 outbound[k].conn = d /\ outbound[k].number = n
                        /\ \A k \in DOMAIN outbound :
                              outbound[k].conn = d => outbound[k].number > Handed(d)'
      BY <1>4 DEF OutboundComplete
    <2>1. CASE d = c
      <3>1. Handed(d)' = 0
        <4>1. session'[d].write_queue = <<>> /\ received'[d] = 0
          BY <1>4, <1>5, <1>6, <1>7, <2>1
        <4>2. LastNumber(<<>>, 0) = 0
          <5>1. Len(<<>>) = 0 /\ 1 .. (0 + 1) - 1 = {}
            OBVIOUS
          <5>2. ErrorsBefore(<<>>, 0 + 1) = 0
            BY <5>1 DEF ErrorsBefore
          <5> QED BY <5>1, <5>2 DEF LastNumber
        <4> QED BY <4>1, <4>2 DEF Handed
      <3>2. \A k \in DOMAIN outbound : outbound[k].conn \in Connection
        <4>1. \A k \in DOMAIN outbound : outbound[k] \in Response
          BY DEF Inv, Typed
        <4> QED BY <4>1 DEF Response
      <3>3. \A k \in DOMAIN outbound : outbound[k].conn # c
        BY <1>11, <3>2 DEF Inv, UnderWay
      <3> QED BY <1>6, <2>1, <3>1, <3>3
    <2>2. CASE d # c
      <3>1. session'[d] = session[d] /\ received' = received
        BY <1>4, <1>7, <2>2
      <3>2. Handed(d)' = Handed(d)
        BY <3>1 DEF Handed
      <3>3. session[d].open
        BY <3>1 DEF Registered
      <3>4. session[d].id = d
        <4>1. accepted \in Nat /\ d \in Nat
          BY ConnectionFacts DEF Inv, Typed
        <4>2. d > accepted => session[d] = NewSession
          BY DEF Inv, Identified
        <4>3. d <= accepted
          BY <3>3, <4>1, <4>2 DEF NewSession
        <4> QED BY <4>3 DEF Inv, Identified
      <3>5. Registered(d)
        BY <1>7, <2>2, <3>1, <3>3, <3>4 DEF Registered
      <3> QED BY <3>2, <3>5 DEF Inv, OutboundComplete
    <2> QED BY <2>1, <2>2
  <1> QED BY <1>8, <1>9, <1>10, <1>12, <1>13, <1>14, <1>15 DEF Inv

------------------------------------------------------------------------------
(* Steps of the engine *)

\* The responses to a command go to connections that were accepted: its own, and
\* that of an owner, which had a command handled.
LEMMA AnswersAddressed ==
    ASSUME Inv, NEW m \in Message, Addressed(m), NEW a \in Answers(m)
    PROVE  a \in Seq(ReplyMessage) /\ \A i \in DOMAIN a : Addressed(a[i])
  <1> DEFINE terminal == Reply(m, m.sequence, TRUE)
             trade(o) == Reply(o, m.sequence, FALSE)
  <1>1. ASSUME NEW o, o.id \in Connection, o.conn \in Connection, Addressed(o),
               NEW b \in BOOLEAN
        PROVE  Reply(o, m.sequence, b) \in ReplyMessage /\ Addressed(Reply(o, m.sequence, b))
    BY <1>1 DEF Reply, ReplyMessage, Addressed, Message
  <1>2. m.id \in Connection /\ m.conn \in Connection
    BY DEF Message
  <1>3. /\ terminal \in ReplyMessage /\ Addressed(terminal)
        /\ trade(m) \in ReplyMessage /\ Addressed(trade(m))
    BY <1>1, <1>2, Zenon
  <1>4. ASSUME NEW o \in Owners
        PROVE  trade(o) \in ReplyMessage /\ Addressed(trade(o))
    <2>1. PICK d \in Connection : handled[d] > 0 /\ o = [id |-> session[d].id, conn |-> d]
      BY DEF Owners
    <2>2. accepted \in Nat /\ d \in Nat
      BY ConnectionFacts DEF Inv, Typed
    <2>3. ~(d > accepted)
      <3>1. d > accepted => handled[d] = 0
        BY DEF Inv, Identified
      <3> QED BY <2>1, <3>1
    <2>4. d <= accepted
      BY <2>2, <2>3
    <2>5. session[d].id = d
      BY <2>4 DEF Inv, Identified
    <2>6. o.id = d /\ o.conn = d
      BY <2>1, <2>5
    <2> QED BY <1>1, <2>4, <2>6, Zenon DEF Addressed
  <1>5. \/ a = <<terminal>>
        \/ \E o \in Owners :
              a = <<trade(m)>> \o (IF o.conn = m.conn THEN <<>> ELSE <<trade(o)>>) \o <<terminal>>
    BY Zenon DEF Answers
  <1> HIDE DEF terminal, trade
  <1>6. CASE a = <<terminal>>
    BY <1>3, <1>6
  <1>7. ASSUME NEW o \in Owners,
               a = <<trade(m)>> \o (IF o.conn = m.conn THEN <<>> ELSE <<trade(o)>>) \o <<terminal>>
        PROVE  a \in Seq(ReplyMessage) /\ \A i \in DOMAIN a : Addressed(a[i])
    <2>1. CASE o.conn = m.conn
      <3>1. /\ a \in Seq(ReplyMessage) /\ Len(a) = 2 /\ DOMAIN a = 1 .. Len(a)
            /\ a[1] = trade(m) /\ a[2] = terminal
        BY <1>3, <1>7, <2>1
      <3> QED BY <1>3, <3>1
    <2>2. CASE o.conn # m.conn
      <3>1. /\ a \in Seq(ReplyMessage) /\ Len(a) = 3 /\ DOMAIN a = 1 .. Len(a)
            /\ a[1] = trade(m) /\ a[2] = trade(o) /\ a[3] = terminal
        BY <1>3, <1>4, <1>7, <2>2
      <3> QED BY <1>3, <1>4, <3>1
    <2> QED BY <2>1, <2>2
  <1> QED BY <1>5, <1>6, <1>7, Zenon

\* A step that touches neither the sessions nor the outbound queue.
LEMMA OutboundCompleteKept ==
    ASSUME OutboundComplete, UNCHANGED <<sessions, session, received, outbound, addressed>>
    PROVE  OutboundComplete'
  <1> SUFFICES ASSUME NEW d \in Connection, Registered(d)'
               PROVE  /\ Handed(d)' <= addressed'[d]
                      /\ \A n \in Handed(d)' + 1 .. addressed'[d] :
                            \E k \in DOMAIN outbound' :
                               outbound'[k].conn = d /\ outbound'[k].number = n
                      /\ \A k \in DOMAIN outbound' :
                            outbound'[k].conn = d => outbound'[k].number > Handed(d)'
    BY Zenon DEF OutboundComplete
  <1>1. Handed(d)' = Handed(d) /\ Registered(d)
    BY Zenon DEF Handed, Registered
  <1>2. outbound' = outbound /\ addressed' = addressed
    OBVIOUS
  <1>3. /\ Handed(d) <= addressed[d]
        /\ \A n \in Handed(d) + 1 .. addressed[d] :
              \E k \in DOMAIN outbound : outbound[k].conn = d /\ outbound[k].number = n
        /\ \A k \in DOMAIN outbound : outbound[k].conn = d => outbound[k].number > Handed(d)
    BY <1>1, Zenon DEF OutboundComplete
  <1>4. ASSUME NEW n \in Handed(d)' + 1 .. addressed'[d]
        PROVE  \E k \in DOMAIN outbound' :
                  outbound'[k].conn = d /\ outbound'[k].number = n
    <2>1. n \in Handed(d) + 1 .. addressed[d]
      BY ONLY <1>1, <1>2, <1>4
    <2>2. PICK k \in DOMAIN outbound : outbound[k].conn = d /\ outbound[k].number = n
      BY ONLY <1>3, <2>1, Zenon
    <2> QED BY ONLY <1>2, <2>2, Zenon
  <1>5. ASSUME NEW k \in DOMAIN outbound', outbound'[k].conn = d
        PROVE  outbound'[k].number > Handed(d)'
    BY ONLY <1>1, <1>2, <1>3, <1>5
  <1>6. Handed(d)' <= addressed'[d]
    BY ONLY <1>1, <1>2, <1>3
  <1> QED BY ONLY <1>4, <1>5, <1>6, Zenon

\* process_one() takes the oldest command.
LEMMA ProcessOneKeeps ==
    ASSUME Inv, ProcessOne
    PROVE  Inv'
  <1> DEFINE m == Head(inbound)
             c == m.conn
  <1>1. /\ inbound # <<>> /\ inbound' = Tail(inbound) /\ replies' \in Answers(m)
        /\ handled' = [handled EXCEPT ![c] = m.sequence]
        /\ UNCHANGED <<sessions, next_session_id, accepted, session, outbound, failed, received,
                       addressed>>
    BY DEF ProcessOne, clientVars
  <1>2. /\ inbound \in Seq(Message) /\ handled \in [Connection -> Nat]
        /\ session \in [Connection -> Session]
    BY DEF Inv, Typed
  <1>3. /\ inbound' \in Seq(Message) /\ 1 \in DOMAIN inbound /\ m = inbound[1] /\ m \in Message
        /\ \A k \in DOMAIN inbound' :
              k \in Nat /\ k + 1 \in DOMAIN inbound /\ inbound'[k] = inbound[k + 1]
    BY <1>1, <1>2, TailIndices
  <1>4. c \in Connection /\ m.sequence \in Nat /\ Addressed(m)
    BY <1>3 DEF Message, Inv, UnderWay
  <1>5. /\ handled' \in [Connection -> Nat] /\ handled'[c] = m.sequence
        /\ \A d \in Connection : d # c => handled'[d] = handled[d]
    BY <1>1, <1>2, <1>4
  <1>6. replies' \in Seq(ReplyMessage) /\ \A i \in DOMAIN replies' : Addressed(replies'[i])
    BY <1>1, <1>3, <1>4, AnswersAddressed
  <1>7. Typed'
    BY <1>1, <1>3, <1>5, <1>6, Zenon DEF Inv, Typed
  <1>8. Identified'
    <2>1. ASSUME NEW d \in Connection, d > accepted
          PROVE  handled'[d] = 0
      <3>1. d # c
        <4>1. c <= accepted /\ c \in Nat /\ d \in Nat /\ accepted \in Nat
          BY <1>4, ConnectionFacts DEF Addressed, Inv, Typed
        <4> QED BY <2>1, <4>1
      <3> QED BY <1>5, <2>1, <3>1 DEF Inv, Identified
    <2> QED BY <1>1, <2>1 DEF Inv, Identified
  <1>9. UnderWay'
    BY <1>1, <1>3, <1>6 DEF Inv, UnderWay, Addressed
  <1>10. ASSUME NEW i \in DOMAIN inbound'
         PROVE  /\ i \in Nat /\ i # 0 /\ i + 1 \in DOMAIN inbound /\ inbound'[i] = inbound[i + 1]
                /\ inbound[i + 1].conn \in Connection
    <2>1. DOMAIN inbound' = 1 .. Len(inbound')
      BY <1>3
    <2>2. inbound[i + 1] \in Message
      BY <1>2, <1>3
    <2> QED BY <1>3, <2>1, <2>2 DEF Message
  <1>11. Sequenced'
    <2>1. ASSUME NEW d \in Connection
          PROVE  handled'[d] <= session[d].last_sequence
      <3>1. m.sequence <= session[c].last_sequence
        BY <1>3 DEF Inv, Sequenced
      <3> QED BY <1>5, <3>1 DEF Inv, Sequenced
    <2>2. ASSUME NEW i \in DOMAIN inbound'
          PROVE  inbound'[i].sequence <= session[inbound'[i].conn].last_sequence
      BY <1>10 DEF Inv, Sequenced
    <2> QED BY <1>1, <2>1, <2>2 DEF Sequenced
  <1>12. CommandsInOrder'
    <2> SUFFICES ASSUME NEW i \in DOMAIN inbound'
                 PROVE  /\ inbound'[i].sequence > handled'[inbound'[i].conn]
                        /\ \A j \in 1 .. i - 1 : inbound'[j].conn = inbound'[i].conn
                              => inbound'[j].sequence < inbound'[i].sequence
      BY DEF CommandsInOrder
    <2> DEFINE e == inbound[i + 1]
    <2>1. i \in Nat /\ i # 0 /\ i + 1 \in DOMAIN inbound /\ inbound'[i] = e /\ e.conn \in Connection
      BY <1>10
    <2>2. /\ e.sequence > handled[e.conn]
          /\ \A j \in 1 .. (i + 1) - 1 : inbound[j].conn = e.conn => inbound[j].sequence < e.sequence
      BY <2>1 DEF Inv, CommandsInOrder
    <2>3. e.sequence > handled'[e.conn]
      <3>1. CASE e.conn = c
        <4>1. 1 \in 1 .. (i + 1) - 1
          BY <2>1
        <4>2. m.sequence < e.sequence
          BY <1>3, <2>2, <3>1, <4>1
        <4>3. e \in Message
          BY <1>2, <2>1
        <4>4. e.sequence \in Nat
          BY <4>3 DEF Message
        <4> QED BY <1>4, <1>5, <3>1, <4>2, <4>4
      <3>2. CASE e.conn # c
        BY <1>5, <2>1, <2>2, <3>2
      <3> QED BY <3>1, <3>2
    <2>4. ASSUME NEW j \in 1 .. i - 1, inbound'[j].conn = e.conn
          PROVE  inbound'[j].sequence < e.sequence
      <3>1. DOMAIN inbound' = 1 .. Len(inbound') /\ Len(inbound') \in Nat
        BY <1>3
      <3>2. j \in DOMAIN inbound'
        BY <3>1
      <3>3. inbound'[j] = inbound[j + 1] /\ j + 1 \in 1 .. (i + 1) - 1
        BY <1>10, <2>1, <3>2
      <3> QED BY <2>2, <2>4, <3>3
    <2> QED BY <2>1, <2>3, <2>4
  <1>13. SessionsQueue' /\ OutboundOrdered'
    BY <1>1 DEF Inv, SessionsQueue, OutboundOrdered
  <1>14. OutboundComplete'
    <2>1. OutboundComplete
      BY DEF Inv
    <2> QED BY <1>1, <2>1, OutboundCompleteKept
  <1> QED BY <1>7, <1>8, <1>9, <1>11, <1>12, <1>13, <1>14 DEF Inv

\* push_outbound(): the response takes the next number of its connection.
LEMMA PushOutboundKeeps ==
    ASSUME Inv, PushOutbound
    PROVE  Inv'
  <1> DEFINE m == Head(replies)
             c == m.conn
             e == [type |-> "response", id |-> m.id, conn |-> m.conn,
                   number |-> addressed[m.conn] + 1,
                   sequence |-> m.sequence, terminal |-> m.terminal]
             n == Len(outbound)
  <1>1. /\ replies # <<>> /\ replies' = Tail(replies)
        /\ addressed' = [addressed EXCEPT ![c] = @ + 1]
        /\ outbound' = Append(outbound, e)
        /\ UNCHANGED <<sessions, next_session_id, accepted, session, inbound, failed, received,
                       handled>>
    BY DEF PushOutbound, queueVars, clientVars
  <1>2. /\ replies \in Seq(ReplyMessage) /\ outbound \in Seq(Response)
        /\ addressed \in [Connection -> Nat]
    BY DEF Inv, Typed
  <1>3. /\ replies' \in Seq(ReplyMessage) /\ 1 \in DOMAIN replies /\ m = replies[1]
        /\ m \in ReplyMessage
        /\ \A k \in DOMAIN replies' : k + 1 \in DOMAIN replies /\ replies'[k] = replies[k + 1]
    BY <1>1, <1>2, TailIndices
  <1>4. c \in Connection /\ Addressed(m)
    BY <1>3 DEF ReplyMessage, Inv, UnderWay
  <1>5. /\ e \in Response /\ e.conn = c /\ e.id = m.id /\ e.number = addressed[c] + 1
    <2>1. /\ m.id \in Connection /\ m.sequence \in Nat /\ m.terminal \in BOOLEAN
      BY <1>3 DEF ReplyMessage
    <2>2. addressed[c] + 1 \in Nat
      BY <1>2, <1>4
    <2> HIDE DEF m
    <2> QED BY ONLY <1>4, <2>1, <2>2 DEF Response, e, c
  <1> HIDE DEF e
  <1>6. /\ outbound' \in Seq(Response) /\ n \in Nat
        /\ DOMAIN outbound = 1 .. n /\ DOMAIN outbound' = 1 .. n + 1
        /\ outbound'[n + 1] = e
        /\ \A i \in 1 .. n : outbound'[i] = outbound[i]
    <2>1. outbound \in Seq(Response) /\ e \in Response /\ outbound' = Append(outbound, e)
      BY <1>1, <1>2, <1>5
    <2>2. n \in Nat /\ DOMAIN outbound = 1 .. n
      BY <2>1
    <2> QED BY ONLY <2>1, <2>2, AppendFacts
  <1>7. /\ addressed' \in [Connection -> Nat] /\ addressed'[c] = addressed[c] + 1
        /\ \A d \in Connection : d # c => addressed'[d] = addressed[d]
        /\ \A d \in Connection : addressed[d] \in Nat
    <2>1. /\ addressed' = [addressed EXCEPT ![c] = @ + 1] /\ addressed \in [Connection -> Nat]
          /\ c \in Connection
      BY <1>1, <1>2, <1>4
    <2> HIDE DEF c
    <2> QED BY ONLY <2>1
  <1>8. Typed'
    BY <1>1, <1>3, <1>6, <1>7 DEF Inv, Typed
  <1>9. Identified'
    <2>1. ASSUME NEW d \in Connection, d > accepted
          PROVE  addressed'[d] = 0
      <3>1. d # c
        <4>1. c <= accepted /\ c \in Nat /\ d \in Nat /\ accepted \in Nat
          <5>1. c <= accepted
            BY <1>4 DEF Addressed
          <5>2. accepted \in Nat
            BY ConnectionFacts DEF Inv, Typed
          <5>3. c \in Nat /\ d \in Nat
            BY <1>4, ConnectionFacts
          <5> QED BY <5>1, <5>2, <5>3
        <4> QED BY <2>1, <4>1
      <3> QED BY <1>7, <2>1, <3>1 DEF Inv, Identified
    <2> QED BY <1>1, <2>1, Zenon DEF Inv, Identified
  <1>10. UnderWay'
    <2>1. ASSUME NEW i \in DOMAIN outbound'
          PROVE  Addressed(outbound'[i])
      <3>1. CASE i = n + 1
        BY <1>4, <1>5, <1>6, <3>1 DEF Addressed
      <3>2. CASE i # n + 1
        <4>1. i \in 1 .. n
          BY <1>6, <3>2
        <4> QED BY <1>6, <4>1 DEF Inv, UnderWay
      <3> QED BY <3>1, <3>2
    <2>2. \A i \in DOMAIN replies' : Addressed(replies'[i])
      BY <1>3 DEF Inv, UnderWay
    <2>3. \A i \in DOMAIN inbound : Addressed(inbound[i])
      BY DEF Inv, UnderWay
    <2> QED BY <1>1, <2>1, <2>2, <2>3 DEF UnderWay, Addressed
  <1>11. Sequenced' /\ CommandsInOrder' /\ SessionsQueue'
    BY <1>1 DEF Inv, Sequenced, CommandsInOrder, SessionsQueue
  <1>12. ASSUME NEW i \in 1 .. n
         PROVE  /\ outbound[i].conn \in Connection /\ outbound[i].number \in Nat
                /\ outbound[i].number <= addressed[outbound[i].conn]
    <2>1. outbound[i] \in Response
      BY <1>2, <1>6
    <2> QED BY <1>6, <2>1 DEF Response, Inv, OutboundOrdered
  <1>13. OutboundOrdered'
    <2>1. ASSUME NEW i \in DOMAIN outbound'
          PROVE  outbound'[i].number <= addressed'[outbound'[i].conn]
      <3>1. CASE i = n + 1
        BY <1>4, <1>5, <1>6, <1>7, <3>1
      <3>2. CASE i # n + 1
        <4>1. i \in 1 .. n
          BY <1>6, <3>2
        <4> QED BY <1>6, <1>7, <1>12, <4>1
      <3> QED BY <3>1, <3>2
    <2>2. ASSUME NEW i \in DOMAIN outbound', NEW j \in DOMAIN outbound', i < j,
                 outbound'[i].conn = outbound'[j].conn
          PROVE  outbound'[i].number < outbound'[j].number
      <3>1. i \in 1 .. n
        BY <1>6, <2>2
      <3>2. CASE j = n + 1
        <4>1. outbound[i].conn = c
          BY <1>5, <1>6, <2>2, <3>1, <3>2
        <4> QED BY <1>4, <1>5, <1>6, <1>7, <1>12, <3>1, <3>2, <4>1
      <3>3. CASE j # n + 1
        <4>1. j \in 1 .. n
          BY <1>6, <3>3
        <4> QED BY <1>6, <2>2, <3>1, <4>1 DEF Inv, OutboundOrdered
      <3> QED BY <3>2, <3>3
    <2> QED BY <2>1, <2>2 DEF OutboundOrdered
  <1>14. OutboundComplete'
    <2> SUFFICES ASSUME NEW d \in Connection, Registered(d)
                 PROVE  /\ Handed(d) <= addressed'[d]
                        /\ \A k \in Handed(d) + 1 .. addressed'[d] :
                              \E i \in DOMAIN outbound' :
                                 outbound'[i].conn = d /\ outbound'[i].number = k
                        /\ \A i \in DOMAIN outbound' :
                              outbound'[i].conn = d => outbound'[i].number > Handed(d)
      BY <1>1 DEF OutboundComplete, Registered, Handed
    <2>1. /\ Handed(d) <= addressed[d]
          /\ \A k \in Handed(d) + 1 .. addressed[d] :
                \E i \in DOMAIN outbound : outbound[i].conn = d /\ outbound[i].number = k
          /\ \A i \in DOMAIN outbound : outbound[i].conn = d => outbound[i].number > Handed(d)
      BY DEF Inv, OutboundComplete
    <2>2. Handed(d) \in Nat
      <3>1. received[d] \in Nat /\ session[d].write_queue \in Seq(Frame)
        BY DEF Inv, Typed, Session
      <3> QED BY <3>1, LastNumberNat DEF Handed
    <2>3. Handed(d) <= addressed'[d]
      BY <1>7, <2>1, <2>2
    <2>4. ASSUME NEW k \in Handed(d) + 1 .. addressed'[d]
          PROVE  \E i \in DOMAIN outbound' : outbound'[i].conn = d /\ outbound'[i].number = k
      <3>1. CASE k \in Handed(d) + 1 .. addressed[d]
        <4>1. PICK i \in DOMAIN outbound : outbound[i].conn = d /\ outbound[i].number = k
          BY <2>1, <3>1
        <4>2. i \in DOMAIN outbound' /\ outbound'[i] = outbound[i]
          BY <1>6
        <4> QED BY <4>1, <4>2
      <3>2. CASE ~(k \in Handed(d) + 1 .. addressed[d])
        <4>1. d = c /\ k = addressed[c] + 1
          BY <1>7, <2>2, <3>2
        <4>2. n + 1 \in DOMAIN outbound'
          BY <1>6
        <4> QED BY <1>5, <1>6, <4>1, <4>2
      <3> QED BY <3>1, <3>2
    <2>5. ASSUME NEW i \in DOMAIN outbound', outbound'[i].conn = d
          PROVE  outbound'[i].number > Handed(d)
      <3>1. CASE i = n + 1
        BY <1>5, <1>6, <1>7, <2>1, <2>2, <2>5, <3>1
      <3>2. CASE i # n + 1
        <4>1. i \in 1 .. n
          BY <1>6, <3>2
        <4> QED BY <1>6, <2>1, <2>5, <4>1
      <3> QED BY <3>1, <3>2
    <2> QED BY <2>3, <2>4, <2>5
  <1> QED BY <1>8, <1>9, <1>10, <1>11, <1>13, <1>14 DEF Inv

------------------------------------------------------------------------------
(* The theorems *)

\* Nothing is queued, and no connection has been accepted.
LEMMA InitInv ==
    Init => Inv
  <1> SUFFICES ASSUME Init PROVE Inv
    OBVIOUS
  <1> USE DEF Init, GatewayInit
  <1>1. NewSession \in Session /\ NewSession.write_queue = <<>> /\ NewSession.writing = FALSE
    <2>1. <<>> \in Seq(Frame)
      OBVIOUS
    <2> QED BY <2>1, ConnectionFacts DEF NewSession, Session
  <1>2. Typed
    BY <1>1, ConnectionFacts DEF Typed
  <1>3. Identified
    BY ConnectionFacts DEF Identified
  <1>4. UnderWay /\ CommandsInOrder /\ OutboundOrdered
    <2>1. DOMAIN inbound = {} /\ DOMAIN outbound = {} /\ DOMAIN replies = {}
      OBVIOUS
    <2> QED BY ONLY <2>1 DEF UnderWay, CommandsInOrder, OutboundOrdered
  <1>5. Sequenced
    BY DEF Sequenced, NewSession
  <1>6. SessionsQueue
    <2>1. \A d \in Connection :
             /\ DOMAIN session[d].write_queue = {} /\ session[d].write_queue = <<>>
             /\ ~session[d].writing /\ ~failed[d]
      BY <1>1
    <2> QED BY ONLY <2>1, Zenon DEF SessionsQueue, Queued, Numbered, OneError
  <1>7. OutboundComplete
    BY DEF OutboundComplete, Registered, NewSession
  <1> QED BY <1>2, <1>3, <1>4, <1>5, <1>6, <1>7 DEF Inv

\* Every step of the gateway, of the engine and of the shutdown keeps Inv.
LEMMA NextInv ==
    Inv /\ [Next]_vars => Inv'
  <1> SUFFICES ASSUME Inv, [Next]_vars PROVE Inv'
    OBVIOUS
  <1>1. ASSUME UNCHANGED <<accepted, next_session_id, sessions, session, inbound, outbound,
                           replies, failed, received, handled, addressed>>
        PROVE  Inv'
    <2>1. Typed' /\ Identified'
      BY <1>1 DEF Inv, Typed, Identified
    <2>2. UnderWay' /\ Sequenced' /\ CommandsInOrder'
      BY <1>1 DEF Inv, UnderWay, Addressed, Sequenced, CommandsInOrder
    <2>3. SessionsQueue' /\ OutboundOrdered'
      BY <1>1, Zenon DEF Inv, SessionsQueue, OutboundOrdered
    <2>4. OutboundComplete'
      <3>1. OutboundComplete
        BY DEF Inv
      <3> QED BY <1>1, <3>1, OutboundCompleteKept
    <2> QED BY <2>1, <2>2, <2>3, <2>4 DEF Inv
  <1>2. CASE GatewayNext /\ UNCHANGED <<engineVars, main>>
    <2>1. CASE Accept
      BY <1>2, <2>1, AcceptKeeps
    <2>2. CASE PollOutbound
      BY <1>2, <2>2, PollOutboundKeeps
    <2>3. CASE PollEnds
      BY <1>1, <1>2, <2>3 DEF PollEnds, queueVars, clientVars, engineVars
    <2>4. CASE Stop
      BY <1>2, <2>4, StopKeeps
    <2>5. ASSUME NEW c \in Connection, ReadFails(c)
          PROVE  Inv'
      BY <1>2, <2>5, ReadFailsKeeps
    <2>6. ASSUME NEW c \in Connection, ReadHeader(c)
          PROVE  Inv'
      BY <1>2, <2>6, ReadHeaderKeeps
    <2>7. ASSUME NEW c \in Connection, Malformed(c)
          PROVE  Inv'
      BY <1>2, <2>7, MalformedKeeps
    <2>8. ASSUME NEW c \in Connection, NEW sequence \in 1 .. MaxSequence[c],
                 ReadCommand(c, sequence)
          PROVE  Inv'
      BY <1>2, <2>8, ReadCommandKeeps
    <2>9. ASSUME NEW c \in Connection, WriteDone(c)
          PROVE  Inv'
      BY <1>2, <2>9, WriteDoneKeeps
    <2>10. ASSUME NEW c \in Connection, WriteFails(c)
           PROVE  Inv'
      BY <1>2, <2>10, WriteFailsKeeps
    <2> QED
      BY <1>2, <2>1, <2>2, <2>3, <2>4, <2>5, <2>6, <2>7, <2>8, <2>9, <2>10 DEF GatewayNext
  <1>3. CASE ProcessOne
    BY <1>3, ProcessOneKeeps
  <1>4. CASE PushOutbound
    BY <1>4, PushOutboundKeeps
  <1>5. CASE BatchEnds \/ EngineLoop
    BY <1>1, <1>5 DEF BatchEnds, EngineLoop, gatewayVars, queueVars, clientVars
  <1>6. CASE RequestStop \/ Exit
    BY <1>1, <1>6 DEF RequestStop, Exit, gatewayVars, engineVars, queueVars, clientVars
  <1>7. CASE UNCHANGED vars
    BY <1>1, <1>7 DEF vars, gatewayVars, engineVars, queueVars, clientVars
  <1> QED BY <1>2, <1>3, <1>4, <1>5, <1>6, <1>7 DEF Next, Spin, Exited

\* Inv holds in every reachable state.
THEOREM Invariance ==
    Spec => []Inv
  BY InitInv, NextInv, PTL DEF Spec

\* The commands of a connection reach the engine in the order in which its client
\* sent them, for however many connections and whatever else is queued.
THEOREM SendOrderPreserved ==
    Spec => []CommandsInOrder
  <1>1. Inv => CommandsInOrder
    BY DEF Inv
  <1> QED BY <1>1, Invariance, PTL

\* What a session has queued are the responses meant for its own client, following
\* without a gap on those the client has read.
THEOREM ResponsesReachTheirClient ==
    Spec => []ResponsesWithoutGap
  <1>1. Inv => ResponsesWithoutGap
    BY DEF Inv, SessionsQueue, Queued, Numbered, ResponsesWithoutGap
  <1> QED BY <1>1, Invariance, PTL

\* Only enqueue_command() lengthens the inbound queue, and its session has had no
\* protocol error, for the read loop ends with one.
THEOREM ErrorEndsCommands ==
    Spec => NothingAfterError
  <1> DEFINE A == Len(inbound') > Len(inbound) => ~failed[inbound'[Len(inbound')].conn]
  <1>1. Inv /\ [Next]_vars => [A]_vars
    <2> SUFFICES ASSUME Inv, Next, Len(inbound') > Len(inbound)
                 PROVE  ~failed[inbound'[Len(inbound')].conn]
      OBVIOUS
    <2>1. inbound \in Seq(Message) /\ Len(inbound) \in Nat
      BY DEF Inv, Typed
    <2>2. inbound' # inbound
      BY <2>1
    <2>3. ~ProcessOne
      <3>1. SUFFICES ASSUME inbound # <<>> PROVE ~(Len(Tail(inbound)) > Len(inbound))
        BY DEF ProcessOne
      <3>2. Len(Tail(inbound)) = Len(inbound) - 1
        BY <2>1, <3>1, TailFacts
      <3> QED BY <2>1, <3>2
    <2>4. PICK c \in Connection, sequence \in Nat : ReadCommand(c, sequence)
      <3>1. GatewayNext
        BY <2>2, <2>3 DEF Next, PushOutbound, Spin, BatchEnds, EngineLoop, RequestStop, Exit,
                          Exited, vars, gatewayVars, queueVars
      <3>2. \E c \in Connection : \E sequence \in 1 .. MaxSequence[c] : ReadCommand(c, sequence)
        BY <2>2, <3>1 DEF GatewayNext, Accept, PollOutbound, PollEnds, Stop, ReadFails, ReadHeader,
                          Malformed, WriteDone, WriteFails, queueVars
      <3>3. \A c \in Connection : MaxSequence[c] \in Nat
        BY BoundsAssumption DEF Connection
      <3> QED BY <3>2, <3>3
    <2> DEFINE m == [id |-> session[c].id, conn |-> c, sequence |-> sequence]
    <2>5. inbound' = Append(inbound, m) /\ session[c].reading # "none"
      BY <2>2, <2>4 DEF ReadCommand, Reading, Inbound!Accept, Inbound!Refuse, queueVars
    <2>6. ~failed[c] /\ session[c].id = c
      BY <2>5, PendingSession, Zenon
    <2>7. m \in Message
      BY <2>6 DEF Message
    <2>8. Len(inbound') = Len(inbound) + 1 /\ inbound'[Len(inbound) + 1] = m
      <3> HIDE DEF m
      <3> QED BY ONLY <2>1, <2>5, <2>7, AppendFacts
    <2> QED BY <2>6, <2>8
  <1> QED BY <1>1, Invariance, PTL DEF Spec, NothingAfterError
------------------------------------------------------------------------------
(* The close of a session with an error *)

\* A registered session writes as long as something is queued; one with an error
\* writes while it is registered, and its last write closes it.
Closing(r, registered, error) ==
    /\ registered /\ r.write_queue # <<>> => r.writing
    /\ error /\ (registered \/ r.writing) => r.writing /\ r.close_after_write

SessionsClose == \A c \in Connection : Closing(session[c], Registered(c), failed[c])

\* An open session has the number of its connection.
LEMMA OpenOwn ==
    ASSUME Inv, NEW d \in Connection
    PROVE  session[d].open => session[d].id = d
  <1>1. accepted \in Nat /\ d \in Nat
    BY ConnectionFacts DEF Inv, Typed
  <1>2. d <= accepted => session[d].id = d
    BY DEF Inv, Identified
  <1>3. d > accepted => session[d] = NewSession
    BY DEF Inv, Identified
  <1>4. ~NewSession.open
    BY DEF NewSession
  <1> QED BY <1>1, <1>2, <1>3, <1>4

\* A handler of session c does not register another session.
LEMMA CloseStep ==
    ASSUME Inv, SessionsClose, NEW c \in Connection, NEW r,
           session' = [session EXCEPT ![c] = r],
           sessions' = sessions \/ sessions' = [sessions EXCEPT ![c] = 0],
           \A d \in Connection : d # c => failed'[d] = failed[d],
           Closing(r, Registered(c)', failed'[c])
    PROVE  SessionsClose'
  <1>1. session \in [Connection -> Session] /\ sessions \in [Connection -> 0 .. MaxConnections]
    BY DEF Inv, Typed
  <1>2. session'[c] = r
    BY <1>1
  <1>3. ASSUME NEW d \in Connection, d # c
        PROVE  Closing(session'[d], Registered(d)', failed'[d])
    <2>1. session'[d] = session[d]
      BY <1>1, <1>3
    <2>2. Registered(d)' => Registered(d)
      <3>1. session[d].open => session[d].id = d
        BY OpenOwn
      <3>2. sessions'[d] = sessions[d]
        BY <1>1, <1>3
      <3> QED BY <2>1, <3>1, <3>2 DEF Registered
    <2>3. Closing(session[d], Registered(d), failed[d])
      BY DEF SessionsClose
    <2> QED BY <1>3, <2>1, <2>2, <2>3 DEF Closing
  <1> QED BY <1>2, <1>3 DEF SessionsClose

\* send_protocol_error() starts a write or joins the one under way.
LEMMA FailCloses ==
    ASSUME Inv, SessionsClose, NEW c \in Connection, session[c].reading # "none", Fail(c),
           UNCHANGED sessions
    PROVE  SessionsClose'
  <1> DEFINE s == session[c]
             r == SendProtocolError(s)
  <1>1. s \in Session /\ s.id = c
    BY PendingSession
  <1>2. session' = [session EXCEPT ![c] = r] /\ failed' = [failed EXCEPT ![c] = TRUE]
    BY DEF Fail
  <1>3. session \in [Connection -> Session] /\ failed \in [Connection -> BOOLEAN]
    BY DEF Inv, Typed
  <1>4. \A d \in Connection : d # c => failed'[d] = failed[d]
    BY <1>2, <1>3
  <1>5. session'[c] = r
    BY <1>2, <1>3
  <1>6. Registered(c) /\ s.write_queue # <<>> => s.writing
    BY DEF SessionsClose, Closing
  <1>7. /\ r.open = s.open /\ r.id = s.id /\ r.close_after_write = TRUE
        /\ s.open => r.writing = (s.writing \/ s.write_queue = <<>>)
        /\ ~s.open => r.writing = s.writing
    BY <1>1 DEF SendProtocolError, SendRawFrame, Session
  <1>8. Registered(c)' => Registered(c) /\ s.open
    BY <1>5, <1>7 DEF Registered
  <1>9. Closing(r, Registered(c)', failed'[c])
    BY <1>6, <1>7, <1>8, Zenon DEF Closing
  <1> HIDE DEF r
  <1> QED BY <1>2, <1>4, <1>9, CloseStep, Zenon

\* A handler that only moves the read loop on.
LEMMA ReadOnCloses ==
    ASSUME Inv, SessionsClose, NEW c \in Connection, session[c].reading # "none", NEW r,
           r.id = session[c].id, r.open = session[c].open, r.writing = session[c].writing,
           session' = [session EXCEPT ![c] = r],
           r.write_queue = session[c].write_queue, UNCHANGED <<sessions, failed>>
    PROVE  SessionsClose'
  <1>1. ~failed[c]
    BY PendingSession
  <1>2. session'[c] = r
    BY DEF Inv, Typed
  <1>3. Registered(c)' => Registered(c)
    BY <1>2 DEF Registered
  <1>4. Registered(c) /\ session[c].write_queue # <<>> => session[c].writing
    BY DEF SessionsClose, Closing
  <1>5. Closing(r, Registered(c)', failed'[c])
    BY <1>1, <1>3, <1>4 DEF Closing
  <1> QED BY <1>5, CloseStep, Zenon

\* A session that leaves the map has neither a pending write nor an error.
LEMMA UnregisterCloses ==
    ASSUME Inv, SessionsClose, NEW c \in Connection,
           session[c].reading # "none" \/ session[c].writing,
           NEW r, r.id = session[c].id, ~r.writing \/ ~failed[c],
           session' = [session EXCEPT ![c] = r], Unregister(session[c].id), UNCHANGED failed
    PROVE  SessionsClose'
  <1>1. session[c].id = c
    BY PendingSession
  <1>2. sessions' = [sessions EXCEPT ![c] = 0]
    BY <1>1 DEF Unregister
  <1>3. session'[c] = r /\ sessions'[c] = 0 /\ c # 0
    BY <1>2, ConnectionFacts DEF Inv, Typed
  <1>4. ~Registered(c)'
    BY <1>1, <1>3 DEF Registered
  <1>5. Closing(r, Registered(c)', failed'[c])
    BY <1>4 DEF Closing
  <1> QED BY <1>2, <1>5, CloseStep, Zenon

\* do_write() completes: the next frame is written, or the session is closed.
LEMMA WriteDoneCloses ==
    ASSUME Inv, SessionsClose, NEW c \in Connection, WriteDone(c)
    PROVE  SessionsClose'
  <1> DEFINE s == session[c]
             r == [s EXCEPT !.write_queue = <<>>, !.writing = FALSE]
  <1>1. s.writing /\ s \in Session /\ s.id = c /\ failed' = failed
    BY PendingSession DEF WriteDone
  <1>2. failed[c] => s.close_after_write
    BY <1>1 DEF SessionsClose, Closing
  <1>3. session \in [Connection -> Session]
    BY DEF Inv, Typed
  <1>4. CASE Len(s.write_queue) > 1
    <2> DEFINE t == [s EXCEPT !.write_queue = Tail(s.write_queue)]
    <2>1. session' = [session EXCEPT ![c] = t] /\ sessions' = sessions
      BY <1>4 DEF WriteDone
    <2>2. t.writing /\ t.close_after_write = s.close_after_write
      BY <1>1 DEF Session
    <2>3. Closing(t, Registered(c)', failed'[c])
      BY <1>1, <1>2, <2>2 DEF Closing
    <2> HIDE DEF t
    <2> QED BY <1>1, <2>1, <2>3, CloseStep, Zenon
  <1>5. CASE ~(Len(s.write_queue) > 1) /\ r.close_after_write
    <2> DEFINE t == Close([r EXCEPT !.close_after_write = FALSE])
    <2>1. session' = [session EXCEPT ![c] = t] /\ Unregister(r.id)
      BY <1>5 DEF WriteDone, Written
    <2>2. t.id = s.id /\ r.id = s.id /\ ~t.writing
      BY <1>1 DEF Close, Session
    <2> HIDE DEF t, r
    <2> QED BY <1>1, <2>1, <2>2, UnregisterCloses, Zenon
  <1>6. CASE ~(Len(s.write_queue) > 1) /\ ~r.close_after_write
    <2>1. session' = [session EXCEPT ![c] = r] /\ sessions' = sessions
      BY <1>6 DEF WriteDone, Written
    <2>2. r.write_queue = <<>> /\ ~r.writing /\ r.close_after_write = s.close_after_write
      BY <1>1 DEF Session
    <2>3. ~failed[c]
      BY <1>2, <1>6, <2>2
    <2>4. Closing(r, Registered(c)', failed'[c])
      BY <1>1, <2>2, <2>3 DEF Closing
    <2> HIDE DEF r
    <2> QED BY <1>1, <2>1, <2>4, CloseStep, Zenon
  <1> QED BY <1>4, <1>5, <1>6

\* A response joins the write of the session it is for, or starts one.
LEMMA PollOutboundCloses ==
    ASSUME Inv, SessionsClose, PollOutbound
    PROVE  SessionsClose'
  <1>1. UNCHANGED <<sessions, failed>>
    BY DEF PollOutbound, clientVars
  <1> SUFFICES ASSUME NEW d \in Connection
               PROVE  Closing(session'[d], Registered(d)', failed'[d])
    BY DEF SessionsClose
  <1>2. session[d] \in Session /\ Closing(session[d], Registered(d), failed[d])
    BY DEF Inv, Typed, SessionsClose
  <1>3. CASE d \in Receivers(Head(outbound))
    <2>1. Registered(d) /\ session[d].open
      BY <1>3 DEF Receivers, Registered
    <2>2. session'[d] = SendRawFrame(session[d], Head(outbound))
      BY <1>3 DEF PollOutbound
    <2>3. /\ session'[d].close_after_write = session[d].close_after_write
          /\ session'[d].writing = (session[d].writing \/ session[d].write_queue = <<>>)
      BY <1>2, <2>1, <2>2 DEF SendRawFrame, Session
    <2>4. session'[d].writing
      BY <1>2, <2>1, <2>3, Zenon DEF Closing
    <2> QED BY <1>1, <1>2, <2>1, <2>3, <2>4, Zenon DEF Closing
  <1>4. CASE d \notin Receivers(Head(outbound))
    <2>1. session'[d] = session[d]
      BY <1>4 DEF PollOutbound
    <2>2. Registered(d)' => Registered(d)
      BY <1>1, <2>1 DEF Registered
    <2> QED BY <1>1, <1>2, <2>1, <2>2 DEF Closing
  <1> QED BY <1>3, <1>4

\* stop() leaves no session registered and no write changed.
LEMMA StopCloses ==
    ASSUME Inv, SessionsClose, Stop
    PROVE  SessionsClose'
  <1> SUFFICES ASSUME NEW d \in Connection
               PROVE  Closing(session'[d], Registered(d)', failed'[d])
    BY DEF SessionsClose
  <1>1. session[d] \in Session /\ Closing(session[d], Registered(d), failed[d])
    BY DEF Inv, Typed, SessionsClose
  <1>2. /\ session'[d].writing = session[d].writing /\ session'[d].id = session[d].id
        /\ session'[d].close_after_write = session[d].close_after_write
        /\ session'[d].open => session[d].open
    BY <1>1 DEF Stop, Close, Session
  <1>3. ~Registered(d)'
    <2>1. session[d].open => session[d].id \in Connection
      BY OpenOwn
    <2>2. d # 0
      BY ConnectionFacts
    <2> QED BY <1>2, <2>1, <2>2 DEF Stop, Registered
  <1> QED BY <1>1, <1>2, <1>3 DEF Closing, Stop, clientVars

\* A new session has nothing to write and no error.
LEMMA AcceptCloses ==
    ASSUME Inv, SessionsClose, Accept
    PROVE  SessionsClose'
  <1>1. /\ accepted \in Nat /\ accepted < MaxConnections /\ next_session_id = accepted + 1
        /\ session \in [Connection -> Session]
        /\ sessions \in [Connection -> 0 .. MaxConnections]
    BY ConnectionFacts DEF Inv, Typed, Accept
  <1>0. PICK n \in Connection : n = accepted + 1
    BY <1>1, ConnectionFacts DEF Connection
  <1>2. ~failed[n] /\ failed' = failed
    BY <1>0, <1>1 DEF Inv, Identified, Accept, clientVars
  <1>3. /\ sessions' = [sessions EXCEPT ![n] = n]
        /\ session' = [session EXCEPT ![n] = [NewSession EXCEPT !.id = n, !.open = TRUE,
                                                                !.reading = "header"]]
    BY <1>0, <1>1 DEF Accept, NextSessionId
  <1>4. session'[n].write_queue = <<>>
    BY <1>1, <1>3 DEF NewSession
  <1>5. Closing(session'[n], Registered(n)', failed'[n])
    BY <1>2, <1>4 DEF Closing
  <1>6. ASSUME NEW d \in Connection, d # n
        PROVE  Closing(session'[d], Registered(d)', failed'[d])
    <2>1. session'[d] = session[d] /\ sessions'[d] = sessions[d]
      BY <1>1, <1>3, <1>6
    <2>2. session[d].open => session[d].id = d
      BY OpenOwn
    <2>3. Registered(d)' => Registered(d)
      BY <2>1, <2>2 DEF Registered
    <2>4. Closing(session[d], Registered(d), failed[d])
      BY DEF SessionsClose
    <2> QED BY <1>2, <2>1, <2>3, <2>4 DEF Closing
  <1>7. \A d \in Connection : Closing(session'[d], Registered(d)', failed'[d])
    BY <1>5, <1>6, Zenon
  <1> QED BY <1>7, Zenon DEF SessionsClose

\* Every step of the gateway and of the engine keeps the close due.
LEMMA NextCloses ==
    Inv /\ SessionsClose /\ [Next]_vars => SessionsClose'
  <1> SUFFICES ASSUME Inv, SessionsClose, [Next]_vars PROVE SessionsClose'
    OBVIOUS
  <1>1. ASSUME UNCHANGED <<sessions, session, failed>>
        PROVE  SessionsClose'
    BY <1>1 DEF SessionsClose, Registered
  <1>2. CASE GatewayNext /\ UNCHANGED <<engineVars, main>>
    <2>1. CASE Accept
      BY <2>1, AcceptCloses
    <2>2. CASE PollOutbound
      BY <2>2, PollOutboundCloses
    <2>3. CASE PollEnds
      BY <1>1, <2>3 DEF PollEnds, clientVars
    <2>4. CASE Stop
      BY <2>4, StopCloses
    <2>5. ASSUME NEW c \in Connection, ReadFails(c)
          PROVE  SessionsClose'
      <3> DEFINE r == [session[c] EXCEPT !.reading = "none"]
      <3>1. session[c].reading # "none"
        BY <2>5 DEF ReadFails, Reading
      <3>2. session[c] \in Session /\ ~failed[c]
        BY <3>1, PendingSession
      <3>3. r.id = session[c].id
        BY <3>2 DEF Session
      <3>4. session' = [session EXCEPT ![c] = r] /\ Unregister(session[c].id) /\ failed' = failed
        BY <2>5 DEF ReadFails, clientVars
      <3> HIDE DEF r
      <3> QED BY <3>1, <3>2, <3>3, <3>4, UnregisterCloses, Zenon
    <2>6. ASSUME NEW c \in Connection, ReadHeader(c)
          PROVE  SessionsClose'
      <3> DEFINE r == [session[c] EXCEPT !.reading = "payload"]
      <3>1. session[c].reading # "none"
        BY <2>6 DEF ReadHeader, Reading
      <3>2. session[c] \in Session
        BY <3>1, PendingSession
      <3>3. /\ r.id = session[c].id /\ r.open = session[c].open
            /\ r.writing = session[c].writing /\ r.write_queue = session[c].write_queue
        BY <3>2 DEF Session
      <3>4. session' = [session EXCEPT ![c] = r] /\ UNCHANGED <<sessions, failed>>
        BY <2>6 DEF ReadHeader, clientVars
      <3> HIDE DEF r
      <3> QED BY <3>1, <3>3, <3>4, ReadOnCloses, Zenon
    <2>7. ASSUME NEW c \in Connection, Malformed(c)
          PROVE  SessionsClose'
      BY <2>7, FailCloses DEF Malformed, Reading
    <2>8. ASSUME NEW c \in Connection, NEW sequence \in 1 .. MaxSequence[c],
                 ReadCommand(c, sequence)
          PROVE  SessionsClose'
      <3> DEFINE r == [session[c] EXCEPT !.last_sequence = sequence, !.reading = "header"]
      <3>1. session[c].reading # "none" /\ sessions' = sessions
        BY <2>8 DEF ReadCommand, Reading
      <3>2. session[c] \in Session
        BY <3>1, PendingSession
      <3>3. /\ r.id = session[c].id /\ r.open = session[c].open
            /\ r.writing = session[c].writing /\ r.write_queue = session[c].write_queue
        BY <3>2 DEF Session
      <3>4. Fail(c) \/ (session' = [session EXCEPT ![c] = r] /\ failed' = failed)
        BY <2>8, Zenon DEF ReadCommand
      <3> HIDE DEF r
      <3>5. CASE Fail(c)
        BY <3>1, <3>5, FailCloses
      <3>6. CASE session' = [session EXCEPT ![c] = r] /\ failed' = failed
        BY <3>1, <3>3, <3>6, ReadOnCloses, Zenon
      <3> QED BY <3>4, <3>5, <3>6
    <2>9. ASSUME NEW c \in Connection, WriteDone(c)
          PROVE  SessionsClose'
      BY <2>9, WriteDoneCloses
    <2>10. ASSUME NEW c \in Connection, WriteFails(c)
           PROVE  SessionsClose'
      <3> DEFINE r == [session[c] EXCEPT !.writing = FALSE]
      <3>1. session[c].writing
        BY <2>10 DEF WriteFails
      <3>2. session[c] \in Session
        BY <3>1, PendingSession
      <3>3. r.id = session[c].id /\ ~r.writing
        BY <3>2 DEF Session
      <3>4. session' = [session EXCEPT ![c] = r] /\ Unregister(session[c].id) /\ failed' = failed
        BY <2>10 DEF WriteFails, clientVars
      <3> HIDE DEF r
      <3> QED BY <3>1, <3>3, <3>4, UnregisterCloses, Zenon
    <2> QED
      BY <1>2, <2>1, <2>2, <2>3, <2>4, <2>5, <2>6, <2>7, <2>8, <2>9, <2>10 DEF GatewayNext
  <1>3. CASE ProcessOne \/ PushOutbound
    BY <1>1, <1>3 DEF ProcessOne, PushOutbound, clientVars
  <1>4. CASE BatchEnds \/ EngineLoop \/ RequestStop \/ Exit \/ UNCHANGED vars
    BY <1>1, <1>4
    DEF BatchEnds, EngineLoop, RequestStop, Exit, vars, gatewayVars, clientVars
  <1> QED BY <1>2, <1>3, <1>4 DEF Next, Spin, Exited

\* However many responses are queued behind the error frame of a session, and
\* however its handlers interleave, the session stays on its way to the close.
THEOREM ErrorClosePending ==
    Spec => []CloseStaysDue
  <1>1. Init => SessionsClose
    <2> SUFFICES ASSUME Init, NEW c \in Connection
                 PROVE  Closing(session[c], Registered(c), failed[c])
      BY DEF SessionsClose
    <2>1. session[c].write_queue = <<>> /\ ~failed[c]
      BY DEF Init, GatewayInit, NewSession
    <2> QED BY <2>1 DEF Closing
  <1>2. Inv /\ SessionsClose => CloseStaysDue
    <2> SUFFICES ASSUME Inv, SessionsClose, NEW c \in Connection, failed[c], Alive(c)
                 PROVE  /\ session[c].reading = "none"
                        /\ session[c].writing /\ session[c].close_after_write
      BY DEF CloseStaysDue
    <2>1. session[c].reading = "none"
      BY DEF Inv, SessionsQueue, Queued
    <2>2. Closing(session[c], Registered(c), failed[c])
      BY Zenon DEF SessionsClose
    <2> QED BY <2>1, <2>2 DEF Closing, Alive
  <1> QED BY <1>1, <1>2, Invariance, NextCloses, PTL DEF Spec
==============================================================================
