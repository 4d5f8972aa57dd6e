---------------------------- MODULE MatchingEngine ----------------------------
(***************************************************************************)
(* MatchingEngineService of tcp_gateway.cpp: it takes the commands of the   *)
(* sessions one at a time, applies each to the book and tells the sessions  *)
(* concerned.  order_sessions_ remembers whom to tell of a trade of a       *)
(* resting order.                                                           *)
(*                                                                         *)
(* The book is the reference book, which OrderBook implements.  A handler   *)
(* begins with the call of the book (NewOrder, CancelOrder, ReplaceOrder,   *)
(* and Match while that call runs), goes on with one Report per execution   *)
(* and ends with the terminal response.  push_outbound is a message added   *)
(* to responses: waiting for room in the queue, and the queue itself, are   *)
(* in Exchange; capture and market data, which process_one calls last, are  *)
(* in EventLog and MarketData.                                              *)
(***************************************************************************)
EXTENDS OrderTypes

CONSTANTS Session,     \* identifiers of sessions
          NoSession,   \* 0 in the code
          MaxCommands  \* bound on the number of commands

ASSUME SessionAssumption == NoSession \notin Session

VARIABLES book, seen, arrivals, incoming, executions, result,   \* ReferenceBook
          command,         \* the command in hand, or the last one
          handling,        \* whether its handler runs
          reported,        \* how many executions have been told
          order_sessions,  \* owner of each resting order, NoSession if absent
          responses,       \* messages pushed for this command
          metrics,         \* counters of MatchingEngineMetrics
          entrant          \* history: who last entered or replaced an order

bookVars == <<book, seen, arrivals, incoming, executions, result>>
vars == <<bookVars, command, handling, reported, order_sessions, responses,
          metrics, entrant>>

Book == INSTANCE ReferenceBook

Counters == {"accepted_commands", "rejected_commands", "accepted_cancels",
             "rejected_cancels", "executions"}

Init == /\ Book!Init
        /\ command = [session |-> NoSession, kind |-> "cancel", id |-> NoOrder]
        /\ handling = FALSE /\ reported = 0
        /\ order_sessions = [id \in OrderId |-> NoSession]
        /\ responses = <<>>
        /\ metrics = [c \in Counters |-> 0]
        /\ entrant = [id \in OrderId |-> NoSession]

------------------------------------------------------------------------------
\* Messages

ExecutionMessage(s, more, e) ==
    [session |-> s, type |-> "execution", more |-> more, about |-> e]

Terminal(s, type, id, units) ==
    [session |-> s, type |-> type, more |-> FALSE,
     about |-> [id |-> id, units |-> units]]

\* The message type of the terminal response, by command and outcome.
TerminalType(kind, rejection) ==
    CASE kind = "new" -> IF rejection = "none" THEN "order_accepted" ELSE "order_rejected"
      [] kind = "cancel" -> IF rejection = "none" THEN "cancel_accepted" ELSE "cancel_rejected"
      [] kind = "replace" -> IF rejection = "none" THEN "replace_accepted" ELSE "replace_rejected"

------------------------------------------------------------------------------
\* Handlers

\* process_one() pops a command and calls its handler, which calls the book.
Begin(s, kind, id) ==
    /\ ~handling
    /\ handling' = TRUE
    /\ command' = [session |-> s, kind |-> kind, id |-> id]
    /\ reported' = 0 /\ responses' = <<>>
    /\ UNCHANGED <<order_sessions, metrics, entrant>>

NewOrderCommand(s, o) == Begin(s, "new", o.id) /\ Book!Submit(o)

CancelOrderCommand(s, id) == Begin(s, "cancel", id) /\ Book!Cancel(id)

ReplaceOrderCommand(s, id, price, units) ==
    Begin(s, "replace", id) /\ Book!Replace(id, price, units)

\* The loop of the book's matching.
Match == /\ handling
         /\ Book!MatchBest \/ Book!Finish
         /\ UNCHANGED <<command, handling, reported, order_sessions, responses,
                        metrics, entrant>>

Contains(id) == Book!Resting(id) # {}

\* Fault: the entry of a filled order is erased before it is looked up.
OwnerAfterErase(id) == IF Contains(id) THEN order_sessions[id] ELSE NoSession

\* order_sessions_.find(id)
Owner(id) == order_sessions[id]

\* Fault: the trade of an order with one of the same session is told twice.
TellsTwice(e) ==
    LET resting == Owner(e.resting) IN
    <<ExecutionMessage(command.session, TRUE, e)>> \o
    IF resting # NoSession
    THEN <<ExecutionMessage(resting, FALSE, e)>> ELSE <<>>

\* The incoming trader is told, and the resting one if distinct.
Tells(e) ==
    LET resting == Owner(e.resting) IN
    <<ExecutionMessage(command.session, TRUE, e)>> \o
    IF resting \notin {NoSession, command.session}
    THEN <<ExecutionMessage(resting, FALSE, e)>> ELSE <<>>

Answerable == handling /\ incoming = NoIncoming

\* One turn of the loop over result.executions; the book is final by then.
Report ==
    /\ Answerable /\ result.rejection = "none" /\ reported < Len(executions)
    /\ LET e == executions[reported + 1] IN
          /\ responses' = responses \o Tells(e)
          /\ order_sessions' = IF Contains(e.resting) THEN order_sessions
                               ELSE [order_sessions EXCEPT ![e.resting] = NoSession]
    /\ reported' = reported + 1
    /\ metrics' = [metrics EXCEPT !.executions = @ + 1]
    /\ UNCHANGED <<bookVars, command, handling, entrant>>

\* Fault: a replace does not make its session the owner.
OwnersAfterKeepsOwner(rests) ==
    CASE command.kind = "new" ->
            IF rests THEN [order_sessions EXCEPT ![command.id] = command.session]
            ELSE order_sessions
      [] OTHER -> [order_sessions EXCEPT ![command.id] = IF rests THEN @ ELSE NoSession]

\* The entry of the order the command names, once it is accepted.
OwnersAfter(rests) ==
    CASE command.kind = "new" ->
            IF rests THEN [order_sessions EXCEPT ![command.id] = command.session]
            ELSE order_sessions
      [] command.kind = "cancel" ->
            [order_sessions EXCEPT ![command.id] = NoSession]
      [] command.kind = "replace" ->
            [order_sessions EXCEPT ![command.id] =
                IF rests THEN command.session ELSE NoSession]

\* record_command_result()
Count(accepted) ==
    [c \in Counters |->
        metrics[c] +
        IF \/ c = "accepted_commands" /\ accepted
           \/ c = "rejected_commands" /\ ~accepted
           \/ c = "accepted_cancels" /\ accepted /\ command.kind = "cancel"
           \/ c = "rejected_cancels" /\ ~accepted /\ command.kind = "cancel"
        THEN 1 ELSE 0]

\* The handler leaves the loop over the executions, or never came to it.
ExecutionsTold == result.rejection # "none" \/ reported = Len(executions)

\* Fault: the units of the order before its trades are acknowledged.
UnitsBeforeTrades ==
    IF executions = <<>> THEN result.units ELSE result.units + executions[1].units

\* result.remaining_quantity, or the quantity cancelled; 0 if there is none.
RemainingUnits == result.units

\* The terminal response, the owner, and the end of process_one().
Respond ==
    /\ Answerable /\ ExecutionsTold
    /\ LET accepted == result.rejection = "none"
           rests == RemainingUnits > 0 /\ Contains(command.id)
       IN  /\ responses' = Append(responses,
                 Terminal(command.session, TerminalType(command.kind, result.rejection),
                          command.id, RemainingUnits))
           /\ order_sessions' = IF accepted THEN OwnersAfter(rests) ELSE order_sessions
           /\ metrics' = Count(accepted)
           /\ entrant' = IF accepted /\ command.kind # "cancel"
                         THEN [entrant EXCEPT ![command.id] = command.session]
                         ELSE entrant
    /\ handling' = FALSE
    /\ UNCHANGED <<bookVars, command, reported>>

\* The bounded run is over.
NoMoreCommands == ~handling /\ arrivals = MaxCommands /\ UNCHANGED vars

Next == \/ \E s \in Session, o \in NewOrder : NewOrderCommand(s, o)
        \/ \E s \in Session, id \in OrderId : CancelOrderCommand(s, id)
        \/ \E s \in Session, id \in OrderId, price \in Price, units \in Units :
              ReplaceOrderCommand(s, id, price, units)
        \/ Match \/ Report \/ Respond
        \/ NoMoreCommands

Spec == Init /\ [][Next]_vars

------------------------------------------------------------------------------
\* Properties

\* Between commands order_sessions_ has an entry for every resting order and
\* for no other, and it names the session that entered the order or was the
\* last to replace it, through fills, cancels and replaces by other sessions.
OwnersCurrent ==
    ~handling =>
       \A id \in OrderId :
          order_sessions[id] = IF Contains(id) THEN entrant[id] ELSE NoSession

IsExecution(m) == m.type = "execution"
Parties(e) == {command.session, entrant[e.resting]}
Tell(i, k) == IsExecution(responses[i]) /\ responses[i].about = executions[k]

\* When a command is done, every session has been told of exactly the trades
\* in which it has a part, once each and in the order they were made: the
\* session of the command of all of them, any other of those of its orders.
\* No two trades are with the same resting order.
PartiesTold ==
    ~handling =>
       /\ \A k, l \in DOMAIN executions : executions[k].resting = executions[l].resting => k = l
       /\ \A k \in DOMAIN executions : \A s \in Parties(executions[k]) :
             \E i \in DOMAIN responses : Tell(i, k) /\ responses[i].session = s
       /\ \A i \in DOMAIN responses : IsExecution(responses[i]) =>
             \E k \in DOMAIN executions :
                Tell(i, k) /\ responses[i].session \in Parties(executions[k])
       /\ \A i, j \in DOMAIN responses : \A k, l \in DOMAIN executions :
             i < j /\ responses[i].session = responses[j].session /\ Tell(i, k) /\ Tell(j, l)
                => k < l

\* What is sent for a command is executions and last, for the session of the
\* command, one terminal response.  That session is told by "more" with every
\* message whether it was the last.
TerminalEndsCommand ==
    ~handling /\ arrivals > 0 =>
       LET last == Len(responses) IN
       /\ last > 0
       /\ \A i \in DOMAIN responses :
             /\ IsExecution(responses[i]) = (i < last)
             /\ responses[i].session = command.session => responses[i].more = (i < last)
       /\ responses[last].session = command.session

\* "A command that produces N executions plus one terminal ack/reject sets `more`
\* on every event except the last", whichever session an event goes to.
MoreOnAllButLast ==
    ~handling /\ arrivals > 0 =>
       \A i \in DOMAIN responses : responses[i].more = (i < Len(responses))

\* The terminal response tells the state of the book: an accepted order or
\* replacement is acknowledged with the units that rest under its identifier,
\* zero if it does not rest.
AcknowledgesResting ==
    ~handling /\ arrivals > 0 =>
       LET last == responses[Len(responses)] IN
       last.type \in {"order_accepted", "replace_accepted"} =>
          {o.units : o \in Book!Resting(command.id)} = {last.about.units} \ {0}
==============================================================================
