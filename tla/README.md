# Low-Latency Exchange: TLA+ specifications

Specifications of the exchange in this repository, checked with TLC on small
instances and, where marked, proved with TLAPS for all values of the constants.
Module and operator names follow the C++ names; every definition that models
code is listed with its lines in `PROJECT.json`.

## 1. The system

One process, four threads, three bounded single-producer single-consumer rings:

```
 clients -- TCP sessions (io thread) --inbound queue--> matching engine thread
                 ^                                        |   |   |
                 +------------ outbound queue ------------+   |   |
                                    market-data queue --------+   +---- capture queue
                                          |                               |
                               publisher thread                    recorder thread --> event log --> replay
```

| Part | State | Operations | Hard behaviour |
| --- | --- | --- | --- |
| SPSC queue (`spsc_queue.hpp`) | slots, two atomic indices, a cached copy of each on the other side | `try_push`, `try_pop`, `size`, `empty`, `full` | two threads without locks, stale copies, indices that wrap |
| Order book (`order_book.cpp`) | price levels with FIFO lists and aggregated units, index by order id, ids ever seen | `submit`, `cancel`, `replace`, depth queries, digest | three structures to keep consistent through sweeps, partial fills and replaces; price-time priority |
| Reference book (`tests/reference_order_book.hpp`) | a flat list of orders | the same | the oracle of the differential tests |
| Market data (`market_data.cpp`) | feed sequence, snapshot cycle; subscriber depth | `publish`, `publish_one`, `apply` | drops when the queue is full, recovery by snapshot, end of the sequence numbers |
| Event log (`event_log.cpp`) | capture queue, output stream, file | `capture`, drain, `append`, `flush`, `replay_event_log` | drops, failed writes, crash, what an exit status of 0 means, damaged files |
| Process (`apps/low_latency_exchange/main.cpp`) | stop requests, joins | start, shutdown | order of stopping the threads |
| Matching engine service (`tcp_gateway.cpp`) | book, owner session of each order, metrics | three command handlers, `process_one` | order of responses, waiting for room in the outbound queue |
| Sessions and gateway (`tcp_gateway.cpp`) | sockets, write queues, last sequence, registry | asynchronous read, write, accept, drain, stop | callbacks in any order, disconnects, fatal errors with frames pending |
| Binary protocol (`protocol.cpp`) | none | header and payload codecs | which error is reported, limits of the fields |
| Latency histogram (`observability.hpp`) | buckets | `observe`, percentile | bucket edges |

The hazards found while reading the code are listed in `PROJECT.json`, each at
the line where it bites and with the properties that would catch it.

## 2. Modules

| Module | Models |
| --- | --- |
| `BoundedFifo` | what the ring promises: a FIFO of at most `Capacity` items, and how much the producer may not yet know of |
| `SPSCQueue` | `BoundedSPSCQueue`, one action per access to shared memory |
| `QueueObserver` | `full()` by a third thread, on top of `SPSCQueue` |
| `SPSCQueueProofs` | the theorems on the ring and on `size()` |
| `OrderTypes` | vocabulary of `types.hpp` and `order_command.hpp` |
| `ReferenceBook` | the reference book: abstract specification of the order book |
| `OrderBook` | the order book |
| `OrderBookLevels` | its inductive invariant, and lemmas on what happens to a level |
| `OrderBookProofs` | its invariants, proved |
| `OrderBookRefinement` | the proof that it implements `ReferenceBook` |
| `BookViews` | the queries of the order book: depth, top, copied depth, digest |
| `MatchingEngine` | `MatchingEngineService`: the handlers of the commands, over `ReferenceBook` |
| `MatchingEngineProofs` | its theorems |
| `Gateway` | `TcpGateway` and `TcpSession`: the completion handlers of the io thread |
| `Exchange` | gateway and engine joined by their queues, and the shutdown of `run_gateway` |
| `ExchangeProofs` | its safety theorems |
| `Protocol` | layout, codecs and checks of the wire protocol |
| `Wire` | one frame from encoder to decoder |
| `MarketData` | feed, queue, publisher, subscriber book |
| `MarketDataProofs` | its safety theorems |
| `EventLog` | capture, recorder thread, shutdown, crash, replay |
| `EventLogProofs` | its safety theorems |
| `LogFile` | the bytes of the event log: records, checksum, reading of damaged files |
| `MC...` | instances for TLC |

**`SPSCQueue`.** The two overloads of `try_push` are the actions `TryPush`
(compare with the cached copy), `ReloadRead` (acquire load and second compare),
`WriteSlot` and `Publish` (release store); `try_pop` is `TryPop`, `ReloadWrite`,
`ReadSlot`, `Release`. A load of the index owned by the other thread may return
any value between the one this thread saw last and the current one (`Visible`):
that is what coherence guarantees, and no more. Since each index is stored with
release and loaded with acquire, the slot contents belonging to a visible index
are visible as well, so the slots are plain state. Indices are taken modulo
`IndexModulus` (2^64 in the code); the only assumption is that `Capacity`
divides it properly, which holds since capacities are powers of two. An end calls
`size()` between its own calls; what it may return is `ProducerSizes` and
`ConsumerSizes`.

The components that use a queue do not repeat the ring: they use the actions
`Accept`, `Refuse` and `Pop` of `BoundedFifo`, which the ring implements. In
particular a push may be refused although a slot was just freed, because the
producer may not have seen it (`unseen`).

**`OrderBook`** and **`ReferenceBook`.** A command that matches takes several
steps: `Submit` or `Replace` puts the order into `incoming`, each `MatchFront`
is one turn of the inner loop of `match_against_book`, `Finish` inserts or drops
the remainder. Nothing else is enabled in between, as in the code, where the
book has one thread. A level exists in `prices` iff the map has it; `SetLevel`
does what every writer of a level does: new list, new total (modulo
`UnitModulus`), erase when empty. The stored list iterator is the position of
the identifier in its list. `sequence` is the number of the command: the
sequence a single session would send. The book itself never orders by it.
`ledger` is a history variable for the conservation property. Quantities and
prices are small numbers; matching and the priority rules are as in the code.
`validate_invariants()` is stated in `MCOrderBook`, since its sums need the
folds of the library and nothing is proved about them.

**`BookViews`** adds the read-only operations to `OrderBook`. `Levels` is the map
of a side in its order; `CopyDepth` fills a buffer that still holds an earlier
depth. The digest is modelled up to the hash: `DigestWords` is the sequence of
words that `state_digest` feeds it.

**`MatchingEngine`.** A handler is several steps: the call of the book
(`NewOrderCommand`, `CancelOrderCommand`, `ReplaceOrderCommand`, then `Match`
while the book trades), one `Report` per execution, and `Respond` for the
terminal response, the entry in `order_sessions_` and the counters. The book is
`ReferenceBook`, which stands for `OrderBook` by the refinement. `entrant` is a
history variable: who last entered or replaced an order.

**`Gateway`.** An action is one completion handler, run to its end, since the
`io_context` has one thread. `session[c]` is the `TcpSession` of a connection:
`reading` and `writing` say which asynchronous operation is pending,
`write_queue`, `last_sequence` and `close_after_write` are its members.
`ReadCommand` has a disjunct for each outcome of `enqueue_command`. The handler of
the drain timer is the one exception: `poll_outbound` takes one message per
`PollOutbound` while the engine may go on pushing, and `PollEnds` is its return; no
other handler runs in between (`io = "draining"`). A read or a
write may fail at any time. What remains of a session after `unregister_session`
(a pending read or write keeps it alive) goes on as in the code. Boost.Asio
appears only in this: operations complete or fail, in any order.

**`Exchange`** adds the engine thread (`ProcessOne`, `PushOutbound`, `Spin` while
the outbound queue is full, `BatchEnds` and `EngineLoop` for the loop in
`main.cpp`) and the main thread (`RequestStop`, `Exit`). Of the book only this
is kept: a command has one terminal response, before it possibly reports of a
trade, also to another session that has been active. The counting histories
`addressed`, `received` and `answered` relate what the engine pushed to what a
client has read.

**`Protocol`**, **`Wire`**, **`LogFile`** work on bytes. `Base` (values of a byte)
and `Word` (bytes of a 64-bit field) are parameters; the offsets scale with
`Word`, everything else is as in the code. In `Wire` one byte of a client's frame
may differ from what the encoder wrote; in `LogFile` the file may be cut
anywhere or have one byte changed. The checksum is FNV-1a with parameters of a
fitting size: what matters is that the multiplier is odd, so that a step of the hash
is injective; the basis is arbitrary.

**`MarketData`.** `Publish(image)` is the call of `publish` after a command
that left the engine's book with this depth image; `PublishOne` pops an event
and applies it. An image is opaque, because snapshots and updates both carry the
whole of it. `images` (the engine's depth at each sequence) and `applied` are
history variables.

**`EventLog`.** The book is any deterministic machine that a refused command
leaves alone (which `ReferenceBook` shows of the book): its state is the
sequence of accepted commands, and `Accepts` is a parameter. The recorder's two
loops, the flush, the order of stops and joins in `run_gateway` and the exit
status follow the code. `OnDisk` and `Crash` are the environment: after a
successful flush the file is complete, otherwise it is any beginning of what was
appended, possibly cut inside a record. Replay reads that file one record per
step. A record is whole or torn here; its bytes are the subject of `LogFile`.

## 3. What is checked

Runs that pass:

| Run | Instance | Checks |
| --- | --- | --- |
| `spsc_queue` | 4 slots, indices modulo 8, 2 items | no slot race, cached copies stale on the safe side, refinement of `BoundedFifo`, a polling consumer is served; `size()` by the producer never reports too little, by the consumer never too much, by nobody more than the capacity |
| `order_book` | 3 orders, 2 prices, 2 quantities, 5 commands | `validate_invariants()`, index consistency, conservation order by order, refinement of `ReferenceBook`; depth, top and copied depth show the resting orders, and the digested words determine them |
| `market_data` | queue of 3, snapshot after 2 updates, 7 sequences, 9 commands | the subscriber shows depths the engine had, no gap before an update, nothing refused, regular snapshots, out of date only while a snapshot is due, every queued event shown |
| `event_log` | queue of 2, 4 accepted commands | log equals history, exit status 0 vouches for the file, replay rebuilds the state, after a crash a prefix of it, shutdown ends |
| `matching_engine` | 2 sessions, 3 orders, 2 prices, 4 commands | owners of resting orders, who is told of which trade, one terminal response per command and what it says |
| `exchange` | 2 connections with 1 sequence each, queues of 1 and 2 | commands keep their order, a client reads a gapless prefix of its own responses, nothing reaches the engine after a protocol error; a session in error stays on its way to the close, and its error frame is written; a queued command is answered, only a full outbound queue delays the exit |
| `byte_formats` | bytes of 5 bits, fields of 4 bytes; logs of 2 records | frames: round trip of every message, accepted frames are canonical and their commands valid, with one byte changed; log files cut at every length or with one byte changed: replay hands out a prefix, and success means whole, unchanged records (though not all of them, see `truncated_log`) |

Runs that show a disagreement with what the repository says:

| Run | Shows |
| --- | --- |
| `queue_full_torn` | `full()`, called by a thread that owns neither end, answers true for an empty queue: `w - r` wraps when an item is pushed and popped between the two loads. `size()` has the clamp that `full()` lacks. |
| `order_book_overflow` | units resting at one level can add up to the width of `total_units`: the level is then listed with a total of zero, `validate_invariants()` fails, and the depth queries dereference an empty optional. |
| `shutdown` | Ctrl-C while the outbound queue is full: `push_outbound` waits for a consumer that has stopped, so the engine thread never looks at its stop token and `run_gateway` never returns from `join`. |

| `more_flag` | an execution is sent with `more` to the session of the command and without it to the owner of the resting order, with the terminal response of the command still to come. `docs/protocol.md` says that `more` is set on every event of a command except the last. It is right for the session that sent the command, which is what `TerminalEndsCommand` checks; for the other one a missing `more` says nothing about the command. |
| `truncated_log` | a log that was cut between two records is replayed with success: the end of the file at a record boundary is the end of the log, and nothing tells how many records there were. The `README.md` of the repository says that replay fails for a truncated log; that holds for a cut inside a record, which is what `SuccessVouches` checks. |

A further disagreement was met while modelling and has no run of its own:
`docs/protocol.md` defines `order_id` 0 in a rejection; the decoder makes it 1
(`DecodeEvent` has this). The engine sends no such rejection.

**When a session in error is closed.** `docs/architecture.md` says that a protocol
error closes the session "after the frame is flushed". In the code, and in the
model, the close comes when the write queue is empty. Until then the session stays
registered, so that responses to its earlier commands, and executions of its
resting orders, are sent behind the error frame and put the close off. That it
comes in the end is not a property of the gateway: nothing in it bounds how many
executions follow. What the gateway does guarantee is checked, and the first
part proved for any number of responses: `CloseStaysDue` (the session reads no
more, and is never left open without a write that ends in its close) and
`ErrorFrameWritten` (the error frame itself is written, or the session lost). The
close then follows from the book: after its error the session enters no orders,
and each execution takes units off those it has.

**Bounds.** The ring needs none: its indices wrap, so the run covers unboundedly
many items; four slots with indices modulo eight let a copy lag by every
distance up to a full lap. `size()` compares the
indices as numbers, so `OccupancySound` leaves out the states in which they
straddle the wrap, which takes 2^64 pushes in the code. Five commands on
three orders suffice for two orders in a level, a sweep over two levels or two
orders, a replace of a partly filled order and a cancel behind it. In
`market_data` there are more commands than sequences, so the exhausted feed is
reached, and the queue can hold a whole snapshot cycle. In `event_log` the
history is longer than the queue, so it overflows both while the recorder runs
and after it has given up. In the `exchange` run a
queue holds fewer messages than one command may have responses (three), so the
engine waits in the middle of a handler; two connections give a session whose
number may be confused with that of a departed one, and a trade with another
session. A sequence sent again is a late command, and an inbound queue of one
is full while a command waits in it. More commands per connection make the
liveness check too large; the safety properties of the run are proved for any
number of them (section 4). In `byte_formats` five bits are
enough for all message types and error codes to fit into a byte, and four bytes
for a field whose bytes all differ; a 16-bit field stays two bytes. Symmetry is
used only for order identifiers and sessions, which are only compared, and only
in runs without liveness.

**Fairness.** `SPSCQueue!Fairness`: a call that has begun goes on, since neither
`try_push` nor `try_pop` can block; the consumer keeps calling, as all consumer
threads in `main.cpp` do in a loop; and a store becomes visible in finite time
(strong fairness of the reload that returns the latest value). `MarketData`: the
publisher thread keeps polling. `EventLog`: the recorder and the main thread are
scheduled. `Exchange`: the engine and the main thread are scheduled, the drain
timer fires again as long as the `io_context` runs, `poll_outbound` returns once it
has emptied the queue, and a started write succeeds or fails. The last is an assumption on clients, that they read or go away: the
code has no write timeout, and without it `CommandAnswered` and
`ErrorFrameWritten` do not hold. Nothing is assumed of clients sending
anything, of reads completing, or of a shutdown ever being requested.

## 4. What is proved

The proofs make no assumption beyond the named `ASSUME`s of the modules, which
TLC evaluates on every instance. Each inductive invariant was itself checked by
TLC on a small instance before it was proved.

| Proof module | Theorem | States for every value of the constants |
| --- | --- | --- |
| `SPSCQueueProofs` | `CopiesSafe`, `NoRace`, `Implements`, `SizeSound` | `CopiesConservative`, `NoSlotRace`, `ImplementsFifo`, `OccupancySound` |
| `OrderBookProofs` | `TypeCorrect`, `IndexCorrect`, `UnitsConserved`, `SpreadKept` | `TypeOK`, `IndexAgrees`, `Conservation`, `Uncrossed` |
| `OrderBookRefinement` | `Implements` | `ImplementsReference` |
| `MatchingEngineProofs` | `OwnersKnown`, `PartiesInformed`, `TerminalLast`, `AcknowledgementTrue` | `OwnersCurrent`, `PartiesTold`, `TerminalEndsCommand`, `AcknowledgesResting` |
| `ExchangeProofs` | `SendOrderPreserved`, `ResponsesReachTheirClient`, `ErrorEndsCommands`, `ErrorClosePending` | `CommandsInOrder`, `ResponsesWithoutGap`, `NothingAfterError`, `CloseStaysDue` |
| `MarketDataProofs` | `TypeCorrect`, `SubscriberShowsEngineDepth`, `UpdatesContinue`, `EveryEventApplied`, `SnapshotAtLeastEveryInterval`, `StaleSubscriberRecovers` | `TypeOK`, `ShowsEngineDepth`, `NoGapBeforeUpdate`, `NothingRefused`, `SnapshotsRegular`, `StaleOnlyAfterDrop` |
| `EventLogProofs` | `TypeCorrect`, `RecordsHistory`, `CleanExitVouches`, `CleanRunReplays`, `ReplayRebuildsAState` | `TypeOK`, `LogIsHistory`, `CleanExitComplete`, `ReplayOfCleanRun`, `ReplayIsPrefix` |

**The ring** (`SPSCQueueProofs`), for every capacity of at least two and every
index width it divides properly:

- `CopiesSafe`, `NoRace`: the invariants of the run;
- `Implements`: the ring implements `BoundedFifo`;
- `SizeSound`: what `size()` tells either end is on its safe side, unless the
  indices straddle the wrap.

`NoSlotRace` is not inductive: it says nothing about how far the copies may be
off. `CopiesConservative` does: it states the order
`cached_read <= read_index <= cached_write <= write_index <= cached_read + Capacity`
along the circle of indices and the room (or item) that a decision relies on.
The inductive invariant `IInv` is `TypeOK`, `CopiesConservative` and `Written`
(the slot about to be published holds the item); `NoSlotRace` follows from it.
The arithmetic lemmas (`AheadValue`, `AheadStep`, `SlotAhead`, ...) turn
remainders into case distinctions once, so that the steps reason about distances
only.

**The order book** (`OrderBookLevels`, `OrderBookProofs`), for every set of identifiers, any prices
in `1..MaxPrice`, any positive quantities and any number of commands:

- `TypeCorrect`, `IndexCorrect`, `UnitsConserved`: the invariants of the run;
- `SpreadKept`: every bid is below every ask, in the middle of a match as well.

The inductive invariant `IInv` is `TypeOK` and `Uncrossed` with

- `Levels`: the identifiers in the list of a level are exactly those the index
  sends there; no identifier occurs twice; sequences increase along the list;
  each order has the units its ledger entries leave it; the level exists iff
  the list is not empty;
- `Matching`: the order being matched is known, rests nowhere, has its balance
  still to trade and, if it is a limit order, a price;
- `Known` and `Settled`: an identifier never accepted rests nowhere, and an
  order that is gone has a balance of zero.

`IndexAgrees` alone would not do: that a removal takes the right order out needs
uniqueness within the list, that a remainder may join a level needs that no
other crossing price is left (`NoneCrosses`, from the existence of a best price,
`BestExists`), and that the balance is right needs the order being matched. The
argument goes through what a list operation does to one level (`GoodAppend`,
`GoodRemove`, `GoodReduced`), then through `ChangeLevel` (one level changes, the
others do not notice), then through one lemma per branch of an action.

**Refinement** (`OrderBookRefinement`): `Implements`, the order book implements
`ReferenceBook`. `FlatChange` says what a change of one level does to the flat
book; `RestingOne` that the index finds the order a search finds; and
`FrontIsFirst` that the front of the best level comes before every other
candidate, by price between levels and by sequence within one. This is price-time
priority for every sequence of commands, where the differential tests sample it.

**The matching engine service** (`MatchingEngineProofs`), for every set of
sessions, orders, prices and quantities and any number of commands. Between
commands `OwnersCurrent` is what counts, but a handler breaks it and restores it
in the course of several steps: matching takes filled orders off the book while
their entries stay, `Report` erases the entry of one order at a time, and the
entry of the command's own order is written last. The inductive invariant says
how far the handler has come:

- `Owned`: an order has its owner as long as it rests *or a trade with it is still
  to be reported* (`Pending`); the command's own order is exempt until the handler
  is done, unless the command was refused;
- `TradesOnce` and `WhileMatching`: a command trades with an order once at most
  (what it has traded with is gone, or else it has nothing left to trade) and never
  with its own, so an owner is erased only after the last message that needs it;
- `Messages` and `Ending`: the parties of the trades reported so far, and of no
  others, have been told, in order;
- `Outcome`: the result tells what rests, so `rests` in the handlers is the same as
  `contains`.

**The gateway and the engine** (`ExchangeProofs`), for any number of connections
and of commands and any capacities. The first three properties speak of the write queues
and of the inbound queue; what makes them inductive is what happens to a response on its
way there:

- `Identified` and `UnderWay`: identifiers of sessions are never reused, and
  whatever is queued belongs to a connection that was accepted, so that a message
  for a session that is gone cannot meet another one;
- `Sequenced`: the `last_sequence_` of a session is ahead of its commands, queued
  or handled;
- `SessionsQueue`: the responses in a write queue are numbered without a gap after
  those the client has read, not counting the one error frame, after which the
  session reads no more;
- `OutboundOrdered` and `OutboundComplete`: for a registered session the outbound
  queue holds exactly the responses that follow on those handed to it.

One lemma per handler (`AcceptKeeps`, `ReadCommandKeeps`, `WriteDoneKeeps`,
`PollOutboundKeeps`, ...) shows that it keeps the invariant; they rest on
`HandlerKeeps` (a handler changes one session) and on lemmas on what appending and
removing a frame do to the numbering. `ErrorEndsCommands` is an action property:
it follows from the invariant step by step, because a session in error has no
read pending. `ErrorClosePending` has an invariant of its own on top of this one,
`SessionsClose`: a registered session with something queued has a write under way.
Without it the error frame could join a queue that nobody writes. A session whose
write failed is in that state, but it is not registered any more and ends with its
read loop.

**Market data** (`MarketDataProofs`), for every capacity, snapshot interval,
range of sequences and number of commands. That no update follows a gap is not
inductive: it depends on `Continues` (while no snapshot is due, the last sequence
spent is the last one queued or applied), which is what setting
`snapshot_pending_` on a drop is for. `Faithful` relates the queued images to the
engine's depth, and `Counted` bounds the updates at the end of the queue by the
counter. `SnapshotAtLeastEveryInterval` and `StaleSubscriberRecovers` follow from these.

**Capture, log and replay** (`EventLogProofs`), for every deterministic book, any
commands and any capacity. `Phases` is the order of the shutdown: a recorder
whose stream is good leaves its loop only after the engine has been joined, and
ends on an empty queue. With `Recorded` (as long as nothing was dropped the stream
and the file are beginnings of the history) and `CleanExit` this gives
`CleanExitComplete`. `Legal` (each command was accepted in the state its
predecessors led to) is why replay never sees a command refused that the engine
had accepted, and `Replaying` gives the two properties of replay.

**Only model-checked.** Every safety property of a run is proved, with these
exceptions, which are out of the prover's reach:

- liveness, since it needs fairness and `ENABLED`: `Served` of the ring,
  `EachEventShown`, `ShutdownCompletes`, and `ErrorFrameWritten`, `CommandAnswered`
  and `OnlyFullQueueDelaysExit` of the `exchange` run;
- what needs induction over lists: the sums and counts in `ValidateInvariants`
  and the properties of `BookViews`;
- what the recursive codecs and checksums compute: the properties of
  `byte_formats`.

## 5. How the pieces fit

Each proof is about one component and the abstract form of what it uses. The
queues between threads are `BoundedFifo`, which `SPSCQueueProofs!Implements` shows
of the ring; the book under the matching engine is `ReferenceBook`, which
`OrderBookRefinement!Implements` shows of the order book; the engine in
`Exchange` and the book in `EventLog` are reduced to what these parts depend on,
as described in section 2. That the reductions are right is an argument of this
document and not a theorem.

## 6. Not modelled

- The version string.
- The benchmark (`benchmark.cpp` and its program) and the latency histogram: they
  measure, and no part of the exchange depends on what they hold.
- The command line and the messages of the programs, and logging.
- Byte counts, high-water marks of queues and the time stamps in the metrics:
  they are written and reported, and nothing depends on them.
- The hash of `state_digest`: two books may collide. What is shown is that
  different books are hashed from different words.
- The inside of Boost.Asio and of the operating system's sockets and files.
- The publisher thread at shutdown: it holds nothing that its end could lose, and
  its loop cannot block.
