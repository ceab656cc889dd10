# TLA+ models of LiteMQTT

This directory specifies, model-checks and partly proves the library: the
`connection` that owns the socket, its write queue and its packet reader, the
codec, the `mqtt_client` that runs a session on them, the `mqtt_helper` that
brings sessions back, and the log channels all of them share. Paths without a
directory are under `src/inc/litemqtt/`; `README.md:n` in a comment of a module
is the README of the repository.

## 1. The system

| Component | State it keeps | Operations | Interacts with | What makes it correct |
|---|---|---|---|---|
| `connection`: sockets and writes (`connection.hpp`) | `state_`, `closed_`, the socket, `write_queue_`, `in_flight_`, `writing_` | `async_connect`, `async_write_packet`, `mark_connected`, `close`, and the completions of resolve, connect and write | Asio below, `mqtt_client` above (handlers) | one write at a time and in call order; every write handler runs exactly once; nothing held by a closed object |
| `connection`: framing (`connection.hpp:143-259`) | `reading_depth_`, `read_header_`, the length under assembly | `async_read_packet` and the completions of its reads | the stream, the read loop of `mqtt_client` | packets come out as they were sent, whatever the cuts; one reader; bad frames are refused and good ones are not; the end is noticed |
| codec (`packets.hpp`, `buffer_reader.hpp`, `buffer_writer.hpp`, `packet_type.hpp`) | - | `serialize`, `parse` | framing, `mqtt_client` | `parse` inverts `serialize`; lengths of one to four digits |
| `mqtt_client` (`client.hpp`) | `closed_`, `next_packet_id_`, `pending_publishes_`, `pending_pubrecs_`, `pending_subscribes_`, `ping_timer_`, `connect_timer_`, one timer per pending entry | `async_connect`, `async_publish`, `async_subscribe`, `async_disconnect`, `close`, the handlers of the packet types, four timers, `notify_closed_once` | `connection`, the broker, the application's callbacks | every publish answered exactly once; success means delivery; bounded retries; every attempt decided; silence noticed; nothing carried into the next session |
| `acquire_packet_id` (`client.hpp:717-740`) | `next_packet_id_` and the keys of the three maps | the scan | publish and subscribe | an identifier is never held twice nor handed out twice in a row |
| `mqtt_helper` (`mqtt_helper.hpp`) | `running_`, the io thread, `reconnect_timer_`, `reconnect_attempts_`, the stored subscriptions | `start`, `stop`, `rearm_reconnect`, `do_connect`, `do_reconnect`, `subscribe`, `publish`, `set_log_handler` | user threads, the io thread, `mqtt_client` | an armed helper is on its way back to the broker; a failure counts once; every session gets the subscriptions; `stop()` comes back and leaves nothing behind |
| `log` (`log.hpp`) | `level_` and `handler_` of the process, `handler_` of each client and helper, a mutex for each | `write`, `set_handler`, `set_level` | every component, sinks of the application | the resolution order holds; no lock is held in a sink; nobody blocks |
| error categories, umbrella header | - | - | - | declarations only |
| demo, stress tools, tests (`src/main.cc`, `src/tools`, `src/test`) | - | - | users of the library | read as statements about it |

`mqtt_helper` is where threads meet: its owner calls `start()` and `stop()`,
others `rearm_reconnect()`, `subscribe()` and `publish()`, callbacks of the
application may call any of them on the io thread, and what they share are a
handful of atomic flags, a pointer under a mutex and the queue of the
`io_context`. All protocol work runs on one io thread, which takes handlers
from a FIFO: the calls posted by `async_write_packet()`, `async_publish()` and
`async_subscribe()`, completions of asynchronous operations, and expired
timers. What is hard in this code follows from that queue:

- a handler that is already queued cannot be revoked: cancelling a timer or
  closing a socket does not remove what has completed;
- state is read when a call is posted and used when it runs (`do_write()` posts
  `fail_pending_writes()`, the connect chain ignores `close()`);
- several parties end the same entry (acknowledgement, retry timer, failed
  write, teardown), and each has a callback to run;
- the objects are reused: a new attempt starts on the same `connection` while
  handlers of the last one are still queued, or its resolver still works;
- the peer owes nothing: it may stop reading, stay silent, refuse or vanish.

`PROJECT.json` lists these hazards line by line, with the properties that cover
each one.

## 2. Modules

| Module | What it is |
|---|---|
| `PacketIdOps` | cyclic arithmetic of packet identifiers (`SuccId`, `NthId`, `FirstFreeAt`, `NoneFree`) |
| `PacketIdAlloc` | abstract specification: an allocation is one atomic step that grants the first free identifier after the last |
| `PacketId` | the loop of `acquire_packet_id()`, one action per way through an iteration; implements `PacketIdAlloc` |
| `ConnectionOps` | the members of `connection` as a record, and what its functions do to it |
| `Connection` | `connection` under any owner, and under an orderly one (`orderly`): calls of the owner, the network, the io thread |
| `Bytes` | digits of a remaining length and the type bits of a first byte |
| `Framing` | the packet reader of `connection` under the read loop of `mqtt_client` |
| `Wire` | `serialize()` and `parse()` of the packets, down to the bytes |
| `WireMC` | `Framing` and `Wire` together: the streams TLC explores, and `Decoded`, which relates the two |
| `PublishContract` | abstract specification: what an application may rely on about its publishes |
| `Client` | `mqtt_client` on top of the record of `ConnectionOps`, with application, broker and timers; implements `PublishContract` |
| `ClientMC` | the setups of `Client` for TLC |
| `Helper` | `mqtt_helper` and its threads, over what its callbacks can tell of the client |
| `HelperMC` | the setups of `Helper` for TLC |
| `Log` | the process wide logger and the channels of a helper and its clients, lock by lock |
| `PacketIdProofs`, `FramingProofs`, `LogProofs` | proofs about `PacketId`, `Framing` and `Log` |
| `ConnectionProofs`, `ConnectionFlightProofs` | proofs about `Connection`: handlers and order for any owner; the write in flight for an orderly one |
| `ClientProofs`, `ClientFirstProofs` | proofs about `Client`: in every attempt; until `async_connect()` is called a second time |
| `HelperProofs` | proofs about `Helper` |

`Client` and `Helper` have one constant, `Setups`: a set of records, each with
the settings of the object, the bounds on the calls of its application and the
faults its surroundings may commit. A behaviour picks one and keeps it, so that
one run explores several situations.

### How state corresponds

`conn` is `*conn_` or the object itself. `loop` is the FIFO of the `io_context`:
each record is a posted call or a completion, and every `Run...` action takes
the head and does everything the C++ handler does before it returns, callbacks
and nested `close()` included. `resolving`, `connecting`, `ops`, `readOp` and
`op` are operations Asio has outstanding; their completions (`ResolveDone`,
`ConnectDone`, `WriteDone`, `WriteTaken`, `WriteBroken`, `ReadDone`) queue the
handler. Closing the socket (`Aborted`, `CloseSocket`) queues the failed
completions of what is outstanding; what has completed stays in the queue with
its success.

In `Client`, `ses` has the members of `mqtt_client`. An entry of `pub`, `rec`
or `sub` is an element of the corresponding map; `armed` says that its timer is
waited for. An expired timer queues a handler and is no longer armed;
cancelling disarms and leaves the queued handler, which is what Asio does.
`connTimer` and `ping` are the two timers of the session. A resolver is not
cancelled by anything: `resolving` counts those at work, and several connect
chains may run on one connection. A handler is described by an *effect* (the
record `NoEffect` and its updates: session, connection, callbacks run, frames
posted, whether a read starts, whether `do_write()` follows), and `Do` turns the
effect into the next state. `ErasedFirst` has the subscribes whose callback gets
its filters from an erased map entry: whether it hears of them is a free choice.
`app`, `reported`, `pubAnswers`, `subAnswers`, `sent` and `taken` are histories
the properties read: what the application was told and what the broker took.

In `Framing`, `header` and `length` are `read_header_` and the
`remaining_length_state`, `depth` is `reading_depth_`, `wire` has the bytes that
are on their way, and `sent` and `got` are the packets at both ends of one
stream. The connect chain of an attempt is reduced to `dial`, so that a new
stream can meet the handlers of the old one.

`Helper` has a variable for each atomic member and a place (`ownerPc`,
`rearmPc`, `ioPc`) for each thread inside a call. A call is cut where another
thread could see or change a member in between: `stop()` between each of its
flags and the cancelled wait (`Disarms`), the exchange of `running_`, its
DISCONNECT, the wait for it, `io_.stop()`, the join and `release_client()`, and
in a callback, on the io thread, in the same places up to the DISCONNECT;
`do_reconnect()` between its check, its claim and what it
decides; `rearm_reconnect()` between its check, its exchange, the counter and
the post. A callback takes its place on the io thread (`"restore"`,
`"reconnect"`), so that the owner may act in the middle of it. `client` is
the client as far as `mqtt_helper` depends on it: whether it is up, what could
still call back, and the DISCONNECTs it has yet to write. `LeftBehind` is what
`release_client()` leaves in the queue: timers of the helper, posted rearms,
publishes, and the handlers of DISCONNECTs, which hold references of their own;
what else was queued still runs, with no callback left to call (`RunGone`).
`heard` and `lateBye` say whether the handler of `stop()`'s DISCONNECT ran in
the wait or after it, `crashed` that `std::terminate()` was called. `counted`
and `subscribed` are histories the properties read.

In `Log`, `owner` has the thread that holds each mutex; `rec[t]` is the record
thread `t` emits, on its way from level check to handler, and `call[t]` the
configuring call it is in, maybe from inside a sink.

### Abstractions

- **Data.** In `Client`, topics, payloads, credentials and reason codes are the
  number of the call they belong to, and a packet is read as a whole. In `Wire`
  a string is a sequence of bytes, which bytes is of no concern. A record of the
  log has a level and no text.
- **Time.** There is no clock: a wait may end at any moment, so a wait of 0 s
  (`keep_alive_seconds_ / 2` for one second) looks like any other.
- **Callbacks** are never null. A callback of the application does nothing to
  the client from within; what it would do (reconnect, publish, disconnect) is
  an action of the application between two handlers, which is how `mqtt_helper`
  does it (a reconnect goes through a timer). `stop()` in a callback of the
  helper is modelled, and so is reconfiguring the log in a sink.
- **Subscribes** have one filter, as `async_subscribe()` sends them.
- **`Wire`** writes the four letters of the protocol name as four small bytes,
  and has the radix of a length digit (128) as the constant `Radix`.
- **`Connection`**: the class puts no condition on the calls of its owner, and
  `mqtt_client` makes use of that: it begins a connect next to a chain whose
  resolver still works, connects over a session that is up when `mqtt_helper`
  does (`OneAttempt`, section 3), marks a closed connection connected
  (`stale_connack`) and lets subscribes through during a connect. The owner of
  the model does all of this, at any moment, in the behaviours with `orderly`
  FALSE. Where `orderly` is TRUE it has one connect chain at a time and none over
  a live session, submits no frame during it, and marks only a connection that
  is handshaking: four properties are about such an owner only, and say so.
  With either, a handler does no more to the connection than `close()`, and a host has one address, so an
  aborted connect does not try the next.
- **`Framing`** has one connect chain at a time; several are in `Client`.
- **`Helper`**: the resolver answers at once; the attempt counter stands still
  when the helper retries for ever (only the log reads it then); a topic is
  subscribed to once, and one publish is made, of which the PUBLISH is written
  when it is accepted; `publish()` takes the client and posts to it in one step.
  `initial_connect_` is written and never read, and left out.
- **`Log`**: the level is read in one step, as an atomic is; a record that fails
  its first check is no action. A client may emit from the moment it is made,
  before it is assigned and after it was released, as handlers that hold it do.

## 3. Runs

| Run | Configuration | Question | Bounds | Distinct states |
|---|---|---|---|---|
| `packet_id` | `PacketId.cfg` | Does the scan implement the atomic allocation, end, and never repeat itself? | 4 identifiers: start, neighbours and the wrap are distinct; every subset of them held | 321 |
| `connection` | `Connection.cfg` | Whatever its owner calls and when, does a handler run twice, does a closed connection hold one, is the wire in order? Does an orderly owner hear of each frame, and truly, with one write at a time? | 4 frames: one in flight, two waiting, one after the close; 2 attempts, that may overlap; the handler of frame 2 closes | 561,826 |
| `publishing` | `ClientPublishing.cfg` | Is every publish answered once and truly, in QoS 1 over two attempts and in QoS 2? | `Reconnects`: 3 sends as in the code, 2 attempts, all faults, late resolver. `ExactlyOnce`: 2 sends, a first one, a re-send, a give-up; silence, drops, and a peer that stops reading. `WritesFail`: QoS 2, one send, any write may fail, that of the PUBREL too. `TwoSessions`: keep-alive over two attempts, a ping timer of the first firing in the second | 420,786 |
| `services` | `ClientServices.cfg` | A full window and exhausted identifiers; a SUBACK of any kind; a QoS there is not; the ping chain and the end of a session from every side | `WindowFull`: window 1 (1000 in the code), 2 identifiers (65535), publishes of QoS 0, 1, 1, a subscribe. `InvalidQos`: a publish and a subscribe of QoS 3. `Pings`: 1 inbound PUBLISH of QoS 1, 2 or the invalid 3, an `async_disconnect()` or `close()` | 94,323 |
| `helper` | `Helper.cfg` | Does reconnection survive every order of `stop()`, rearm, give-up, failures and the timer? Is a failure that is reported twice counted once? Does a second `start()` begin afresh? Does `stop()` come back? Is a publish answered? | `OneStart`: every fault and the connect timeout, with 3 retries or no limit, so that a second report finds retries left, and with 1, so that the helper gives up. `Rearmed`: 1 rearm, every fault. `Subscribed`: 1 topic, connect failures and drops, with a stop in a callback in 1 start, and in 2 starts. `StartsTwice`: 2 starts and a stop in a callback. `Publishes`: 2 starts, 1 publish, drops | 910,009 |
| `wire` | `Wire.cfg` | What comes out of the reader, for packets of every kind and frames to be refused? | radix 3, so that the 19 packets have lengths of one to four digits and fill two (8) and three (26) of them; two frames on the first stream, two on a second | 73,329 |
| `log` | `Log.cfg` | Do records go where they should, and does anybody block? | 2 threads, 1 sink, 1 client, 2 records, 2 configuring calls, each also in a sink | 660,415 |

A run with several pending entries of each kind would multiply the state space
without a new interaction: entries meet only in the identifier space, the
window and the teardown, which `WindowFull` covers with three.

What they show, beyond types:

- `AllocSpec`, `ScanEnds`, `NoImmediateReuse`: the loop skips nothing it could
  hand out, across the wrap; to its callers it is one step.
- `ReportedAtMostOnce`, `ClosedHoldsNothing`, `WireInCallOrder`: whatever the
  owner calls and when, no write handler runs twice, whichever of `close()`, a
  failed write and the completion comes first; a closed connection is in no cycle
  of handlers, which the comments of `connection.hpp` warn of; frames are
  written in call order.
- `NothingLost`, `EveryWriteReported`, `OneWriteAtATime`, `GoodWasDelivered`: for
  an orderly owner each handler does run, one write is outstanding at a time,
  and success is reported only for bytes the peer took. TLC refutes each of the
  safety properties for other owners, see "Further disagreements".
- `PublishAnsweredOnce`, `PublishAnswered`: the promise of README.md:202, even
  when the peer stops reading altogether (for QoS 1 and 2; a QoS 0 publish has
  no timer and waits for its write, see `FairWritesSpec` below).
- `PublishSpec`: seen through what the application was told and the broker took,
  `Client` implements `PublishContract`: an answer is final, success follows
  delivery, and a publish that was reported as failed does not reach the broker
  afterwards. With `NothingResent` and `PublishesBounded` these are the table
  and the rules of README.md:316-341.
- `KeepAliveWatched`, `ReadLoopAlive`: no ping chain or read loop is left without
  somebody to wake it; the first in the first attempt only (section 4).
- `AttemptDecided`, `SilenceNoticed`, `ShutdownReported`, `SubscribeAnswered`:
  what must happen in the end.
- `IdsUnique`: no two calls share an identifier. `NoEarlyPublish`: in the first
  attempt no PUBLISH is accepted before the CONNACK.
- `NotStranded`: the claim `reconnect_pending_` is given back on every path, so
  an armed helper always has a timer, an attempt, a session or a report to come.
- `OneRetryPerAttempt`: one failure is one retry, while retries are left for a
  second report to be counted, in the first life of a helper that is not rearmed.
  A second `start()` and a rearm break it, see `OneRetryEver` below.
- `Resubscribed`: storing the topic before looking at the connection is what
  keeps it from falling between `subscribe()` and `on_connect(true)`.
- `PublishHeard`: a publish is answered while the helper runs, also one that a
  `stop()` of the owner left in the queue and the next `start()` finds there.
  After a stop in a callback the next loop may be stopped, see `RunningIsServed`
  below.
- `StopReturns`: `stop()` comes back; the unconditional `io_.stop()` before the
  join is what makes it so after a stop from a callback.
- `Decoded`, `FramesIntact`, `NoFalseAlarm`, `FramesArrive`: the read handler is
  given the frames that were sent, byte for byte and in order, and each parses to
  the fields that were written; an error is raised only over a reserved type or a
  length of more than four bytes; no packet and no end of a stream goes
  unnoticed, unless the owner closes it.
- `RoutedAsConfigured`: object, process, built-in sink, in that order and from
  the enabled level on, for every record that no reconfiguration overlaps.
  `NothingBlocks`: emitting and configuring end, also from inside a sink.

`TypeOK` is the one type invariant of each module. Runs stop where the bounded
application and the network have nothing left to do, so deadlock is not
checked in them, except in `packet_id`, which never stops.

### Fairness

- `Client`: the io thread runs what is queued, and a timer that is left alone
  expires: the code runs `io_context::run()` and both hold of any Asio loop.
  Nothing is assumed of resolver, connect, peer or reads. `FairWritesSpec` adds
  that a write ends: the peer reads, or TCP gives up. The code bounds neither,
  so `publishing` does without, and `stalled_peer` shows what that costs the
  keep-alive.
- `Connection` has that last assumption too, as its subject is the queue and not
  the peer.
- `PacketId`: a loop that was entered goes on.
- `Helper`: the io thread runs what is queued, the owner goes on with a call it
  has begun (its wait is bounded), the reconnect timer fires, and a pending
  publish is acknowledged or given up by the client, which is `PublishAnswered`
  of `Client`; the network and the other threads owe nothing.
- `Framing`: the io thread runs what is queued, TCP delivers what was sent and
  the end of a stream, and a connect or a write of CONNECT ends. The peer owes
  nothing.
- `Log`: a thread goes on with the record or call it has begun, and a sink
  returns. That a lock is free is not assumed.

### Disagreements between code and documentation

Each has a run that expects TLC to refute one property:

| Run, property | What the code does |
|---|---|
| `stalled_peer`, `SilenceNoticed` | the wait for PINGRESP starts when the PINGREQ has been written (`client.hpp:538-548`); a peer that stops reading is never noticed, against README.md:18 |
| `stale_connack`, `ConnectedIsOpen` | a CONNACK handler behind the connect timeout marks the closed connection connected and reports `on_connect(true)` after `on_connect(false, 255)` |
| `subscribe_fails`, `SubscribeAnswered` | when the SUBSCRIBE cannot be written, its map entry is erased before the loop over the filters it owns (`client.hpp:700-706`); read as empty, its callback is never told, against README.md:327-330 |
| `stop_stalled_peer`, `ByeInTime` | when the 2 s of `stop()` run out, the handler of its DISCONNECT is still with the client; `release_client()` runs it through `close()` after `mutex`, `cv` and `closed`, which it holds by reference, left their scope |
| `selfstop_restart`, `NeverTerminates` | a `stop()` in a callback leaves the io thread to be joined by the next `stop()`; a `start()` that comes first assigns to a joinable `std::thread`, which terminates, against README.md:150-151 |

### Further disagreements

These are stated in the modules, most under a heading of their own, and refuted
by TLC when put into a configuration. They have no run of their own, to keep the
set of runs small:

- `AttemptReportedOnce` (`Client`; `client.hpp:263`): a failed connect leaves
  `connect_timer_` armed, which reports the attempt again.
- `NoLateTimeout` (`Client`; `client.hpp:365`): a queued timeout handler closes
  the session that came up. Same cause as `stale_connack`.
- `ConnectIsFirst` (`Client`, two attempts; `client.hpp:291`): after a stale
  CONNACK, or when the resolver of an abandoned attempt answers late and its
  connect chain runs next to the new one, a publish may be written before the
  CONNECT; in a setup with `early` a SUBSCRIBE may be.
- `GiveUpKeepsSession` (`Client`; README.md:332-336): a QoS 1 publish out of
  retries ends in `notify_closed_once()` too.
- `PubrelsBounded` (`Client`; README.md:324): a PUBREL goes out four times, or
  more with duplicate PUBRECs.
- `NoPublishAfterPubrel` (`Client`; `client.hpp:471`): the write completion of a
  re-sent PUBLISH re-arms the timer the PUBREC cancelled.
- `OneWriteInFlight` (`Client` in a setup with `early`; `connection.hpp:44-46`):
  subscribes during a connect lead to two outstanding writes.
- `SubscribeAnsweredOnce` (`Client`): the subscribe callback hears success when
  the SUBSCRIBE is written, and again at the SUBACK or the teardown.
- `ClosedIsDown` (`Connection`; README.md:305-306): `close()` does not cancel the
  resolver, whose answer opens a socket of the closed object; nothing closes it
  before the next attempt.
- `OneWriteAtATime` in `Connection` without its `orderly`: the cause of
  `OneWriteInFlight`, for any owner. `NothingLost` and `GoodWasDelivered` fail
  there too: the second write overwrites the handler in `in_flight_`, and a late
  completion takes the item of another write.
- `GivesUpOnlyWhenAllHeld` (`PacketId`; `client.hpp:718`): the scan never tests
  the identifier it started from.
- `LengthFits` (`Framing`; `connection.hpp:67`, `:200`): the byte after four length
  bytes that all continue is read behind the end of `byte_buffer` before
  the length is refused.
- Strings of 65536 bytes and more (`buffer_writer.hpp:60-61`): `write_string()`
  writes the low 16 bits of the size and all of the string. `Str` of `Wire` does
  the same; no string of the run is that long.
- `OneRetryEver` (`Helper` with two starts, two retries, the connect timeout and
  connect failures; `mqtt_helper.hpp:575-578`): a `stop()` that races
  `do_reconnect()` leaves its wait armed into the next `start()`; when the timer
  is armed again, the old wait ends with an error and its handler gives the claim
  of the new one back (`mqtt_helper.hpp:634`). A failed connect and the connect
  timeout it left armed, if the backoff is longer, then count as two attempts.
  A rearm whose handler cancels a wait does the same within one `start()`.
- `RunningIsServed` (`Helper` with two starts and a stop in a callback;
  README.md:150-151): the DISCONNECT of the stop in the callback, left in the
  loop by the owner's `stop()`, stops the loop of the next session
  (`mqtt_helper.hpp:305`): the helper is running and no handler runs any more.
- `RearmHonoured` (`Helper`; `mqtt_helper.hpp:402`): a late report of the old
  failure gives up again before the posted rearm runs.
- `OneAttempt` (`Helper` with two starts; `mqtt_helper.hpp:378-379`): a wait
  armed just after `stop()` cancelled the timer connects over the next session.
- `PublishHeardAtStop` (`Helper`; README.md:318, 327-330): a publish that is
  pending or still posted when `stop()` halts the loop is answered only if the
  helper is started again: `release_client()` closes the client, but the aborted
  read that would fail it waits in a loop nobody runs.
- `NeverTerminates` (`Helper` in a setup with `drops`): when a handler holds the
  last reference, the destructor runs on the io thread and destroys it joinable.
- `ClientFollowsHelper` (`Log`; README.md:417, 430): a `set_log_handler()`
  between the copy of the handler in `init_client()` and the assignment of
  `client_` reaches the helper and not its client.

## 4. Proofs

Proved by TLAPS for every value of the constants:

- `PacketIdProofs`, from `MaxIdAssumption` (at least two identifiers).
  `IInv` is `TypeOK`, `PassedAreHeld` and `ResultIsCounter` (what the last call
  returned is where the counter stood). `PassedAreHeld` is what makes the loop
  refine: when an identifier is taken, everything between the start and it is
  held, so it is the first free one; when the turn is complete, everything but
  the start is. `ImplementsAlloc` maps `last` to the start of the turn during a
  scan, so `Skip` is a stutter, `Take` a `Grant` and `GiveUp` an `Exhaust`.
  `NeverReusedAtOnce` needs `ResultIsCounter` and that `SuccId` never stands
  still. The lemmas at the top give the arithmetic of the wrap.
- `ConnectionProofs`, from `ConnectionAssumption`, for every number of frames
  and attempts, every set of closing handlers and any owner: where it is not
  orderly it writes, connects, marks and closes at any moment, with any number of
  chains at work. Its handlers do no more than `close()`. `ReportedAtMostOnce` is
  not inductive: a frame that is in two places is reported by both later. `IInv`
  adds `OnePlace`: a frame is in at most one of a handler in `loop`, a slot of `write_queue_` and `in_flight_`,
  and in none once it was reported or before it was submitted. Each action then
  moves a frame from one place to the next or reports it. `ClosedHoldsNothing`
  is in `IInv` because `enqueue_write()` on a closed object must not queue.
  `FramesInCallOrder` adds that what is submitted later stays behind: handlers
  in `loop`, then slots of `write_queue_`, then `in_flight_` and the wire carry
  ever smaller numbers of calls.
- `ConnectionFlightProofs`: three properties that are about an orderly owner.
  `OrderlyInv` says that all of the following holds of one. `mqtt_client` is one
  while its attempts follow each other and nothing but the CONNECT is
  submitted before the CONNACK, and not always (section 2, Abstractions); TLC
  refutes the properties for other owners, see section 3. `FInv` has three
  parts. `OneChain`: one resolver, connect or completion of either at a time, and `state_` is not live meanwhile. `Cleared`: nothing of an old
  socket is queued behind a new one; a
  `fail_pending_writes()` or an aborted write that is still queued runs before a
  new write can start. `Flight`: `writing_` holds exactly while an operation or
  its completion is there, and its item is `in_flight_`. Each is needed for the
  next: a completion that is late would take the item of a write that is not
  its own.
- `ClientProofs`, from `ClientAssumption` and `MaxIdAssumption`, for every setup:
  any number of publishes, subscribes, attempts and identifiers, any window and
  number of retries, every fault. `CInv` has five parts. `Typed` gives the types
  of all the state, the handlers in the queue included. `IdsOnceOf` says that an
  identifier names one entry. `OnePlace` is what makes `AnsweredOnce` inductive:
  a publish is in at most one of a handler of `loop`, a QoS 0 frame of the
  connection and an entry of `pending_publishes_`, and in none once it was
  answered or before it was called. `Counted` says that an entry's `attempts`
  is the number of its frames submitted. `Reading` ties `reading_depth_` to a
  read or its handler and a session that is up to a `closed_` that is false;
  without the latter, a broken stream would be ignored by
  `notify_closed_once()` and its read handler would start no next read.
  Handlers are not treated one by one but by what they leave: `Sound` states of
  an effect that it keeps the invariant (`DoKeeps`), `Drops` and `Fails` that
  entries only leave and exactly those that left are told (`DropsKeeps`), and
  each action is shown to have such an effect.
- `ClientFirstProofs`, from the same and `NoItemAssumption` (a null `in_flight_`
  is not a frame), for every setup, as long as `async_connect()` was called once
  at most. `NoEarlyPublish` and `KeepAliveWatched` are false from the second
  attempt on (see below), so what rules out each way they fail has to be in the
  invariant, `FirstInv`. `OneChain` and `Virgin`: there is one
  resolver, connect or completion of either, and until it has ended nothing is
  read, written or granted. `Unpublished` and `GrantedOnce`: before the CONNACK
  there is no PUBLISH or PUBREL and no entry whose retry could send one, and
  after it the connection never shakes hands again. `Over`: a socket that the
  chain opens after `close()` or the timeout ended the session gets no CONNECT
  and no reader, so it stays down. `Shaking` and `FailFirst`: from the CONNECT on
  the connection can write, and a `fail_pending_writes()` posted before it has
  run by then, so a PINGREQ is not failed on a socket that stays up.
  `Watched` then follows the keep-alive from timer to handler, write queue,
  flight and back. As in `ClientProofs`, a handler counts by what it leaves:
  `Modest` and `Minds` state of an effect that it keeps the invariant
  (`RanKeeps`), and the connect chain and the granted CONNACK have proofs of their
  own.
- `FramingProofs`, from `FramingAssumption`, `TrafficAssumption` and
  `BytesAssumption`, for every radix, every traffic and any number of streams.
  Type correctness says that a length is accepted or refused by its fifth byte,
  which is not inductive: nothing in `TypeOK` bounds the bytes of a length that
  is still being read. `Asked` does (at most four while a length byte is
  outstanding), and it needs `OneReader`: `reading_depth_` is one exactly while
  one step of the reader is outstanding or its completion is queued, else a
  second reader would reset or count the length of the first. `OneReader` in
  turn needs `OneChain`, as a connect chain starts the reader of the next
  stream. `Completed` says that a completed read brought what it asked for.
  `ReaderIsOne` states `OneReader` as a theorem: no `close()`, abandoned attempt
  or reconnect leaves the reader taken without a reader, after which nothing
  would ever be read again.

  `NoAlarm` and `InOrder` are about what a peer sends. `TrafficAssumption` says
  that each frame is refused (`Junk`) or `WellFormed`: of a known type, with one
  to four length digits and a body as long as they say. The `wire` run evaluates
  it for its 19 packets, the frames `serialize()` makes. The code keeps no
  record of a frame's end, so the invariant `SInv` has to say where in the
  stream the reader stands. `Fed` does: the wire has the bytes of the frames
  behind a position, all of them or as far as the stream was cut. `Following`
  gives that position for the reader at rest, for a read that is outstanding
  (`Pending`) and for a completion that is queued (`Fits`). `Knows` says what
  `read_header_` and the length state hold of the frame at each step: its first
  bytes, the value of the digits so far (`LengthOf`) and the weight of the next,
  so the body that is asked for is the rest of the frame. `Told` adds the
  packets that are done, and `Calm` is `NoFalseAlarm` for frames that are not
  refused. All of it would fail if a new stream met the old reader: a read of
  the old stream would go on with the bytes of the new, and with
  `reading_depth_` still taken the first read of the new would be dropped. No
  check in the code excludes that. `QInv` does, for attempts that end before the
  next begins, as in `Framing`. `Settling` counts: the reader of a closed stream
  is at rest after at most three handlers, which are queued before the three of
  the connect chain that opens the next stream. `Single` and `AtEnd`: a packet
  is handled before the next step begins, and on an open stream a step fails at
  its end only. `StreamInvariance` is the theorem of `SInv`.
- `LogProofs`, from `LogAssumption`, for any number of threads, sinks, clients,
  records and calls. For `RoutedRight`, `Routing` says of a record nobody
  disturbed that every store it has left behind is empty and its level enabled;
  each action that changes a handler or the level disturbs all records.
  `Ownership` says that a mutex is owned by a thread exactly where the code
  between lock and unlock is; from it follow `SinksUnlocked` and `LocksOrdered`,
  which exclude that two threads, or a sink and its caller, wait for each other.
  `Calling` ties a configuring call to the stores it may be at.

- `HelperProofs`, from `HelperAssumption`, for every setup: any number of starts,
  rearms, retries and topics, every fault. `NotStranded` is far from inductive,
  as each of its disjuncts is taken up by another step. `HInv` has seven parts.
  `Claimed`: a claim on `reconnect_pending_` is never without the wait that drops
  it, on the timer or queued, except in the two steps of `do_reconnect()` that
  hold it. `Alive`: between two handlers an armed helper has a wait, a posted
  rearm, or a connect, a read or the end of one that the client will report,
  which asks for a `closed_` that is false. `GivenUp` covers the gap of
  `rearm_reconnect()`: a rearm that hits the give-up of `do_reconnect()` between
  its two stores has yet to post. `Phases` says which threads exclude each other
  (`start()` and `release_client()` never meet a running io thread, and a
  `stop()` in progress has set its flag). `Asked` and `Restoring` say of a
  session that every remembered topic was accepted, is queued, or is yet to be
  looked at by `subscribe()`; the first also bounds what is subscribed. An action is
  treated by what it does to the queue (`Posted`, `Ran`) and to the client
  (`Closing`, `Connected`, `ClientRunsKeeps`). `OneRetryInOneLife` needs more:
  `ClaimHeld` says that the claim stands exactly while its wait does, that there
  is one wait and that it was not cancelled. A second `start()` and a rearm
  break each of these (section 3), so the theorem goes up to the second `start()` or
  the first rearm, for every setup and with `stop()` at any moment.

Model-checked only, and why:

- all liveness: the prover has no `ENABLED` and no fairness rule;
- `Decoded`, which depends on what the recursive functions of `parse()` compute
  (that the bytes it gets are those that were sent is proved, see `InOrder`);
- `PublishSpec` and `NothingResent` of `Client`, and its `KeepAliveWatched` and
  `NoEarlyPublish` from the second attempt on. They hold of the setups the runs
  explore and not of every setup: a late acknowledgement is credited to another
  publish once its identifier was handed out again, and from the second attempt
  on a publish can precede the CONNACK and a keep-alive timer of the last session
  can be taken for one of this (section 3). `SubscribeAnsweredOnce` does not hold
  at all.

## 5. Not modelled

- The demo, the stress tools and the tests: users of the library and statements
  about it, without state of their own.
- The error categories and the umbrella header: declarations.
- Of `mqtt_helper`: the length of the backoff, as there is no clock; its plain
  setters; `message_callback_` and its lock, which a message handler copies
  under; `initial_connect_`.
- Of `log`: the built-in sink's output and the text of a record.
- Of `mqtt_client`: null callbacks and subscribes with several filters, which
  `async_subscribe()` never sends. QoS 2 deduplication of inbound messages does
  not exist in the code and is not in the model.
- Object lifetimes: `shared_ptr` cycles beyond `ClosedHoldsNothing`, and the
  destructor of `mqtt_client`.
- Asio itself, but for the FIFO of handlers, aborted operations and timers.

## 6. Plan

1. `Session`: what a user of `mqtt_helper` may rely on (stopped, connecting, up,
   waiting, given up), with `Helper` shown to implement it, and a resolver that
   takes its time in `Helper`.
2. `Backoff`: the delay of `do_reconnect()` with its cap and integer widths.
