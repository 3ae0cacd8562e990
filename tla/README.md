# A TLA+ model of mavlink-router

mavlink-router forwards MAVLink messages between UART, UDP and TCP endpoints and
keeps flight logs. It is one thread around `epoll_wait`: what makes it hard is
not threads but the order of events, connections and timers that end while
others are being served, buffers that fill up, links that lose, repeat and cut
what they carry, and commands that change the endpoints at run time.

The modules model the code under `src/src` and two of the programs under
`src/examples`. `PROJECT.json` maps each definition to the lines it stands for and
lists the components, the runs, the mutants, the hazards, the findings and the
theorems.

## The system

| Part | State | Operations | Code |
|---|---|---|---|
| Start | sections and options, the configuration | parse files and arguments, validate, create endpoints | `main.cpp`, `conf_file.cpp`, `mainloop.cpp`, `endpoint.cpp` |
| Routing | `g_endpoints`, learnt ids and group members per endpoint | read, filter, learn, route; add, remove | `endpoint.cpp`, `mainloop.cpp` |
| De-duplication | queue of (time, hash), set of hashes | `check_packet` | `dedup.cpp` |
| Throttling and its cache | next time stamp and queue per message id, one resend timer | accept, cache, resend, `throttle` | `endpoint.cpp`, `mainloop.cpp` |
| Transmit path | `tx_buf`, coalescing timer, EPOLLOUT, UDP peer | write, flush, can-write, hang-up, reconnect, hear, silence | `endpoint.cpp` |
| Receive path | `rx_buf`, `_last_packet_len`, baud rate | read, find a packet, checksum, next rate | `endpoint.cpp` |
| Event loop | batch of events, validity of endpoints, timers | handlers, `process_tcp_hangups`, remove | `mainloop.cpp`, `timeout.cpp` |
| Flight logs | file, timers, mode; BinLog's and ULog's sequence | choose, start, stop, data, acknowledgements, timers | `logendpoint.cpp`, `autolog.cpp`, `binlog.cpp`, `ulog.cpp`, `tlog.cpp` |
| Log directory | files, their index and mode | delete old, create, mark, crash | `logendpoint.cpp` |
| Companions | the authorizer's request, the task list | messages, timers, timeout | `examples/arm-authorizer.cpp`, `examples/px4-offboard-mode.cpp` |

A message read from an endpoint (receive path) passes de-duplication and the
incoming filters, teaches the routing table, and is offered to every endpoint of
the list (routing). Each endpoint accepts, rejects, throttles or caches it, and
puts it into its transmit buffer. The log endpoints are members of the same list:
they receive messages and send some. The event loop calls all of this, and
destroys endpoints after a batch of events. The companions are programs of their
own that talk to a vehicle through the router.

The parts share little state, so most have a module of their own, in which the
others appear as what they can do to it: `Router` has connections that come and go
and a window of remembered messages; `ThrottleCache` has writes that are taken,
refused or close the link; `TxPath` has a kernel that takes part of a write. Where
parts do share state they are composed: `Stream` puts the rate limit behind
the duplicate check, `AutoLog` puts both flight logs behind the endpoint that
chooses between them, `Companions` puts both programs and a vehicle together.

## The modules

- **Config** (`MCConfig`): the start of the program. A file is a sequence of lines;
  `sections` is the list of `ConfFile`, newest first; `pc` is how far `main` is. A
  behaviour parses the default file, then the files of the directory in order of
  their names, extracts the configuration, applies the arguments, and adds the
  endpoints. Options that differ only in their name have one representative.
- **Router** (`MCRouter`): one step is one handler. `sysCompIds` are
  `_sys_comp_ids`; `Visited` is the recursion of `_add_sys_comp_id` over
  `_group_members`, including its early return. `heard` and `last` are history:
  which ids came in on an endpoint itself and what the last step routed where.
  `Steady` are the configured endpoints whose name is unique, which the group
  properties are about.
- **Clock**, **DedupAbs**, **Dedup**, **Throttle**, **Stream**: `DedupAbs` accepts a message
  unless a copy was accepted within the period; `Dedup` has the queue and the set;
  `Throttle` has the `next_timestamp` of one id. `Stream` composes them as
  `handle_read` and `accept_msg` do, with the messages that wait in the cache
  counted.
- **ThrottleCache** (`MCThrottleCache`): the caches and the resend timer that all
  endpoints share. Times are relative to now, so that the state space is finite; a
  millisecond has several ticks, so that rounding is seen.
- **TxPath**: one endpoint, of kind `"uart"`, `"udp"` or `"tcp"`. A unit `<<m, i>>` is the
  i-th part of message m. A UDP endpoint is a client, a server or a
  receiver; `peer` is where `flush_pending_msgs` sends to.
- **RxFraming**: a byte `<<p, k>>` is the k-th byte of packet p; reads split the
  stream anywhere. The buffer survives a new TCP connection and a new baud rate.
- **EventLoop**: `epoll_wait` returns a batch, handlers run in any order, invalid
  endpoints are destroyed after the batch. `misused` is history: destroyed objects
  a handler was called on.
- **LogEndpoint**, **BinLog**, **ULog**, **AutoLog** (`MCAutoLog`): `LogEndpoint` has the common
  part as operators on a record; `BinLog` and `ULog` add their data; `AutoLog` is
  the specification: `logger` is the object that receives the messages, `stack` the vehicle's
  autopilot. The stream of a PX4 is a constant; chunks are lost, repeated and late.
- **LogFiles**: several loggers, one directory, crashes. A file occupies units of the
  device, so that its size is their number; `before` is history: which files were there
  when another was created. Its specification is `FilesSpec`, so that one module can hold
  its proofs and those of `EventLoop`.
- **ArmAuthorizer**, **Offboard**, **Companions** (`MCCompanions`): each program is a record
  with one operator per handler and the messages it sends; `Companions` has the four
  links and a vehicle, which is external: it is modelled from how the programs use it.
- **RouterProofs**, **StreamProofs** (with `Dedup`'s), **ThrottleCacheProofs**, **TxPathProofs**,
  **RxFramingProofs**, **LifetimeProofs** (of `EventLoop` and `LogFiles`), **ULogProofs**, **AutoLogProofs**:
  the theorems.

Definitions called "mutant" in a comment are plausible mistakes. None of them is used
by a specification; each shows that a property would notice.

## What the runs check

`tlc -config X.cfg M`, with the configuration and the module of `PROJECT.json`.

| Run | Question and answer |
|---|---|
| `config` | The last definition of every option wins, over lines, files and arguments; the router starts exactly if everything it was given is valid. |
| `router` | Two grouped links, a server's client, filters, a sniffer, a log and an endpoint that commands add and remove: never sent back, never to the group, only where heard, always where heard. |
| `stream` | The queue and the set implement the abstract de-duplication, also with the rate limit behind them; no copy uses up the rate or waits in the cache; the rate and its burst hold over any window. |
| `cache` | The cache is exact and within its limit, no message overtakes an older one of its id, the one timer rings in time for links with different rates, and every cached message leaves, also when the `throttle` command lifts its limit. |
| `tx` | Messages leave whole and in order, each unit once, and refused messages not at all; none is dropped for want of a peer. For UART, and UDP without coalescing: waiting data drains. A client whose peer is silent returns to its configured address. |
| `rx` | Packets are routed in order and undamaged; damage, a reconnection in the middle of a packet included, costs at most what is close behind it; there is always room to read; up to the first damage everything is routed; the baud rate search ends at the peer's rate. |
| `loop` | No handler on a destroyed endpoint, except after a `remove`; one reconnect timer; an endpoint that left the list is not polled; lost connections leave, clients reconnect. |
| `flightlog` | For every log type: timers match the file, logged only while armed if no data is late; acknowledged blocks are on disk, none of an older session; ULog's buffer stays inside its bounds, the file holds whole messages in order, no chunk is mistaken across the wrap of the sequence number. |
| `logfiles` | The open file of another logger is never deleted, the oldest goes first, a crash leaves no file undeletable. |
| `companions` | A vehicle is armed only with a mission that was checked; the flight program ends with the vehicle on the ground and disarmed; every request is answered or times out. |
| `loop_reset` | Ends with a counterexample: a reset of its connection destroys a TCP client endpoint, which the README of the repository excludes. |
| `config_ports` | Ends with a counterexample: of three clients of one address without a port, two are given the same port, which the sample configuration excludes. |

### Where code and documentation differ

`loop_reset` and `config_ports` are the differences that are kept as runs. Modelling met
these too; the properties above are stated so that they hold, and name the case
they leave out.

- *Reconnect timer* (`mainloop.cpp:565`): in the situation of `loop_reset` the reconnect timer may
  already run and refers to the destroyed endpoint (`NoUseAfterFree` with
  `Resets` containing the client). If the client is in a group (`Held`), it leaves the
  list, stays alive and is still polled (`UnlistedNotPolled`).
- *Remove* (`mainloop.cpp:453`): the command destroys an endpoint whose event may wait in the
  same batch. `NoUseAfterFree` excepts `Removed`.
- *Groups* (`endpoint.cpp:489`): an endpoint added to a group by command does not get the ids the
  group knows, and the early return of `_add_sys_comp_id` keeps it so, so a message from
  one link is sent on to the other. "Endpoints in the same group will share the same
  list of connected systems" (`README.md:317`). The group properties are about `Steady`.
- *De-duplication* (`dedup.cpp:57`): a duplicate does not restart the period; `config.sample:38`,
  `README.md:253` and `dedup.h:29` say that it resets the timer. `DedupAbs` states what the code does.
- *Order* (`endpoint.cpp:605`): once the `throttle` command lifts the limit of an id, new messages overtake
  the cached ones; `README.md:290` promises arrival order. `NoOvertaking` is about ids with
  a limit.
- *EPOLLOUT* (`endpoint.cpp:1750`, `2254`): a busy UDP socket met by the coalescing timer, and a short TCP
  write, leave data in the buffer with nobody to wake it until the next message; the
  comment says "EPOLLOUT will retry". `TxDrains` is about the other
  endpoints.
- *Peer* (`endpoint.cpp:1747`): coalesced UDP messages go to whoever sent the last datagram when the
  buffer is flushed, not to the peer at the time they were routed.
- *Baud rates* (`endpoint.cpp:1211`): a packet with a wrong checksum leaves what follows it in `rx_buf`; if
  the timer changes the rate then, the packet found there next ends the search at
  the new, wrong rate. `config.sample:115` says that the values are cycled "through until valid
  MAVLink packets are received". `BaudIsRight` has the history `behind`.
- *Checksums* (`endpoint.cpp:424`): a wrong checksum ends the loop of `handle_read`; whole packets behind it wait
  for the next event. `AllRouted` is about the time up to the first damage.
- *Late data* (`binlog.cpp:198`, `ulog.cpp`): a block or chunk that arrives after the vehicle was disarmed
  starts a new log; `config.sample:70` says "just while the vehicle is armed".
  `LoggedWhileArmed` has the history `late`.
- *NACKs* (`binlog.cpp:177`): the loop over the missing numbers packs the number of the block that has
  arrived; the comment says "Send nacks regarding unseen seqno". NACKs change no state
  of the router and are not in the model.
- *MaxLogFiles* (`logendpoint.cpp:396`): old files are deleted before the new one is made and open files do not
  count, so there are more files than `config.sample:86` allows.
- *MinFreeSpace* (`logendpoint.cpp:214`): when `statvfs` fails the subtraction wraps to `MinFreeSpace + 1`, and a log is
  deleted even with `MinFreeSpace` 0, for which the comment says there is nothing to do.
  `OldestFirst` allows it (`StatFails`).
- *Add command* (`mainloop.cpp:391`): `BlockSrcCompOut` is read from the argument of `AllowSrcSysOut`; the comment at
  line 321 gives it one of its own. The text of commands is not modelled.
- *Configuration files* (`conf_file.cpp:82`): a file of length zero is an error, because it cannot be mapped; a
  last line without newline is ignored. The members of a list are stored as bytes,
  so 257 filters system 1. `Config` has all three.
- *Options* (`main.cpp:59`): the short forms of `--version` and of `--telemetry-log` are declared with different
  arguments than the long ones (`V:`, `T:`). Not modelled.
- *Drop statistics* (`endpoint.cpp:469`): where the 8-bit sequence number wraps, the count of lost messages is one
  too small. Statistics are not modelled.
- *Arm authorizer* (`arm-authorizer.cpp`): neither the sender nor the number of a mission item is compared. On a link
  that both loses messages and delays them past the timeout, an old item can be taken for
  one of the new request. `ArmedWasChecked` is about links that do one or the other
  (`lossy`), and about one vehicle.
- *Offboard mode* (`px4-offboard-mode.cpp:27`): "At each 50msec this example will send to PX4"; the loop over the results of
  `poll` counts them down while it goes over the descriptors, so the timer is served
  only when the socket is readable too. `OffboardTurn` has this. The task LAND needs a
  report of the state LANDING, which may be missed; then the program waits for ever, and
  no liveness is claimed of it.

### Bounds

The bounds are the smallest with which the hard cases happen.

- Config: files of up to two pieces (whole sections, parts of one, errors), up to two
  files in the directory, seven command lines; every pair of definitions of
  one section meets in one file, over two files, and with an argument.
- Router: two links of a group, a client of the server, a log and an endpoint added
  to the group, three addresses, a broadcast and an addressed message, and one of
  the log.
- Stream: two packets, both periods 2, a cache of 2 and nine ticks, so that
  entries expire alone and together, and the reset of the rate after two silent periods
  happens between bursts.
- ThrottleCache: a cache of two that fills up and rates of one to three ticks, two ticks per
  millisecond; four messages on one link with two ids, or two messages on each of two links.
- TxPath: messages of one and two units, a buffer of four, four messages, coalescing off and
  of two units, two senders and two datagrams from them, so that the peer changes
  while data waits.
- RxFraming: four packets of two lengths, a buffer one byte longer than a packet (the
  code's is longer), one break of the link, two baud rates. A damaged packet, the one it hides
  and the one that must be found again make three.
- EventLoop: a client, an accepted connection, a UDP endpoint and two events in a batch; two
  suffice to have one event destroy what the other is for.
- AutoLog: two files, so that there is one restart; blocks 0 to 2, the least with a gap; a
  sequence number modulo 8 that wraps in the stream, a buffer of 8, messages of 1 to 6 bytes
  that are shorter than a chunk, as long, and longer.
- LogFiles: two loggers, indexes up to 5, a limit of two files, a device of four units, one of
  which must stay free.
- Companions: three missions (none, a good one, one that is too high), two messages
  on each link of the authorizer and from Offboard, one report under way: a report that waits
  while the vehicle goes on is as old as it can matter.

`CHECK_DEADLOCK FALSE` is set where a bounded stream or the start of the program ends.

### Fairness

- `TxPath`: timers fire (weak); a link with EPOLLOUT armed takes some data again and again
  (strong, since a busy socket disables it). Epoll is level-triggered, so it is
  reported as long as it is writable.
- `RxFraming`: `handle_read` is called while the kernel holds bytes, and its loop
  goes on (weak): epoll is level-triggered here too.
- `ThrottleCache`: time passes, an expired timer is served, and an endpoint does not
  refuse for ever (strong): again and again it takes all that is due.
- `EventLoop`: the loop handles its batch and processes hangups (weak: it is the
  thread's only work); epoll reports every object that stays ready again and again
  (strong, since a batch holds `max_events` events and epoll rotates its ready
  list); a server that is asked again and again accepts.
- `Companions`: what is on a link arrives (weak); the authorization timeout passes if the
  program is waiting again and again, and a program whose timeout has passed receives
  something again (strong). The last is an assumption on other traffic, which the code
  needs: it looks at the timeout only when it has received a message. A vehicle sends
  heartbeats all the time.

The other specifications have no fairness and no liveness property.

## What is proved

`tlapm M.tla` checks the proofs of a module. They hold for every value of the constants
that satisfies the named assumptions of the modules (`RouterAssumption`, ...),
which say that kinds, names and sizes are of their type, that the cache's limit, the retry
delay and a millisecond are not zero (`ThrottleCacheAssumption`), that a packet fits into
the receive buffer (`RxFramingAssumption`), that only configured endpoints are members
of a group (`EventLoopAssumption`), that the log device is finite (`LogFilesAssumption`), and
that a chunk and a ULog message fit into ULog's buffer and fewer chunks are lost or
repeated in a row than half of the sequence numbers (`ULogAssumption`).

- **RouterProofs.** The inductive invariant adds to the type that every id an
  endpoint has learnt was heard in its group (`LearntHeard`), that every id heard on
  an endpoint is learnt by it (`HeardLearnt`), that group members are in the same
  group and that a log knows its own address. From it: `NeverBack` (the source is learnt
  before the message is routed, and `accept_msg` rejects messages from an id the
  endpoint knows), `WhereHeard`, `Reachable`. `GroupShares` and `NeverToGroup` are about
  `Steady` endpoints: `GroupInv` says that all configured endpoints exist from the
  beginning (`ConfiguredMade`), that a `Steady` endpoint of the list has a name of its own
  (`NamesApart`), and that it has all others of its group as members (`GroupLinked`), which a
  `remove` of another name does not undo. `NoEcho` puts both together. The recursion of
  `_add_sys_comp_id` is the least set closed under it, and its facts are lemmas.
- **StreamProofs.** `QueueAndSet`: the set holds the hashes of the queue, each once and in the order of
  time. `Refinement`: every step of `Dedup` is one of `DedupAbs`; it needs
  that the entries that remain after expiry are those within the period, which
  rests on the order of the queue. `Apart` follows. `StreamIsDedup`: a behaviour of the composition is one of `Dedup`, so that
  `StreamImplements` and `StreamApart` follow from the theorems above. `Rate` and `Waits`: the
  invariant bounds every message sent by `next_timestamp`. `Once`: what was let
  through or waits was reported new, one for one; it needs that the packets
  reported new form a finite set with as many members as were accepted, because each
  has its own time and hash.
- **ThrottleCacheProofs.** For any endpoints, ids, rates and cache size. `CacheIsExact`: the inductive
  invariant says of every queue that it is in order of arrival, that its members have its id and the
  fate "cached", and that every such message is in it (`Holds`); that only ids of `CacheMsgIds` have a
  queue; that all queues together have no more places than the limit (`Small`, which needs
  facts about finite sets); and that no message has a fate before it is routed. A resend takes the front
  of each queue (`Fronts`), in whatever way its writes ended, because the ids tell the queues
  apart. `NeverOvertakes`, an action property, follows: a message that is sent on arrival
  finds its queue empty, and what precedes a member of a front is in the front (`FrontFirst`).
  `TimerKeepsUp` and `TimerStaysArmed` rest on one case distinction (`TimerStep`): a step
  either sets the timer to the earliest deadline (`RescheduledIs`, with the rounding of `Delay`), or it
  leaves the queues of the listed endpoints alone, and then no deadline comes closer
  than the timer does, unless the `throttle` command changes a period. The clock values are
  a recursive function of the number of messages sent (`NextAfter`); that it stays above `Floor` is
  proved by the least number for which it would not.
- **TxPathProofs.** `TxFramed` and `TxAccounted`, for all message sizes, buffer sizes and
  results of the writes. The invariant `Sound` is about the buffer, the last unit the kernel took
  (`cursor`) and the number of units it took of each message (`written`): the buffer holds units
  of accepted messages (`Taken`), is a chain that continues the cursor (`Chained`), and what
  was written of a message and its places in the buffer add up to its size (`Counted`). A short write
  moves a prefix from the one to the other, and the places of a sequence split with it
  (`PlacesSplit`); a new message is appended behind a chain (`LinkGrows`). That a flush
  never drops for want of a peer is `PeerStays`: only a client's peer is forgotten, and the
  configured one takes its place. `FreshWhenClosed` says that what waits for a new
  connection starts with a whole message.
- **RxFramingProofs.** `ReadsHaveRoom`: the parser leaves less than one packet in the
  buffer before it reads, and a packet is shorter than the buffer. This holds over reconnections
  and baud rates because neither adds to the buffer. `RoutedInOrder`: what is unread, the
  bytes behind the last packet and then the kernel's, comes in the order it was sent, has no hole
  within a packet, and belongs to packets behind the routed ones (`Flow`). A checked packet
  ends where its size says, so nothing of it remains (`CheckedIsWhole`). `FindsItsWayBack`:
  a packet that did not lose its end and has a byte among the unread ones is there up to its end, and
  from its first byte if they begin before it (`Dense`). Every whole packet was routed, is unread from its
  marker on, or begins less than a packet behind one that lost its end (`Accounted`, `Near`). When the
  parser passes over a whole packet's marker, a packet that lost its end has claimed it, so the bytes that
  arrived in between (`ArrivedTo`, a sum) are fewer than a packet's. `BaudFound` needs
  more: at a wrong rate a good packet can only be one that was received before the change. Its
  last byte is then in the buffer behind the beginning of another packet that waits for more
  bytes (`Pending`) and will swallow it (`Doomed`).
- **LifetimeProofs, the endpoints.** `NoStaleHandlers`, `ReconnectsOnce` and `Unpolled`, under the assumption that
  no client's connection is reset and no client removed: no client is ever destroyed and
  whoever was created and not destroyed is in the list (`Lifetimes`); a client has one reconnect
  timer when it has no connection and none otherwise (`Timers`); the events of a batch are for
  endpoints that exist, and a timer's event is for a client without connection (`Events`).
  Without the assumption `loop_reset` is a counterexample.
- **LifetimeProofs, the log files.** For any loggers, limits and device. The invariant says that
  an open file is in the directory, has one writer and is not marked; that no logger has a
  file while the router is down; and that a file created earlier has the smaller index
  (`ByAge`). `OpenFilesStay` and `AllFinishedMarked` are parts of it. `OldestAreFirst`, an action
  property: `_delete_old_logs` visits the candidates by their index, so by their age; when it
  deletes one, what it had deleted before was not enough, and neither is any part of that
  (`EnoughGrows`: fewer files are fewer and smaller). A set of indexes has a largest member
  (`Largest`), from the well-foundedness of the natural numbers.
- **AutoLogProofs.** The inductive invariant says that the endpoint's record is good after every
  operation (its timers match its file, whichever open, timer or write failed), that
  there is no file before a logger was chosen, that in the while-armed mode a file
  is open only while armed or after late data, that a BinLog whose file awaits nothing
  has seen block 0 of its session, and the two properties about blocks. `Timers`,
  `WhileArmed`, `Acked` and `OwnBlocks` follow. Each operator of `LogEndpoint` has a lemma that
  it keeps a record good; the actions of all log types are proved from those.
- **ULogProofs.** What ULog does to its buffers, for every stream of messages, chunk length, buffer size
  and width of the sequence number. `StreamShape`: the stream, a recursive function, is the
  header and the messages in order; the equations of the function and this fact are proved
  by the least index that would violate them (`Least`). `Wraps`: of two chunks less than half of
  the sequence numbers apart, `IsRepeated` finds the older one, also when the number
  wrapped in between. `TakeInside`: the data stays within `_buffer` and `_buffer_partial`.
  `TakeOrderly`: if `Orderly` holds before a chunk, it holds after it. `Orderly` says that there are positions
  p, z and a in the stream, in this order, such that the file ends at p, the rest of the message written in
  part is from p to z, where a message ends, and the buffer is from a to the end of the chunk; a is a
  message's end too, unless the log looks for the next first message. A flush moves p and a
  (`FlushRest`, `FlushWhole`, `FlushPart`), a gap empties the buffer.
  A second invariant of `AutoLogProofs`, `ULogInv`, is this along a behaviour, over starts, stops and restarts of the log:
  `BufferHolds`, `FileInOrder` and `SeqKept`. The order of the file is promised as long as
  the rest of a message fits into `_buffer_partial`; otherwise the code drops it and reports the
  file as corrupt (`ulog.cpp:354`).

The types of `Dedup`, `Throttle`, `RxFraming` and `EventLoop` are part of these inductive
invariants; the runs of those modules check what does not follow from the types.

Only model-checked: everything about liveness (the prover does not do fairness), the
start of the program and the companions. What `Config` says of a start (`LaterWins`,
`StartsIffValid`) is about folds over lines, files and arguments of any length, so an induction over
data; the library's induction theorems are out of the prover's reach. Where a fact about a recursive
function is proved (`StreamTo`, `NextAfter`, `ArrivedTo`), the proof takes the least counterexample
instead, which does for a function of one number. `ArmedWasChecked` and `EndsSafe` of
`Companions` relate the contents of four links and two programs; their run covers all
interleavings of its bounds, and no invariant was proved for longer links.

## Not modelled

- The text of the configuration, the command line and of commands: lexing, number parsing,
  wording. `Config` starts with lines and arguments. Its log options, `-c`, `-d`, `-y`,
  `-V` and the limit of 128 files in the directory are left out.
- A command that is split over two reads of the pipe. The pipe is opened for reading and
  writing (`mainloop.cpp:797`), so the path that reopens it after a hang-up is not reached.
- Address formats, multicast and broadcast, UDP datagrams longer than the room in `rx_buf`.
- Statistics, printed reports, the counting of sequence drops.
- The asynchronous fsync of the logs, and the records of TLog: its two writes
  are not checked by the code, and nothing depends on them. In `ULog` the loop of `stop` that writes the rest of the
  buffer is one step; in the code it goes on as long as the file takes nothing.
- Starts that fail in `LogFiles` (in `AutoLog` they do); chunks of an older ULog session,
  which repeated chunks of the new one stand for.
- Signals, the way out of the loop, and descriptor errors that end the program.
- Hash collisions; indexes and offsets near 2^32; errors of `timerfd_create` outside
  the logs.
- The heartbeat example, which has no state between messages, and the heartbeats of the
  arm authorizer.
- Generated message definitions, terminal set-up and directory creation: input and output
  without protocol state.
