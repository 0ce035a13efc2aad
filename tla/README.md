# A TLA+ model of openquic

openquic is a QUIC transport written in C on top of the coroutine library
liteco and of BoringSSL. This directory holds TLA+ modules translated from its
source, TLC configurations that check them on small instances, and proofs
that TLAPS checks.

    tlc -config MCRetransmission.cfg MCRetransmission     # one run
    tlapm AckExchangeProofs.tla                           # the proofs of a module

`PROJECT.json` lists the runs, maps every definition to the lines it models
and lists the hazards the properties are for, each at its line.

## 1. Inventory of the system

A **session** is one connection. It owns a set of **modules** (structs with
`init`, `start`, `process`, `loop`, `destory`), and one coroutine runs the
session's *event loop* (`session.c`): it waits for an activated module or for
`loop_deadline`, clears `loop_deadline`, runs `process` of the activated
module, if any, and then `loop` of *every* module once. The order of the
loops is the order of the module table the build generates by walking an awk
array (`conf/generate-modules.sh`): any order.

| component | state | operations | talks to |
|---|---|---|---|
| ack generator | ranges and their count, largest number and its time, `should_send` | received, generate, drop | called by recver (received), sender (generate), sealer (drop) |
| retransmission | `sent_mem`, its counters, `loss_time`, `alarm`, retransmission queue | sent_mem_push, find_newly_acked, find_newly_lost, module loop, drop | sender, recver (ACK frames), congestion, each frame's `on_acked` / `on_lost` |
| packet number generator | next number | generate | sender |
| sorter | gaps, clusters, `avail_size`, `readed_size` | write, append, read, peek | recv streams, sealer (CRYPTO data) |
| send stream | reader, offset, `closed`, `sent_fin`, deadline | write (a coroutine), close, set_deadline, generate, MAX_STREAM_DATA | framer, flow control, application |
| framer | list of control frames; active set and queue | add_active, append_stream_frame, ctrl | streams, sender |
| recv stream | sorter, final offset, deadline, `closed` | read (a coroutine), STREAM frame, close, set_deadline | flow control, framer, application |
| stream and connection flow control | windows, sent and received bytes, limit reported as blocking | get_swnd, sent, newly_blocked, updated rwnd | streams, framer |
| stream set | streams in both directions, next id, destroy set | open, accept, close, module loop | application, framer |
| sender | current packet | module loop: choose a space, pack CRYPTO, ACK, control, STREAM and lost frames, send | everything above, congestion, transmission |
| recver | queue of packets, current packet | process, module loop, routing of frames to handlers | transmission, every frame handler |
| sealer | encryption level, AEAD keys, CRYPTO streams | TLS callbacks, set_level, handshake done | closes the spaces below a level |
| congestion | RTT estimate, window, slow start, cubic, pacer | on_sent, on_acked, on_lost, allow_send, next_send_time | retransmission, sender |
| connection ids | own ids, peer's ids, active one, retired ones | NEW_CONNECTION_ID, RETIRE_CONNECTION_ID, sent counter | framer, server and client routing |
| server, client, transmission | session map, sockets | accept, route, recv, send | sessions |

Concurrency and failure in this code:

- **Event loop against application thread.** `quic_send_stream_close`,
  `set_deadline` and `stream_write` are called from outside the event loop;
  streams and the framer have mutexes that are released in the middle of an
  operation.
- **Coroutines.** A write or a read sleeps on a channel; a push nobody waits
  for is dropped.
- **The loop deadline** is cleared every turn and every module must set it again.
- **The network** loses, repeats and reorders packets and ACK frames; duplicates
  are not detected, so every handler runs again.
- **A handler that fails** leaves a packet half processed and unacknowledged.
- **Several owners per frame.** A frame moves between the framer, a packet in
  `sent_mem`, the retransmission queue and its stream.
- **Unsigned counters** are decremented in more than one place.

What makes each component correct:

- *ack generator*: an ACK frame denotes exactly what was received, and what is
  ack-eliciting is reported in the end.
- *retransmission*: no frame is leaked, freed twice or given up; counters equal
  what they count; a session with data in flight does not sleep for ever.
- *packet exchange*: acknowledged implies delivered; not delivered implies still
  in the sender's hands.
- *sorter*: reads give the stream's bytes, once, in order, as soon as they are
  contiguous.
- *send stream*: the frames of a stream are its bytes, within the window, and
  what a write is told it sent; FIN once; no active stream is forgotten.
- *recv stream, flow control*: never more accepted than was granted, windows that
  open again, no reader that misses its wake-up, credit given once.
- *stream set*: a stream is freed after both halves are done and its close is
  over, and leaves nothing behind for the next stream of its id.
- *sealer, sender*: a space is closed only when it is done with; packets are
  sealed with keys there are; the handshake ends, and so does a closed session.
- *connection ids*: the server routes by exactly the ids its sessions hold; an id
  packets are sent to is the peer's and not retired; every id is answered for.
- *congestion*: the window stays between its bounds, and no packet is filled
  beyond it in the space in which it was last cut.

## 2. Modules

| module | models | is used by |
|---|---|---|
| `AckFrame` | building an ACK frame from ranges and reading it back | AckGenerator, Retransmission |
| `AckGenerator` | `ack_generator.c/.h` | AckExchange, AckGeneratorProofs |
| `AckGeneratorProofs` | theorems about `AckGenerator` | AckExchangeProofs |
| `Retransmission` | `retransmission.c/.h` and the sender's side of it | AckExchange, MCRetransmission |
| `MCRetransmission` | the ACK frames a peer can build, for TLC | |
| `Delivery` | abstract: what a packet number space promises | AckExchange |
| `AckExchange` | both endpoints of a space and the network | AckExchangeProofs |
| `AckExchangeProofs` | theorems about `Retransmission`, about `AckExchange` and its refinement of `Delivery` | |
| `ByteStream` | abstract: a stream with gaps, read in order | Sorter |
| `Sorter` | `sorter.c/.h` | MCSorter, SorterProofs |
| `SorterProofs` | theorems about `Sorter` and its refinement of `ByteStream` | |
| `MCSorter` | the ways a peer may cut a stream, for TLC | |
| `SendStream` | sending half of `stream.c`, `framer.c/.h`, send windows | SendStreamProofs |
| `SendStreamProofs` | theorems about `SendStream` | |
| `RecvStream` | receiving half of `stream.c`, receive windows | MCRecvStream, RecvStreamProofs |
| `RecvStreamProofs` | theorems about `RecvStream` | |
| `MCRecvStream` | two ways a peer cuts a stream, for TLC | |
| `StreamSet` | opening, closing and freeing in `stream.c` | SessionProofs |
| `ConnIdGen` | `connid_gen.c/.h` of one session, as operators | ConnIds, Handshake |
| `ConnIds` | `server.c`: sessions, routing, ids exchanged with peers | MCConnIds, ConnIdsProofs |
| `ConnIdsProofs` | theorems about `ConnIds` | |
| `MCConnIds` | bounds for two sessions, for TLC | |
| `Handshake` | `sealer.c/.h`, the choices of `sender.c`, close in `session.c`, both endpoints | |
| `Congestion` | `congestion.c` and the calls made on it | SessionProofs |
| `SessionProofs` | theorems about `Congestion` and `StreamSet` | |
| `DataLemmas` | lemmas about lists, minima, flattened sequences and sums | the proof modules |

A definition named `Faulty...`, or otherwise commented as such, is a plausible
bug of the definition after it. No specification uses it; `PROJECT.json` pairs
each with the property that finds it when it takes that definition's place.

### AckGenerator

The list of ranges is a sequence in the list's order; `Received` is
`quic_ack_generator_received` with `insert_ranges` and `check_is_lost`
inlined, one case per branch of the walk. The threshold below which numbers
are ignored and the ACK alarm keep their initial zero, because no code calls
their setters: ranges are never pruned and an ACK is sent at once. `received`
and `unreported` are history variables.

### Retransmission

One action per handler: `Send` (`quic_sender_send_packet` into
`sent_mem_push`), `HandleAck` (`find_newly_acked`, `find_newly_lost`, alarm),
`LoopEarly`, `LoopDue` and `LoopIdle` (the branches of the module loop),
`Drop`. `Tick` is the clock. `Wake` starts a turn of the event loop: `todo` is
the set of module loops still to run and they are taken in any order; ACK
frames are handled before the first of them. `pto_backoff` is
`1 << pto_count`. Round-trip times, the probe timeout and the loss delay come
from the congestion module and are chosen from constants at each use.
`AckedBy` keeps the code's reading of a frame: it leaves the loop before the
last block is compared, so packets only named there stay in flight. The frame
lists are sets: a node is on one list at a time.

`fresh`, `acked` and `freed` are history: with them "nothing leaks" is a
statement about a partition (`FramesConserved`).

### AckExchange, Delivery

`AckExchange` EXTENDS `Retransmission` and instantiates `AckGenerator` as the
peer. `net` and `acks` only grow, so loss is a message never taken, repetition
one taken twice. `ReceiveFails` is `process_packet_payload` with a handler
that returns an error: the frames before it took effect and the number is not
recorded. `Delivery` says what this is for, in four variables; the mapping is
sent = packed at least once, delivered = processed by the peer, confirmed =
`on_acked` has run, closed = dropped.

### Sorter, ByteStream

Gaps are a sequence of `[off, len]`, clusters a function from cluster key to
the offsets written in it; a byte is its offset. `Remains` has the four cases
of `quic_sorter_write` with their two omissions when a segment spans several
gaps (an end gap that is filled is kept; the last case moves the end gap
without shortening it). `append` is a write at `avail_size`; `peek` is a read
that consumes nothing.

The two omissions matter only to a peer that cuts the stream anew when it sends
it again. `NeverRecuts` names the peers that do not, as this program's sender,
which queues a lost frame whole; for them the gaps are exactly what is missing
and `ByteStream` promises something to the reader. For the others
`NothingIsTakenForArrived`, part of `GapsAreWhatIsMissing`, says what is left: no
byte that is missing is taken off the gaps. That the reader is never ahead of `avail_size`, which the code
takes for granted, is not true of them (section 5).

### SendStream

Two threads. The event loop runs `Start`, `Wait` and `Resume` (the pieces of
the coroutine `quic_stream_write_co` between its locks), `AppendNothing` and
`AppendFrame` (`quic_framer_append_stream_frame` with
`quic_send_stream_generate`, under the framer's mutex), and `MaxStreamData`.
The application runs `Write`, `SetDeadline`, and the three pieces of close,
`CloseMark`, `CloseAdd`, `CloseNotify`, at any point between.

A packet is packed without a break. `PackPacket` is the sender coming to its
`for (;;)` over STREAM frames (`sender.c:365`); from there to the call that yields no
frame (`AppendNothing`, `NoneIsActive`) the event loop does nothing else: coroutines
and handlers wait (`LoopIsFree`), and only the application's thread comes between
two frames, where the framer's mutex is free. `max_bytes` is what is left of the
packet: a frame takes `HeaderLen` and its payload, and since a closed stream yields a
frame whether there is room or not, it may wrap at `Word`. The loop need not end
(`SpinsOn`, section 5).

A push on `sent_segment_chan` reaches a coroutine only if it waits (`Notified`): liteco
is a submodule whose source is not part of the repository, and this is how
its unenforceable push is used here. A timer is started with a point in time
where a delay is expected, so `TimerFires` may come at any time. All frame headers
have one length. A stream has one write at a time. Its first limit is the endpoint's own
`stream_flowctrl_initial_swnd`: no transport parameter carries one.

### RecvStream

The event loop runs the read coroutine (`Start`, `Sleep`, `Resume`: the pieces
between its locks), `HandleFrame` (`quic_recv_stream_handle_frame` with
`update_rwnd`) and `ProcessRwnd`; the application's thread runs `Read` and the
three pieces of close, `CloseMark`, `CloseChan` and `CloseAbandon`. The sorter is
replaced by what `Sorter` shows of it: a set of bytes read in order up to the
first missing one; `ByteStream` is that abstraction. `FlowctrlRead` is the window:
it is raised when a quarter of it was read and may double, depending on the
RTT and the time of the epoch, which are choices. The peer is a conforming one:
it sends the frames of one stream, below the limit it knows (`granted`), with
one FIN, and never recuts them (`PeerAssumption`). What it knows at first is its own
`stream_flowctrl_initial_swnd` (`initial_swnd`), whatever our window is: the transport
parameters carry no stream window (`session.c:252`-`279`), and in the shipped
configurations the two are 5 * 1460 and 1460 (`client.c:24`, `26`). So the peer may
start above our window, which nothing in the code enforces, or below it. Left out: the
read deadline (`stream_recv_timeout` is 0 in both configurations the code builds) and the connection's window, which no module
announces, enforces or reads; its two offsets are kept.

### StreamSet

Bidirectional streams. A stream of the peer is made wherever its id is looked
up and not found (`Opened`, `LookUp`, `Accept`): by STREAM and MAX_STREAM_DATA
frames, by the framer for the ids in its active queue and by the window updates.
So a stream that was freed may come into being again, with nothing of its
predecessor: `closer` and `opens` are reset and counted in `Accept`.
`quic_stream_close` is five steps of the application's thread, one per mutex
(`CloseSteps`); each may meet any step of the event loop. Of the writer only
what it leaves to send is kept (`remain`), of the reader nothing.

### ConnIdGen, ConnIds

`ConnIdGen` has one operator per function, from the module's state to the state
the call leaves, because the same calls are made from handlers, from the
transport parameters and from close; the two modules that use it make actions
of them. `ConnIds` is the server: `sessions` is its map from ids to sessions,
changed through `new_connid` and `retire_connid`. An id is drawn from those that
are free, as the code draws until it is accepted. The peer is one that conforms
to RFC 9000; the network is a set of frames that only grows. The id the client
chose for its first packets is never put in the map.

### Handshake

Both endpoints, in one record each (`ep`), and a network of packets that only
grows. An operator takes a session to what a call leaves of it; `Receive`,
`Send`, `Close` and `CloseProcedure` make actions of them. A TLS message is one
unit, and BoringSSL (`TlsTakes`) answers each with the messages and secrets TLS
1.3 yields, through the callbacks in `sealer.c`; CRYPTO data is counted in
messages and read in order, repeats dropped, as the sorters do. A flight fits
into one packet. `Space` is the switch in the sender's loop: at the first level
a handshake packet is made when there is no initial one, and making it raises
the level. `probe` is what is left when congestion refuses: only ACK frames. A
packet that arrives before the keys of its space ends what is modelled of the
session (`broken`). No frame of a handshake has an `on_lost`, so nothing is sent
twice and the records of `Retransmission` are not needed.

### Congestion

One controller and the calls made on it: `Send` (`on_sent`, after
`allow_send`), `OnAcked`, `OnLost`, `Update`, `RaiseLevel` (a space is dropped
and the controller not told). Bytes are exact, in units of a quarter of the
code's packet and in unsigned words. A division by zero ends a behaviour. Cubic
takes the curve's value as a choice of three (below everything, the window,
above everything) between which the code's own comparisons decide. HyStart's
comparison of round trips is a choice. The RTT estimate and the pacer are left out:
`Send` is what they allow, and may be delayed, or never come (section 5). So is the
store of one state per path. Two history variables say of the last cut whether it
came before any acknowledgement (`blind`), and in which space (`cut_level`).

## 3. Runs

| run | instance | what it shows |
|---|---|---|
| `ack_generator` | numbers 0..6 | ranges separated, frame = received with the delay of its largest, nothing unreported forgotten, nothing recorded forgotten |
| `retransmission` | 4 frames, 3 packets, fair | the properties of the proof below, among them that `loss_time` is the deadline of the oldest packet in flight, and that a STREAM frame leaves flight once one is known |
| `ack_exchange` | 3 frames, 4 packets | no false acknowledgement, nothing lost, implements `Delivery` |
| `sorter` | 7 bytes cut once in every way, and any segment of 10 bytes; clusters of 3, fair | gaps are what is missing, the readable prefix is right and is held, implements `ByteStream`; a reader gets the whole stream; whatever the cuts, no missing byte is taken off the gaps or offered to the reader |
| `send_stream` | 2 streams, 2 writes each, fair | queue = active set, frames = what writes are told, within the window, one FIN, no data left inactive; every write of an open stream returns, or the sender is for ever in its packing loop with the closed one |
| `recv_stream` | 5 bytes, window 3 to 4, a peer that starts from 1 or 4, fair | the window is kept and opens again, no reader sleeps on data, credit exact, the whole stream is read |
| `stream_set` | 1 stream of each side, made up to twice | a freed stream leaves nothing of its close behind |
| `conn_ids` | 2 sessions, 5 ids | routing = the ids held, the destination is valid, every id is answered for |
| `handshake` | client and server, fair | closed spaces are done, packets have keys and a destination, the handshake completes, a close is heard |
| `congestion` | 6 packets, 2 spaces | the window is bounded (one exception); in each space no packet is filled beyond it, if it was last cut there and after an acknowledgement |
| `fin` | 1 stream, 1 write, fair | **violated**: closing a stream sends FIN |
| `empty_read` | 5 bytes, fair | **violated**: a read that returns nothing after FIN is at the end |

### Bounds

- `MaxNum` (packet numbers). Seven numbers give the ack generator up to four
  ranges, and every way to extend one, to join two, to insert between, before
  and after. Three packets give retransmission frames with two blocks (and
  frames whose last block is not read), one packet acknowledged, one lost and
  one kept in the same step.
- `Frames`: two STREAM frames (one in flight while one is lost), one
  eliciting frame without callbacks, one ACK frame; the three kinds the code
  distinguishes.
- `LastSend`, `MaxTime` of Retransmission: the last send leaves enough time for the
  alarm, one backed-off alarm and a loss delay.
- `PktLens`, `Ptos`, `LostDelays`: single values where the property does not
  compare two; two lengths where bytes are counted.
- `MAX_SIZE`, `CLUSTER_SIZE`, `Total`, `LongTotal`: three clusters, the last not
  full, and an open gap above the stream as in the code. With one cut per stream
  (`CutOnce`) the cut is any subset of the offsets, so segments fill gaps exactly,
  split them and arrive repeatedly. With `AnyCut` a peer may send any segment at
  any time; in 10 bytes the gaps come to overlap and to lose their order.
- `WriteLens`, `Rooms`, `Windows`: a write larger than the first window, so that it
  takes several frames, and a limit that lets all writes through. One stream is open
  throughout, the other is closed and has deadlines. With `HeaderLen` 1 a packet
  of 3 has room for a frame of two bytes, for a frame of one byte and an empty one,
  or for an empty frame of the closed stream and one byte of the other's two, so a
  write is also cut by the packet's end; `Word` 4 is above every room, and small
  enough for a wrapped `max_bytes` to be used up again.
- `InitialRwnd`, `MaxRwndSize`, `InitialSwnds`, `ReadLens`: a window smaller than
  the stream that must open at least twice, grows once and meets its maximum; a peer that
  starts above it or from a third of it (a quarter or more, see below); reads smaller
  and larger than what is readable. FIN is on a frame of its own or on data.
- `MaxOpens` of StreamSet: a second stream of an id is what a rest of the
  first one could harm. (The theorem is for any number.)
- `Ids`, `PeerMaxSeq`, `MaxRetires`: each session holds two ids, as in both
  configurations, and a fifth can replace one; three ids of the peer let a frame
  retire the active id, one before it, or the one it brings, late or early.
- `Handshake` needs no bound: each message is sent once.
- Congestion: an initial window of one packet and a largest one of three, so
  that slow start ends by the limit, by HyStart (`HystartPackets`) or by a loss;
  packets of a quarter and of a whole `Mss`; `LastSend` six leaves flights of three,
  losses of several of them, and another flight in and after recovery, in the first space
  or in the second; a fault of rate reduction in the second alone is found too. `Word` is
  larger than any product that occurs and a value that wraps is not near the
  window.

Deadlock is checked where the system cannot stop: in the runs of the ack
generator, retransmission, the exchange, the sorter and the two halves of a
stream the clock's last tick still leaves the event loop its turns, and packets may
always be repeated. Sessions end (`handshake`, `conn_ids`), streams are freed and made
`MaxOpens` times (`stream_set`), and all packets may be answered (`congestion`).

### Fairness

Safety is checked without using fairness. For liveness:

- `Retransmission!Fairness`: the clock advances, a turn of the event loop runs
  every module's loop, and the event loop wakes for a `loop_deadline` that has
  passed (`session.c` waits with that timeout). It is *not* assumed that it
  wakes otherwise, that packets are sent or that ACKs arrive.
- `Sorter!FairSpec`: a peer that keeps its cut repeats each segment until it is
  acknowledged, and the application keeps reading.
- `SendStream!FairSpec`: both threads finish what they began, a packet included
  (`ThreadsAreFair`). A woken coroutine gets its turn of the scheduler: strong fairness,
  because the other stream's may hold the loop in between. Nobody must write, close, or
  raise a limit. `SenderIsWoken` is an assumption about the surroundings, which the code
  does *not* justify by itself: that something (a packet, a timer, a call) wakes the
  sender again and again while pacer and window let it send, and that what goes before
  the STREAM frames leaves room for a byte. Without budget the sender arms no deadline
  (`sender.c:423`, section 5), and the hazards list this as one no property covers.
- `RecvStream!FairSpec`: the peer repeats its frames (its retransmission does), the
  application keeps reading, the event loop runs what was woken
  (`PeerAndThreadsAreFair`), and the sender comes to its window updates
  (`SenderIsWoken`, an assumption as above). MAX_STREAM_DATA frames may be lost:
  `WholeStreamIsRead` excepts a peer that for ever lacks the newest limit
  (`PeerIsBehind`), for the frame carries no `on_lost` and is repeated only after another
  read (`framer.c:73` in the hazards). It also excepts a peer that starts from less
  than a quarter of our window (`QuarterIsGranted`, section 5).
- `Handshake!FairSpec`: every packet arrives at least once (nothing is sent again:
  `sealer.h:205`), congestion lets data pass in the end (the windows of a
  handshake are empty again when its packets are acknowledged or its space is
  dropped), and the event loop, which runs every module's loop after each packet,
  gets to the sender and to the close procedure.

## 4. What is proved

Each theorem is of the specification the run checks, for every value of the
constants that satisfies the assumptions named; TLC evaluates these
assumptions in the runs. The theorems about a model follow from one
inductive invariant, or two. `tlapm` checks all of them to the last leaf.

| module | proves | assumptions |
|---|---|---|
| `AckGeneratorProofs` | `RangesSeparated`, `FrameIsExact`, `NothingUnreportedIsForgotten`, `NeverForgets` | `MaxNumAssumption` |
| `AckExchangeProofs`, of `Retransmission` | `TypeOK`, `FramesConserved`, `ReliableFramesKept`, `CountExact`, `BytesExact`, `LossTimeIsOfAPacketInFlight`, `SleepsWithDeadline` | `FramesAssumption`, `AckFramesAssumption`, `NumbersAssumption` |
| `AckExchangeProofs`, of `AckExchange` | `NoFalseAck`, `NothingLost`, `ImplementsDelivery` | the same three |
| `SorterProofs` | `GapsAreWhatIsMissing`, `AvailIsThePrefix`, `ReadableIsHeld`, `ImplementsByteStream` | `SizesAssumption`, `SegmentsAssumption` |
| `SendStreamProofs` | `QueueIsTheSet`, `FramesCarryWhatIsReported`, `WithinWindow`, `OneFin`, `DataIsActive` | `StreamsAssumption`, `SizesAssumption` |
| `RecvStreamProofs` | `GrantsAreKept`, `NoReaderSleepsOnData`, `CreditIsExact` | `WindowAssumption`, `ReadLensAssumption`, `PeerAssumption` |
| `SessionProofs`, of `Congestion` | `WindowIsBounded`, `NeverOversends` | `WindowAssumption`, `BoundsAssumption`; the first also `RenoIsFaster` |
| `SessionProofs`, of `StreamSet` | `NothingOfCloseIsLeft` | none |
| `ConnIdsProofs` | `RoutesAreExact`, `DestinationIsValid`, `EveryIdIsAnswered` | `IdsAssumption`, `BoundsAssumption` |

The assumptions give numbers their types and say what the configuration of the
code cannot do otherwise (a window, a cluster, a packet or a delay is not empty).
Seven say more. `FramesAssumption`: STREAM frames are ack-eliciting.
`AckFramesAssumption`: no block of an ACK frame goes below packet number 0, as none of a
frame built from packet numbers does; the code subtracts in `uint64_t` without a check.
`SegmentsAssumption`: no segment reaches `MAX_SIZE`, 2^63 - 1, which an offset
of 62 bits cannot. `PeerAssumption`: the peer's frames do not overlap and agree
on the end of the stream. `IdsAssumption` of `ConnIds`: no id drawn at random is the
one the client chose for its first packets. `BoundsAssumption` of `Congestion`: not
as many bytes are sent as 64 bits count. `RenoIsFaster`, a hypothesis of one theorem:
the smallest window is at most 18/17 of a packet; in both configurations it is one
packet (`client.c:21`, `server.c:22`).

### DataLemmas

What the models say with minima, insertions into lists, `FlattenSeq` and sums is
shared here. The community modules define the last two by recursion on
operators the provers know nothing of; the lemmas show that the recursion has one
and only one solution (`FlattensExists`, `FlattensUnique`, `SumsExists`,
`SumsUnique`, `SumsAnyOrder`), and the proofs use what that solution
satisfies (`FlattenAppend`, `TotalOfUnion`). The induction is over a set of
numbers (`NatSetInduction`), not over an operator.

### AckGeneratorProofs

`IInv` says that the ranges are ascending and separated (`Disjoint`), that they
hold what was received (`ListIsExact`) and where `lg_obnum` and `should_send`
stand to it (`Flags`). Neither `RangesSeparated` nor `FrameIsExact` is inductive:
the walk of `insert_ranges` finds the right place because the ranges are
separated, and a number that falls between them is new because the list is
exact. The first part of the module shows, for each way the walk can end, what
the list becomes; the second that the gaps and lengths of a frame, subtracted
one from the other, give back the ranges, however many there are.

### AckExchangeProofs: the sender's half

`IInv` of `Retransmission` is the conjunction of the properties but the last, and
of `TimersArmed` and `SentBefore`. `CountExact` is needed for the type of `sent_pkt_count`: that the
counter stays a natural number is that no more packets leave than there are, and
`BytesExact` does the same for `unacked_len`. `SleepsWithDeadline` speaks only of
`todo = {}` and is not inductive: `TimersArmed` adds what holds in the middle of
a turn, namely that the alarm is armed whenever bytes are unacknowledged, and that
with a loss deadline known, either `loop_deadline` is no later than the alarm or
the retransmission module's loop, which will make it so, is still to run. Frames
are proved about with one lemma on what removing packets does to the partition
(`FramesAfterRemoval`), counters with the cardinality theorems of the library.

`LossTimeIsOfAPacketInFlight` says that `loss_time` is the sending time of the oldest packet
in flight plus a loss delay. `find_newly_lost` sees to that when it runs; that no later
step makes it false needs `SentBefore`, nothing in flight was sent after `now`, so that
a packet sent later is not older (`LossTimeOfKept`).

Of the peer's ACK frames the theorems assume only `AckFramesAssumption`: they may name any
numbers, again and late. A frame whose blocks go below 0 is outside: in the code its
blocks wrap and may overlap, and a packet named twice is counted off twice.

### AckExchangeProofs: both ends

The invariants of both ends are taken over whole, from their own modules, and
`Exchange` adds what only the composition knows: a number names one packet for
good (`NetIsWhatWasSent`), the peer has processed all frames of a packet it
recorded (`RecordedIsProcessed`), and an ACK frame, however old, names only
recorded packets (`AcksAreRecorded`), which is where `FrameIs` of the ack
generator comes in. From it follow `NoFalseAck` and `NothingLost`, and every
step is one of `Delivery` or leaves its variables alone:
`ExchangeImplementsDelivery`, one lemma per action.

### SorterProofs

For a peer that never recuts, `Sound` is inductive: the gaps are ascending and
apart, cover what has not arrived, and each segment has arrived as a whole or not
at all (`Whole`). The last is the key: a segment then lies in one gap as a whole
or in none, and the branches for segments that span gaps are never taken.
`Clustered` adds that what arrived and is unread is in a cluster. The mapping to
`ByteStream` gives the reader of any other peer nothing.

For all peers, `RecutInv` is inductive. That every missing byte lies in some gap is
not enough, as the list loses its order and the walk may stop too soon: it must
lie in a gap *before which no gap starts above the byte* (`SeenIn`). Then the
walk for a segment cannot pass it, the segment's bytes are the only ones taken
off, and `avail_size`, the start of the first gap, is below all that is missing.

### SendStreamProofs

`IInv` has eight parts, each with lemmas for the actions that can disturb it:
the types, the queue and the set (`Queued`), what is left of writes that have not
started or are over (`Readers`), the counters of stream and flow control and the
reported limits (`Flow`), the packet that is packed (`Packing`: meanwhile no
coroutine is between two of its pieces), `DataIsActive`, `OneFin`, and `Carried`. The last is
about the history: the frames' data end to end equal the prefixes of the writes
that were, or will be, reported; it needs `Flow` for the offsets, and that an
inactive write has nothing left. `DataIsActive` says nothing of a closed
stream, on which section 5 has more.

### RecvStreamProofs

`IInv` adds to the properties what they rest on. `WindowIsOpen`: the window is never
empty, the peer has sent no more than the limit it keeps to, and that is at most its
own initial one or ours, as no announced limit, however late, is above the window.
`ReadIsThere`: what
is read is below the first missing byte. `FinIsKnown`: FIN has been seen as soon
as a byte of the frame that carries it is there, and all frames agree on where
it is; without it a close could credit the rest of a stream whose end moves
afterwards. `Agreement` ties the stream to flow control; it makes
`CreditIsExact` inductive.

### SessionProofs: the window

`WindowInv` has three parts. The types, for which it must be known that what is
subtracted from `InFlight` is in it (`BytesWithout`). `LostWasSent`: bytes counted as
lost, together with a full packet for each that is in flight, are no more than was
sent, so that with `BoundsAssumption` a window that passed 0 is still far above
`MaxCwnd` (`WrappedIsLarge`). And `Window`, which adds to the property what each way of
changing the window needs:

- slow start adds a packet to a window below `MaxCwnd`, and a window in slow start is
  its own bound even after the exception (`SlowStartIsBounded`);
- a cut and a further loss stop at `MinCwnd` and at half the window slow start had
  (`ExitIsAWindow`), except when that half was never taken, the one exception;
- cubic takes the larger of its own step and Reno's, so what matters is where
  Reno starts. `RenoLeads`: it starts below `MinCwnd` only after the exception, with
  slow start over and a window no larger than Reno's (or one that passed 0). This
  survives a step because Reno's, 9/17 of a packet per window, is at least the
  half of what was acknowledged that cubic may add, as long as the window is below
  18/17 of a packet (`RenoStep`): then the new window *is* Reno's.

Without `RenoIsFaster` the last part is false (TLC shows it with a smallest window of
two packets); TLC did not find `WindowIsBounded` itself violated there.

### SessionProofs: rate reduction

`ReductionInv` is about the packets in flight, split by the number at which the
window was cut. Of those sent before (`Old`), what is left and what was
acknowledged since are no more than was in flight at the cut; those sent since
(`New`) are no more than were counted; and the threshold of slow start is at most the
window (`Reduction`). An acknowledgement that is counted is of an old packet, because a
newer one ends the recovery (`RecoveryEnds`); a loss that is not answered by a new cut
is of an old one too. `SpaceInUse` is why numbers can be compared at all: what is in
flight is of the space in use, no space above it was used, and if the last cut was made
in this space (`cut_level`) its number is one of this space. Raising the level leaves
that condition, and the next cut restores it. In the case `prr_allow_send` decides by the proportion, `Proportion` shows that no more was
sent than acknowledged; in the others the window, or the first packet, does.

The proof is where the last conjunct of the property's condition comes from. When the
window is cut before anything was acknowledged, `in_recovery` is false and stays so until
something is: what is sent meanwhile is not counted (section 5). TLC shows the case with
an initial window of 6 and seven packets of 1 or 3 bytes, a little beyond the run's size;
the run itself shows that the property fails without the condition on `cut_level`.

### SessionProofs: the set of streams

`NothingOfCloseIsLeftHolds` proves `NothingOfCloseIsLeft` for every set of streams
of both sides and every `MaxOpens`. The inductive invariant, `SetInv`, is the property
together with the types of
`streams` and `closer`: its second conjunct (an entry of the destroy set belongs
to a finished close) is what makes the first survive the loop, which frees only
streams in the set and takes them out of it, and it rests on the order of
`CloseSteps`, in which the push is last. A new stream may take an id only where
no close is under way, which is the first conjunct; looking an id up
(`LookUpKeeps`, `LookedUp`) is two lemmas, because four actions do it.

### ConnIdsProofs

`IInv` speaks of every session (`SessionOK`), and of the peers: their frames keep to
the protocol (`KeepsToRfc`). The loops of the code that a fold or a
sorted list stands for are unfolded first: `IssuedAll` says what a whole loop of
`issue_src` leaves, by induction over the ids drawn, and `RetirementsAre` that
the frames sent for a larger `retire_prior_to` are those of the ids removed.

- *Routes.* A session's ids have numbers up to `src_hseq`, are pairwise
  different, and are what the map leads to it from (`SrcsOK`, `RoutesTo`). A
  new id is free, so the map of another session is left alone; replacing one
  keeps their number.
- *Destination.* That the active id is held is not inductive. `DstsOK` adds that
  no id held is below `dst_hretire`, that an id the peer was told to take back is
  at most `dst_hretire` and not the active one, and that a frame handled before
  asks for no more than `dst_hretire`. A late frame then cannot bring a retired id
  back as the active one: either its number is below the mark (`HandleLate`), or it
  is handled in time and the minimum of what is left is one nobody retired
  (`HandleInTime`). The comparison `<=` (`connid_gen.c:239`), which retires the
  id with the frame's own `retire_prior_to` as well, is why the mark itself may be
  both held and retired.
- *Answers.* `EveryIdIsAnswered` is inductive beside the other two: an id leaves
  `dsts` only with a frame that says so.

### Only model-checked

- All liveness properties, which are out of the prover's reach.
- The two invariants of `Handshake`, `ClosedSpacesAreDone` and `PacketsArePossible`.
  The module has no bound, and its one constant is the set of endpoints that close:
  the run, in which both do, has every behaviour of every instance. It is
  exhaustive, and a theorem would say no more.
- The violated properties, which are not invariants.

## 5. Disagreements with comments and examples

`quic_send_stream_close` activates the stream to "send fin flag"
(`src/src/modules/stream.c:551`). If data of a write is still waiting, the
stream is active already and the frame that carries the rest of the data is
generated with `closed` set. `quic_send_stream_generate` then reports the
stream as empty (line 204) but sets FIN only if something of the reader was
left (line 209). The framer removes the stream from the active ones, the write
returns, and nothing activates the stream again: FIN is never sent, and the
stream never becomes destroyable (line 638). Run `fin` shows it with one
write of one byte.

The read coroutine, once woken, reads without looking at `final_off` again and
ends when it gets nothing (`stream.c:282`). An empty FIN frame that overtakes
the data before it wakes it, so a read returns nothing while bytes are
missing. The example server closes a stream on just that
(`examples/ngb/server_demo.c:19`, `len == 0 && quic_stream_fin(str)`) and loses
them. Run `empty_read` shows it.

### Observations without a run

No line of the repository claims otherwise, so these are recorded here and, where a
property depends on them, at the property and in the hazards.

- When a segment starts inside one gap and ends inside a later one,
  `quic_sorter_write` moves the later gap up without shortening it (`sorter.c:119`),
  so it also covers bytes that have arrived. The list loses its order, and when its
  first gap is filled `avail_size` (line 122) may become smaller than what was
  read; `quic_sorter_readable`, an unsigned difference (`sorter.h:66`), then wraps.
  The shortest case is byte 2, byte 8, bytes 1 to 6, 7 to 9 and byte 0, a read
  of all ten, then bytes 10 and 11. Only a peer that recuts its stream
  gets there; `NothingIsTakenForArrived`, checked and proved for such peers too,
  says that the error is always that too much counts as missing.
- FIN may be set on a frame that leaves data behind (`stream.c:209`). If such a stream is
  then active again (the second half of close, or a MAX_STREAM_DATA) and has no
  window, `quic_send_stream_generate` yields a frame without payload each time it is
  called (`stream.c:152`-`219`), and the sender's loop (`sender.c:365`), which
  ends only on a call that yields none, does not end: no coroutine of the session runs
  again. `EveryWriteReturns` names that state (`SpinsOn`) as the one thing that can
  keep a write of another stream.
- A closed stream yields a frame also when the packet has no room for its header, and
  `max_bytes`, a `uint32_t`, wraps (`sender.c:367`); the model keeps this.
- Without budget of the pacer the sender returns without arming a deadline
  (`sender.c:423`). So it does when it packed nothing, which a blocked stream at
  the head of the queue brings about (`framer.c:39` ends the packet), and when
  `next_send_time` is 0. With active streams and nothing in flight nothing wakes it then.
- The two ends of a stream start from windows that have nothing to do with each other
  (`session.c:252`-`279`; `client.c:24`, `26`). A receiver holds more than its window
  if the sender's is larger (`GrantsAreKept` bounds by how much), and a sender that starts
  from less than a quarter of the receiver's window never hears of a new limit,
  because the window is announced only when a quarter of it was read
  (`stream_flowctrl.c:133`).
- A lost MAX_STREAM_DATA frame is repeated only when more was read; if the peer has
  nothing left it may send, never (`framer.c:73`).
- An ACK frame whose ranges go below packet number 0 wraps (`retransmission.c:97`); its
  blocks may overlap, and a packet matched twice is put on `acked_list` and
  counted off twice (lines 75 to 79). No frame built from packet numbers does that, and
  the properties are stated for those.
- After an alarm with `loss_time = 0` the tail of a flight is not probed
  (`retransmission.c:241`): `LossIsDetected` is stated for a known loss deadline.
- Several packets of one flight lost in slow start before the window has doubled
  reduce it without a lower bound (`congestion.c:337`): with the shipped
  configuration to 0, after which nothing but ACK frames is sent and cubic divides
  by it (`:283`), or below 0, which is no bound at all. `WindowIsBounded` names it.
- The controller compares packet numbers of different spaces (`congestion.c:318`):
  `NeverOversends` holds in every space as long as the last cut was made there
  (`cut_level`) and fails in a space while the last cut is one of the space before. The acknowledgement of a packet sent before the loss may be missed as the
  end of a recovery, and proportional rate reduction, with counters of the other space,
  lets too much through.
- When a packet is lost before any ack-eliciting one was acknowledged, the window is
  cut but `in_recovery` (`congestion.c:193`) is false until the first acknowledgement:
  packets sent in between are not counted, and proportional rate reduction later lets
  more through than it should. It takes an ACK frame that names only packets with
  ACK frames, or one whose lowest range is not read (`retransmission.c:71`).
  `NeverOversends` names it (`blind`).
- Every Initial packet makes a session of its own (`server.c:118`), a repeated
  one too; a client that closes at the first level only makes another session
  (hence the exception in `CloseIsHeard`).
- A lost CRYPTO, HANDSHAKE_DONE, NEW_CONNECTION_ID or MAX_STREAM_DATA frame is
  not sent again. A repeated HANDSHAKE_DONE calls the application's callback again.
- `quic_sealer_append_crypto_frame` leaves no room for the frame's header
  (`sealer.h:196`): a flight longer than a packet lets `max_bytes` wrap.
- RETIRE_CONNECTION_ID for number 0 frees the buffer that `session->src` still
  points to (`connid_gen.c:102`).
- `quic_stream_open` makes the id of a bidirectional stream for a unidirectional one
  too (`stream.c:448`), which is then looked up among the bidirectional streams.
- A freed stream of the peer is made again, and accepted again, by a late frame or
  a remembered id; in the framer and the window updates the accept callback
  then runs with their mutex held. Packets in flight still point to a freed stream
  (`stream.c:625`), and a coroutine may still wait in one.
- The destroy timeout compares the wrong way round (`stream.c:671`); both
  configurations have it 0, which turns it off.
- `rwnd - read_off` of the connection's window wraps once more was read than the
  initial window (`conn_flowctrl.h:103`); nothing reads that window.

## 6. Not modelled, and why

- **liteco, BoringSSL, sockets, epoll**: not part of the repository or pure I/O;
  modelled from how they are called where a component depends on them.
- **Activation** (`session.h:100`): a push to a liteco channel that may be dropped;
  when, is up to liteco.
- **Wire formats**, malformed frames among them: pure conversions, covered by `tests/`; the ACK frame's
  ranges are modelled because their arithmetic is where it can go wrong.
- **Out of memory**: `malloc` succeeds.
- **Data races on control frames** (`framer.h:44`) and **accesses to a freed
  stream**: need the C memory model.
- **Unidirectional streams**, because of their ids (above), and the read deadline
  and destroy timeout, which both configurations turn off.
- **AEAD, header protection, cubic's curve, the RTT estimate**: data, fixed-point
  numerics, points in time.
- **The pacer**: a packet is sent when it lets it; that it may leave the sender asleep is in
  section 5, and `SenderIsWoken` assumes that it does not.
- **Early data, Retry, version negotiation, key update**: stubs in the code.
- **migration**: a module whose one flag decides nothing, and one congestion state
  per path.
- `unacked_frames_count`, `largest_ack` of retransmission, `lost_pkt_count`: written,
  never read.

## 7. What could follow

- Composition: two `SendStream`/`RecvStream` endpoints over `Delivery`,
  implementing `ByteStream`.
- Proofs: `WindowIsBounded` for smallest windows above 18/17 of a packet, or a
  counterexample; the invariants of `Handshake`, if it is given parameters.
