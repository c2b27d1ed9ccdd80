# The VBI proxy, the page cache, the DVB demultiplexer and Zapping's fifos, in TLA+

The repository holds several programs around the vertical blanking interval of
television: libzvbi (`src/vbi`) with its proxy daemon, the TV viewer Zapping
(`src/zapping`) and the encoder library rte (`src/rte`). This directory models
the parts in which several actors, shared buffers or resumable parsers make the
code hard to test:

- the **VBI proxy** (`src/vbi/daemon/proxyd.c`, `src/vbi/src/proxy-client.c`,
  `src/vbi/src/proxy-msg.c`): a daemon that owns a capture device and shares
  its data, and the right to switch its channel, among client programs;
- the **teletext page cache** of libzvbi (`src/vbi/src/cache.c`);
- the **DVB demultiplexer** of libzvbi (`src/vbi/src/dvb_demux.c`);
- the **buffered fifos** of Zapping and rte (`src/zapping/common/fifo.c`).

TLC checks all of them on small instances. TLAPS proves, for any number of
clients, buffers and threads, the invariants of the daemon's queue, of its
acquisition thread, of a connection and of the fifos, that every call of the
channel control gets its own reply, that the token which stands for the channel
is with one client at most and never lost, and that queue and fifos both
implement an abstract stream of frames.

## 1. The repository

| Part | What it is | State it keeps | Here |
|---|---|---|---|
| Proxy daemon, slicer queue | one buffer per captured frame, shared by all clients that receive it | per device `p_sliced`, `p_free`, `p_tmp_buf`; per buffer `ref_count`; per client `p_sliced` | modelled, proved |
| Proxy daemon, services | which data each client wants and the device can give | per client `services[]`, `all_services`; per device `p_capture` | partly |
| Proxy daemon, acquisition thread | reads devices that do not support `select()` | `use_thread`, `thread_active`, `wait_for_exit`, `start_mutex`, `start_cond` | modelled, proved |
| Proxy daemon, channel scheduler | which background client may switch the channel, and for how long | `chn_prio`, `chn_profile`, `chn_state` per client; the alarm | modelled, partly proved |
| Proxy daemon, main loop and handlers | `select()`, passes over the client list, messages in and out | `state`, `io`, `msg_buf`, `chn_status_ind` | partly |
| Message I/O | headers, partial reads and writes, timeouts | `VBIPROXY_MSG_STATE` | partly, proved |
| Client library | RPC to the daemon, events, the capture interface | `state`, `ev_mask`, `has_token`, `chn_prio` | partly |
| libzvbi, page cache | teletext pages of several networks, reference counted | hash lists, `priority`, `referenced`, `networks`, both limits | partly, proved |
| libzvbi, DVB demultiplexer | PES and TS packets to frames of sliced data | `wrap`, `ts_*`, `pes_buffer`, `frame` | partly |
| libzvbi, decoders | teletext, caption, XDS, VPS, bit slicing | decoder states | not modelled |
| Zapping, fifos | producers and consumers in threads | the empty and the full queue, counters per buffer, a pointer per consumer | partly, proved |
| Zapping, viewer and plugins | GUI, tuner control | widgets, `tveng` | not modelled |
| rte | encoder library with mp1e, ffmpeg and divx backends | contexts and codecs | not modelled; a copy of the fifos |
| web, CVSROOT | documents | none | nothing to model |

### How the parts interact

- **Data.** `main_loop` (or the acquisition thread) calls `forward_data`, which
  takes a buffer from `p_free`, reads a frame into it, counts the clients that
  receive it, and appends it to `p_sliced`. `handle_client_sockets` sends each
  client its first buffer and calls `release_sliced`. The queue is also emptied
  by channel switches, service requests, closed connections, and the end of the
  acquisition.
- **The thread.** `update_services` starts it, stops and starts it again when
  the services change, and stops it with the device. The two wait for each
  other on one condition variable.
- **Channel control.** A client asks for the channel with `CHN_TOKEN_REQ`. The
  daemon's `channel_update` runs on that, on notifications, on closed
  connections and on the alarm. At background priority it lets
  `channel_schedule` choose a client, and `token_grant` moves the token:
  `RECLAIM_REQ` to the holder, the holder's `CHN_NOTIFY_REQ` back, `TOKEN_IND`
  (or the confirmation of the request) to the next one.
- **Messages.** Either end reads and writes through one `VBIPROXY_MSG_STATE`
  per connection, in as many pieces as the socket gives or takes. A message
  that arrives while the library waits for a reply only sets a bit in
  `ev_mask`; the application's callback runs later, and calls the library again.
- **Pages.** The teletext decoder puts pages into the cache; formatters, search
  and the application get them, hold references and give them back.
- **Fifos.** Zapping's capture thread, the VBI decoder, the display and rte's
  encoder threads exchange buffers over fifos, each as producer or consumer.

### What is hard

Two threads over two mutexes, with critical sections that are not as long as
the data they protect; raw pointers into a queue that several handlers empty;
reference counts that must agree with pointers through every service change;
waits with timeouts that give up on a thread; messages that cross, and messages
in pieces; state that is cleared while a message about it is under way; a timer
that must be armed at the right moment for a client ever to get its turn; five
counters and four lists that one page is on; a parser that may be interrupted
between any two bytes; sleepers that nobody wakes. `PROJECT.json` lists the
hazards one by one, each at its line.

## 2. The modules

| Module | Contents |
|---|---|
| `FrameStream` | abstract: what a queue of shared buffers promises its readers |
| `ProxyQueue` | the slicer queue of one device: `queue_*`, `forward_data`, the handlers that touch the queue, `update_services`; implements `FrameStream` |
| `ProxyAcqThread` | start, cancellation and end of the acquisition thread |
| `ChannelScheduler` | the scheduler as operators on the channel states of all clients |
| `ProxyChannel` | the daemon's main loop, the sockets, the client library and the application around that scheduler |
| `ProxyConnection` | one connection, with messages in pieces |
| `VbiCache` | the page cache: networks, pages, references, limits |
| `DvbDemux` | the PES and TS demultiplexer as a resumable parser |
| `ZappingFifo` | the buffered fifos: producers, consumers, two mutexes; implements `FrameStream` |
| `MCProxyQueue`, `MCProxyChannel`, `MCVbiCache`, `MCDvbDemux`, `MCZappingFifo` | instances for TLC |
| `ProxyQueueProofs` | type correctness, the partition of the buffers, the reference counts; the refinement of `FrameStream` by `ProxyQueue`; that the daemon does not crash |
| `ProxyAcqThreadProofs` | the acquisition thread |
| `ProxyChannelProofs` | the scheduler's cycle counters, the calls and replies of all clients, and the way of the token |
| `ProxyConnectionProofs` | the framing of the two directions, the order of frames, calls and replies on one connection |
| `ZappingFifoProofs` | the fifos: where buffers are, pointers, counters, the refinement of `FrameStream`, the end of the stream |
| `DvbDemuxProofs` | the place of the demultiplexer in the stream, and the order of lines in a frame |
| `VbiCacheProofs` | the page cache: lists and pointers, counters, the memory limit, held pages |
| `SequenceLemmas` | what the proofs need of sequences without repetitions: removing and adding an element, the rest from an element on, the successor of an element; and of folds over a list, with the induction on the natural numbers they rest on |

In every module that is model-checked a definition with the comment "Mutant"
stands before the one it changes. It is a plausible bug, and shows that the
property it belongs to would notice.

### ProxyQueue

| Variable | In the code |
|---|---|
| `sliced`, `free`, `tmp`, `capture` | `p_sliced`, `p_free`, `p_tmp_buf`, `p_capture` of `PROXY_DEV`; the order of `p_free` does not matter |
| `ref` | `ref_count` of `PROXY_QUEUE` |
| `clnts` | the linked list `proxy.p_clnts` |
| `forward`, `want`, `active`, `ptr` | `state == REQ_STATE_FORWARD`, any of `services[]`, `all_services`, `p_sliced` of `PROXY_CLNT` |
| `apc`, `walk` | where `forward_data` is; what is left of the loop of `force_free` |
| `mpc`, `cur`, `sent` | where the main thread is, for which client; the buffer `send_sliced` copied |
| `fault` | a null pointer, a buffer that is not allocated, or a failed assertion |

One action is one critical section, or one iteration of a loop inside of one
(then `HeldByAcq` or `HeldByMain` keeps the others out). `UseThread` decides
whether `forward_data` and the handlers exclude each other, as they do when the
main loop calls both. The links `p_next` are the sequence: `NextOf` gives NULL
for the last element and for a buffer that is not appended yet, which is what
the C code reads there. `Release` follows `release_sliced` to the assertion,
and stops in `fault` where the program would crash or abort.

The device is external: a read returns a frame or not, and
`vbi_capture_update_services` accepts the services of any set of clients
(`DeviceGrants`). `StableServices` says that it does not take away from other
clients what it had granted, as a change of the TV norm may make it do.
`MallocMayFail` lets `queue_allocate` obtain fewer buffers than it wants.

### ProxyAcqThread

| Variable | In the code |
|---|---|
| `capture`, `fd_open` | `p_capture`; whether its file handle is open |
| `use_thread`, `wait_for_exit`, `thread_active`, `thread_id` | the same of `PROXY_DEV` |
| `tmp` | the thread that has set `p_tmp_buf` |
| `start_mutex`, `signalled` | the mutex; `start_cond` was signalled to the waiting main thread |
| `mpc`, `purpose`, `tpc`, `cancelled` | where the main thread is and what for; where each thread is; `pthread_cancel` was called |

The thread can be cancelled at `read` and `write`. `Late` and `Stuck` say
whether it may overstay the first wait of 50 ms, per reason of the stop, and
the second one.

### ChannelScheduler and ProxyChannel

The scheduler's functions keep their names. They take the function `s` from
clients to channel states and the list `L` of the connected clients; loops over
the list are folds. Of the time the model keeps what the code compares: whether
a client's reserved time is over (`expired`), and the order of the `last_start`
times (`rank`, with ties because the clock has seconds).

| Variable | In the code |
|---|---|
| `clnts`, `chn`, `ind`, `serv`, `out` | the list; `chn_prio`, `chn_profile.is_valid`, `chn_state`; `chn_status_ind`; `all_services`; the message in `msg_buf` with `writeLen > 0` |
| `at`, `busy`, `rd` | the rest of the pass of `handle_client_sockets`; whether there is one; what `select()` found readable |
| `devPrio`, `alarm`, `aborted` | `chn_prio` of the device; the alarm timer and `chn_sched_alarm`; an assertion failed |
| `request`, `inbox` | the two directions of a socket |
| `cstate`, `cprio`, `has_token`, `ev` | `state`, `chn_prio`, `has_token`, `ev_mask` of `vbi_proxy_client` |
| `app` | what the callback has told the application |

A call of the library is a request and the wait for its reply (`Send`,
`Receive`); messages read in between change `ev` only. `cstate = "wait_ioctl"`
stands for `device_ioctl` inside `proxy_client_rpc`, where the code leaves the
state at CAPTURING. `Callback` is the application's event handler: it returns a
reclaimed token at once, which `proxy-client.h` demands and `proxy-test.c` does.
The `Calls` of a configuration say what else the applications do:

| Call | Meaning |
|---|---|
| `request`, `again` | the first request of the channel on a connection; later ones |
| `unrequest` | a request without a valid profile |
| `flush` | report a channel switch |
| `return` | give the token back after the switch |
| `release` | give up the claim to the channel |
| `service` | change the services |
| `ioctl` | switch the channel through the daemon |
| `close` | end, or time out |

### ProxyConnection

Where `ProxyChannel` has whole messages and many clients, this module has one
client and messages in pieces: a header and a body of one or two parts.
`cbuf`/`cout` and `drd`/`dwr` are what each end has read and has to write
(`readOff`, `readLen`, `writeOff`, `writeLen`), `up` and `down` the socket. A
client reads a message with its header first and then no more than its length;
`select()` of the daemon looks in one direction at a time (`dsel`), one
`read()` or `write()` follows, and then the next message is prepared. Both
directions of the socket are bounded (`UpCap`, `DownCap`). Either end writes as
much of a message as there is room for and then waits for more, reading nothing
meanwhile, so that the two may come to wait for each other. All time-outs are
there: of a read, of a write (`WriteTimeOut`), of a call, of `wait_idle`, of a
connect. `RpcLate` are the calls after whose time-out the reply may still come.

### VbiCache

The cache is one record `ca`. An action is one call of the cache's interface;
everything it calls is an operator from one such record to the next, under the
name of the C function, so that no refresh or deletion can be forgotten.

| Field | In the code |
|---|---|
| `networks`, `priority`, `hash` | the lists of `vbi_cache`; `referenced` is the set of pages with a reference |
| `memory`, `limit`, `cached`, `nlimit`, `npages` | `memory_used`, `memory_limit`, `n_cached_networks`, `n_networks_limit`, `n_cached_pages` |
| `net[n]` | `ref_count`, `n_referenced_pages`, `n_cached_pages`, `zombie` of a network |
| `page[p]` | `network`, contents, `ref_count`, `CACHE_PRI_ZOMBIE`, and the size of the memory block |

A page's contents are a kind: page number, subpage, size and priority. A free
address may be given out again, so a stale pointer would show. `memory_used` is a
number modulo `Word`. `fault` records that `put_page` has put a page into a block
that is too small ("overrun"), with all it then does to the counters, or is about
to delete a page a second time ("deleted twice"), with the deletions before it.
From then on the behaviour of the program is undefined, as it has written behind a
block or is using a freed one, and `Next` has no further step. Both happen in
the configuration, see section 5.

`vbi_cache_set_memory_limit` and `vbi_cache_set_network_limit` are compiled only
if `VBI_VERSION_MINOR` is 3 (`cache.c:1038`, 323). In the build of `version.h`,
where it is 2, the limits keep the values of `vbi_cache_new`, 1 GB and one network
(`cache.c:1893`). The model has both builds: the theorems are for any sets of
limits, those with one element included.

### DvbDemux

A stream is a sequence of cells: one cell is what the code looks at as a whole
(a TS header, a start code with its length, the rest of a PES header, a data
unit, a byte of anything else). A function that runs through the bytes of a
packet becomes a step per cell or per loop iteration; the application cuts the
stream into buffers of any of the sizes `Chunks`. `wrap`, `ts` and `pes` are the
wrap-around buffers, which hold positions of the stream, so that an error in
`skip`, `consume` and `lookahead` shows as a gap or a repetition. `dx` is the
frame that is being collected, `out` what the application got.

### ZappingFifo

| Variable | In the code |
|---|---|
| `full`, `empty`, `producers`, `consumers`, `eof_count` | the same of `zf_fifo` |
| `waiting` | `f->producer->list`, the producers in `wait_empty_buffer` |
| `readers`, `dequeued`, `enqueued`, `eof` | `consumers`, `dequeued`, `enqueued`, `used <= 0` of a buffer |
| `eof_sent`, `next_buffer` | the same of a producer, of a consumer |
| `hand`, `recent`, `pc`, `slot` | of each thread: the buffers it has dequeued, the last of them, where it is, the buffer it carries from one critical section to the next |

One action is one critical section. `mutex_co_lock` is two of them: it may get
both mutexes at once, or give up the first one (`pc = "colock"`).

### FrameStream

`pend[r]` are the frames published for a reader and not yet shown to it,
`hand[r]` those it looks at. A frame is published only into a buffer nobody
needs; a reader takes the oldest one, returns it, or puts it back; the owner
may drop a buffer no reader holds, skip a reader's oldest frame, or flush.
`ProxyQueue` implements it with `pend[c]` the queue from `p_sliced` of the
client on, less the frame that is being sent, which is `hand[c]`; `ZappingFifo`
with the full queue from `next_buffer` on. In both the
mapping is computed from pointers and one shared list; that recycling, forced
release or a flush never repeat, reorder or overwrite a frame is what the
refinement says.

## 3. What is checked

| Run | Properties | Shows |
|---|---|---|
| `queue_select` | `NoFault` `RefCount` `NoDangling` `Partition` `QueueDrains` `ImplementsStream` | in select mode the queue is correct: counts equal the number of clients that have a buffer ahead of them, pointers stay inside, no client can keep a frame in the queue for ever, and each client is shown its frames once and in order |
| `acq_thread` | `NoUseAfterDelete` `OneThread` `ActiveIsAlive` `BufferRecovered` `MainReturns` | the thread is gone before its device is, there is never a second one, its buffer comes back, and the main thread is woken in every case |
| `channel_turns` | `OneOwner` `TokenExclusive` `ControlInTurn` | (request, flush) if applications keep the token until it is reclaimed, at most one has it, in the daemon's books and in the applications' minds; if they report their channel switches, both get the channel again and again |
| `channel_calls` | `OneHolder` `TokenNotLost` | (request, unrequest, return, release, service, ioctl; two priorities) at most one client is about to get the token, has it or has yet to return it, and the daemon never waits for a token that nobody has, even when returns, reclaims and grants cross |
| `channel_close` | `CycleBound` `RpcMatched` | (request, again, service, close; two priorities) every variable keeps its type and the cycle counters stay within 0..2; each call gets its own reply and no other, with clients coming and going, with data services and without |
| `channel_assert` (violation) | `OwnerAsserted` | (request, return; three clients) a token that is returned twice makes a second owner, and the next grant fails the assertion of `get_token_owner` |
| `connection` | `WellFramed` `FramesInOrder` `RepliesMatch` `CallReturns` `CloseIsNoticed` | with messages in pieces in both directions: no end mixes reading with writing, both streams stay framed wherever either end was interrupted, frames keep their order, replies their calls, no call hangs, not even when both ends wait for room, and the end of a client is noticed, also inside its own request |
| `cache_limits` | `CountersExact` `Linked` `MemoryBound` `HeldPagesStay` `CurrentNetworkLast` | all counters equal what they count, but for `memory_used` after a page was put into a block that is too small, which is wrong by what does not fit; lists and pointers agree, the memory limit holds until then, a held page keeps its contents, pages of a network in use are given up last, and only what is held outlives the cache |
| `dvb_demux` | `BuffersFollowStream` `ChunkingInvisible` `FrameWhole` `UndamagedDelivered` `BufferConsumed` | how the stream is cut makes no difference; damage never mixes two frames and costs only the frames it touches; every call returns and gets to the end of its buffer |
| `fifo_members` | `OnePlace` `NextOnFull` `ImplementsStream` `EofNotDropped` | a buffer is in one place, pointers stay on the full queue, recycling never costs the end of a stream, with two consumers that come and go and waits that time out |
| `fifo_stream` | `Counted` `EofIsLast` `FrameServed` | with several producers and consumers that stay: the counters are exact, nothing follows the end of the stream, no consumer sleeps beside a full buffer |
| `fifo_sleep` (violation) | `ProducerServed` | a producer sleeps beside an empty buffer |

`OnePlace`, `CycleBound`, `WellFramed`, `CountersExact` and
`BuffersFollowStream` include the type invariant of their module; those of
`ProxyQueue` and `ProxyAcqThread` have no run and are proved.

The violation runs check what the code says of itself, quoted under `findings`
in `PROJECT.json`. `get_token_owner` asserts that it finds one owner. An
application gives the token back when it has switched the channel, and once more
when it reads the reclaim that was on its way then; `take_message` believes it
both times. With another client granted in between and a third to be granted
next, the assertion ends the daemon. And `wait_empty_buffer` waits "until an empty
buffer becomes available". `mutex_co_lock` gives up the producers' mutex to get
the consumers' one. A consumer that returns its buffer in between broadcasts to
nobody; the producer, with both mutexes, looks only at the full queue, and
sleeps. With one consumer that has nothing more to return that is for ever.

### Bounds, and why they are enough

- **Queue.** Two clients, `opt_buffer_count` 1, and one client that asks for 2
  buffers: the daemon wants 2 to 4 buffers of the 4 there are, grows and shrinks
  the pool, and runs out of free ones. A queue of four frames and two clients
  has every relative position of two pointers, and both orders of the client
  list occur. Failing allocations and thread mode have no run: theorems cover
  the counts without memory, and the partition in thread mode.
- **Channel.** Two clients, a socket of one or two messages (writes block when
  it is full), the same sub-priority and, in `channel_turns`, a reserved time of
  one unit, over which `Expire` may pass at any moment; in `channel_calls` and
  `channel_close` no reserved time, so that a client may be preempted as soon as
  it has the token, and the calls have room to cross. The clients are symmetric where no
  fairness is assumed: the order of the list decides the passes and the
  scheduler's choice, but the list is a variable, and nothing else tells two
  clients apart. The run with liveness does without symmetry.
- **Thread.** Two threads, which are reused: a second one can be created while
  the first still runs, which is what could go wrong. `Late = {"close"}`.
- **Connection.** All four kinds of calls, two in a row (a late reply needs a
  second call), three frames of three parts in a socket of four (`DownCap`), so
  that a frame and an indication never fit together, one channel change. On the
  way to the daemon the socket takes one part (`UpCap = 1`), so that each request
  of two parts is written in two pieces, with a wait for room in between.
- **Cache.** Two networks, three pages, three kinds (a start page of size 2, a
  small page and its subpage), memory limits 2 and 3, network limits 1 and 2,
  two references each; pages and networks are symmetric. Three pages are enough
  for a replaced version, a held one and a candidate of another network, and a
  limit of 2 makes all of them compete, and brings about both faults. The
  smallest limit is not below the largest page, as the code's own minimum of 1 KB
  nearly guarantees. `Word = 16` is far above every limit, as 2^32 is above 1 GB,
  so that a counter which wraps around shows as one that is far too large.
- **Demultiplexer.** A TS packet of 6 cells, 4 lines per frame, a continuity
  counter modulo 4, buffers of 1 and of 11 cells in any mixture (11 ends at every
  place of a packet of 6 cells within 6 packets), one reset. PES: three streams with junk,
  other packets, bad headers, undefined and illegal lines, a frame in two
  packets and a full line buffer, with a callback and without. TS: six kinds of
  faults at each of the packets 2 to 9, two packets lost in a row at 3 to 8, and
  two combinations.
- **Fifos.** `fifo_members`: one producer, two consumers, three buffers;
  the members may leave and join, timed waits, the end of the stream; buffers are
  symmetric. `fifo_stream`: two producers, two consumers, two buffers, no
  leavers. A producer holds one buffer at a time (`MaxHeld`), as all of
  Zapping's do (`zvbi.c:1644`, `capture.c:484`).

### Fairness

`ProxyQueue!FairSpec`: weak fairness of the steps that finish a handler and of
those inside `force_free`, as neither blocks; strong fairness of the first and
the reading step of `forward_data`, which the main loop interrupts with other
handlers but gets to in every pass. That the device goes on delivering frames
is an assumption about the hardware; without new frames the code has no reason
to take anything from a slow client, and does not.

`ProxyChannel!FairSpec`: the daemon goes through its passes (weak fairness of
start, visit and end); a client's socket is read from again and again if it can
be (strong fairness: `select()` prefers writing, and only a client that drains
its data gets read from); time passes (`Expire`, `AlarmFires`); applications
connect, make their first request, read, and report a channel switch.
Nothing is assumed of the order in which clients act.

`ProxyAcqThread!FairSpec`: the main thread runs on and its waits end, by the
signal or by the timeout; a thread gets on, except that a read need not return
unless the thread is cancelled.

`ProxyConnection!FairSpec`: a client in a call goes on, and the daemon's loop
runs. One time-out is fair: if there is no room for a request, the client's
`select()` returns after 5 seconds (`WriteTimeOut`). A daemon that waits for room
for a frame looks at nothing else, and so does the client, so that without this
time-out `CallReturns` fails. No other time-out is fair, and no client has to make
a call: nothing but this is left to a clock.

`DvbDemux!Spec`: the functions run until they return, and the application calls
again while something is left in its buffer. It need not have more data.

`ZappingFifo!FairSpec`: a critical section that was begun is finished, woken
threads run, consumers take and return buffers, producers send what they have
got. Nothing is assumed of new calls of a producer.

## 4. What is proved

`ProxyQueueProofs`, from `ConstAssumption` alone and so for both modes, with
and without memory:

- `TypeCorrect`: `Spec => []TypeOK`. `TypeOK` says too that the client list has
  no duplicates. It needs `ControlOK`, which ties the program counters to the
  variables they imply (a client while a handler runs, a buffer while a frame
  is being read).
- `BuffersPartitioned`: `Spec => []Partition`. `PartInv`, the conjunction with
  the types, is inductive. A release takes a buffer out only at the head, and
  its check that the buffer is the head is needed for it.

In the same module, assuming select mode (`~UseThread`) and a driver that does
not revoke services (`StableServices`), with or without memory:

- `RefCountCorrect`: `[]RefCount`; `PointersQueued`: `[]NoDangling`;
  `ReleasesAreSound`: `[]NoBadRelease`.

The inductive invariant `RefInv` adds to these what makes them inductive:
only active clients have pending data (`PendingActive`), activity implies an
open device and a live connection (`ActiveOK`), a client's queue is empty while
its services change (`FlushedOK`), handlers do not run inside `forward_data`
(`ExclusiveOK`), a buffer being filled is not referenced (`FreshOK`). The heart
is the lemma `ReleaseRef`: if the last holder releases a buffer, that buffer is
the head, since the head has a holder too, and whoever holds the head holds all
later buffers, the released one included; so its holder is the releasing client
itself, whose first buffer is the head. `FlushedOK` is the reason why a service
request must flush before it changes anything. Neither assumption can be
dropped, see below.

- `DeviceClosesWithLastClient`: `[]LastClientStops`. Its invariant,
  `DeviceUsed`, is that an open device has an active client except between
  `Unlink` and the `update_services` that follows it.

And of the abstract `FrameStream`, under the same assumptions:

- `QueueImplementsStream`: `Spec => ImplementsStream`. Every action is shown to
  be a step of `FrameStream` or to leave `pend` and `hand` alone: `SendSliced`
  takes a frame, `SendDone` returns it, the other releases skip one, a channel
  flush flushes all readers. `RefInv` gives that the buffer of a new frame is
  idle, and that a pointer to the head means the whole queue; `SentOK`, that no
  step moves the pointer of a client which a frame is being sent to.
- `DaemonDoesNotCrash`: `[]NoFault`, assuming also that memory lasts
  (`~MallocMayFail`). What the reference counts leave open is a release for a
  client without data, which only the loop of `force_free` could do, when it
  has emptied the queue: the null pointer of such a client then equals that of
  the queue. `TwoBuffers` says that an open device has at least two buffers, as
  `queue_allocate` wants one per connection and one more; when the loop is
  begun, all of them are queued. `WalkOK` says that from then on the queue has
  two buffers, or one which a client that was already visited has ahead of it.

`ProxyAcqThreadProofs`:

- `ThreadTypeCorrect`: `[]TypeOK`, whatever threads do.
- `NoThreadUsesDeletedDevice`, `AtMostOneThread`, `ActiveIsTrue`,
  `TakenBufferReturned`: the other four invariants, under `InTime`, that is
  `~Stuck` and `"update" \notin Late`. The inductive invariant says for each
  state of the main thread which states the one thread can be in, who holds
  `start_mutex`, and what the flags are then.

`ZappingFifoProofs`, assuming that no consumer leaves
(`Leavers \cap Consumer = {}`), for any number of producers, which may come and
go, consumers and buffers:

- `BufferInOnePlace`: `[]OnePlace`; `PointersOnFull`: `[]NextOnFull`;
  `CountersExact`: `[]Counted`.
- `FifoImplementsStream`: `Spec => ImplementsStream`.
- `EofReachesConsumers`: `Spec => EofNotDropped`.

The inductive invariant `FifoInv` adds to the first three that a slot is filled
exactly while a thread carries a buffer, whose counters were reset (`SlotOK`),
that what a consumer dequeued last it still has (`RecentHeld`), and that what it
has in hand it has read (`HandBehind`). All of it rests on the exact counters:
`readers - dequeued` consumers have a buffer ahead of them, `dequeued -
enqueued` have it in hand. So when `send_empty_buffer` finds `enqueued >=
readers`, nobody has the buffer ahead and it may leave the full queue, and when
`unlink_full_buffer` finds `enqueued >= dequeued`, nobody looks at it. Each
lemma for an action shows `GoodStep`: the invariant, a step of `FrameStream` or
a stutter, and that no end of stream is lost. The assumption cannot be dropped:
`rem_consumer` makes the counters wrong, see below.

- `EofComesLast`: `Spec => EofIsLast`, if producers stay as well (`Leavers =
  {}`). Its invariant, `EndInv`, says that `eof_count` is the number of producers
  that have sent an end of stream, that a buffer which reports it is passed on
  or queued only when all have, and that a producer which carries a frame has
  not. What is appended to what a consumer has ahead of it was not on the full
  queue, by the counters, so it comes from the slot of such a producer. A
  producer that leaves takes its end of stream from the count only while that
  is above one, so the count may then be too high (`rem_producer`).

`ProxyConnectionProofs`, for any set of calls, frames and socket size:

- `StreamFramed`: `[]WellFramed`, and `FramesStayInOrder`: `[]FramesInOrder`.
- `RepliesBelong`: `[]RepliesMatch`, if no reply may come after the time-out of
  its call (`"ioctl" \notin RpcLate`; the others close the connection).

What is under way in one direction is one string of parts: those the reader has
read of a message, those in the socket, those the writer has still to write.
`StreamOK` says of the way to the client, and `UpOK` of the way to the daemon,
that it consists of whole messages. A read or a write only moves a border in that
string; the daemon appends a message when it has written all of the last one, the
client one when it begins a call, for which it must have nothing left to write,
and either turns from one message to the next only between two of them. `Types`
and `Ends` relate the states of the two ends to what they have read and have to
write. `CallInv` adds, for the calls, that there is one reply on the way, or a
request, whole or in pieces, that will be answered by one, and that it is the
reply to the call the client waits for; the assumption is needed
because `device_ioctl` keeps the connection after a time-out, so that its reply
is met by the next call.

`ProxyChannelProofs`, for any clients, calls, priorities and socket size:

- `CyclesBounded`: `Spec => []CycleBound`. The types, the list of clients
  without repetitions, and the cycle counters between 0 and 2, which the
  scheduler changes in folds over that list.
- `EachCallOneReply`: `Spec => []RpcMatched`.
- `OneClientHolds`: `Spec => []OneHolder`. At most one client is down as getting
  the token, having it or having yet to return it, whatever applications call.
- `TokenComesBack`: `Spec => []TokenNotLost`. While the token is out, the
  application has it, or a message or an event is on its way that makes it hold
  or return it.

The inductive invariant `ChannelInv` says besides the types that `at` visits each
client once, and that the daemon has nothing to write to a client it reads from
(`Lists`), and what stage the conversation with each client is at (`Talks`): a
library that waits has one request in the socket or one reply in the daemon's
buffer or its inbox, one that does not has neither, and all other messages are
indications. That `channel_update`, which may write to any client, only writes
to those it has nothing else to say to is the main step. The scheduler's folds
are handled with `FoldTyped`: what one iteration preserves, the fold preserves.
The library's induction theorems have an operator as a parameter, which the
provers cannot use; `SequenceLemmas` has induction as a fact about sets of
natural numbers instead, which is enough for what a fold keeps, though not for
what it computes.

The last two theorems use `TokenInv` besides. What the scheduler chooses does not
matter for them, only in which direction it moves the token. `Moved(s, t, L)`
says that from the channel states `s` to `t` nobody becomes a holder, or one who
was asked to return the token, and that a client is put down for it only when no
other client of the list is. One iteration of each loop moves the token so, and
such moves compose (`MovedTwice`); therefore the states that can be reached by
them from `s` are closed under the loops (`FromClosed`), and the folds stay among
them. In `token_grant` the assertion of `get_token_owner` is needed: the token is
taken from the last owner found, and that is the only one (`OneOwnerFound`,
`GrantMoves`). `Word` says what is known about one client: if its state is RELEASE,
the reclaim, the event or the return is under way; if it is GRANTED or RECLAIM,
one of these, the grant, or the application's belief. Each step hands that on:
from the daemon's state to the message being written, to the socket
(`WriteKeepsToken`), to the events (`WordRead`), to the application
(`CallbackKeepsToken`), to the request that returns the token and back to the
daemon (`TakenNotifyReq`). `TokenInv` holds while no assertion has failed; when
one has, the daemon has ended. That this does happen is what the run
`channel_assert` shows; it is why the theorem is about `OneHolder` and not about
`OneOwner`, which counts clients that have returned the token, too.

`DvbDemuxProofs`, for any streams, sizes of the caller's buffers and numbers of
resets:

- `BuffersFollow`: `Spec => []BuffersFollowStream`, the types included.
- `FramesAscend`: the lines of every frame the application gets ascend, the part
  of `FrameWhole` that does not depend on what the sender sends.

`InputsAssumption` says no more than that a stream is a sequence of cells and
that the numbers in them are numbers: anything may follow anything. The inductive
invariant `PlaceInv` has the read position inside the caller's buffer (`CallerOK`)
and for each layer what it has kept (`WrapOK`, `TsOK`, `PesOK`). All of it is said
of positions: a buffer is `Positions(i, j)`, the numbers from `i` to `j`, and the
lemmas `PositionsJoin` and `PositionsPart` are what copying and cutting do to it.
`ViewFollows` goes through the cases of `wrap_around`, with `WrapFollows` for the
skipping before it. What is left over may lie in the caller's buffer or before it,
so that the pointer it returns must not be in front of `first`: that follows from
`avail <= size`. In the TS layer three facts carry the proof. Outside of the
examination of a header, what the TS buffer has and what it asks for is as much as
the header or the search takes (`HeaderSize`), so `look` is never negative; it
skips, or copies to the PES buffer, only when the TS buffer is empty; and it has
found a header only with at least one cell behind it (`HeaderFound`), since the
search leaves as much. An unfinished PES packet begins with a start code of
sufficient length, so that a complete one has a header to look at (`CompleteIs`).
The layer that is not used stays as it was (`Layers`). `FrameInv` says that the
lines stored ascend and that none is behind `line`, the last address, which
`line_address` compares with; a line that is taken back leaves `line` too high,
which costs lines but not their order (`UnitKeeps`).

`VbiCacheProofs`, for any networks, pages, contents and limits:

- `CountsAreExact`: `Spec => []CountersExact`, and `CacheTypes`: `Spec =>
  []TypeOK`. No counter but `memory_used` is ever wrong, and that one only by an
  overrun, and then by exactly what was written behind the block, modulo `Word`.
- `WellLinked`: `Spec => []Linked`.
- `LimitHolds`: `Spec => []MemoryBound`, until there is an overrun.
- `HeldStay`: `Spec => HeldPagesStay`, the action property.
- `OneSizeIsSafe`: if all contents have the same size there is neither an overrun
  nor a second deletion, so that `memory_used` is always exact and within the
  limit.

Every call is an operator from a cache to a cache, so the lemmas are about two
caches, before and after. The inductive invariant `CacheInv` is `Sound`, and of
a deleted cache `Closed`. `Sound` consists of `Lists` (who is on which list, and
that an address that is on none is blank), `Counts` (each counter is the
cardinality of a set; `memory` of a set of single bytes, pairs of a page and a
number, so that the sum over a list needs no recursion), the memory limit,
`Settled` (a zombie network on the list is referenced; `recycle_network` relies
on it, for it does not ask whether the network it absorbs still counts) and the
bound on references. The loops over a list that is changed meanwhile are folds;
each is proved with the facts one iteration keeps (`Trimmed`: only pages nobody
holds have gone; `Pruned`: and networks nobody refers to) and the fact it
establishes for the elements already visited, of which `FoldReach` and
`FoldKeeps` of `SequenceLemmas` make the fact about the whole list. In
`_vbi_cache_put_page` the step that matters is what becomes of the block that is
used again (`PutIntoSound`). If it is large enough it is exactly as large as the
new page, and the cache is sound again. If it is not, the cache is related by
`Overrun` to a sound one, in which the block would have been large enough: the two
differ in the size of this one block and, by what that lacks, in `memory`.
`CacheInv` therefore says `Sane`: the cache is sound, or an overrun has happened
and it is such a relative of a sound one. A row is deleted up to the page that
comes twice, which is like deleting a shorter one. With contents of one size a
single page always makes enough room, and its block fits (`OneSizeIsSafe`).

Only model-checked: of the channel that there is one owner and one application
that believes to have the token (`OneOwner`, `TokenExclusive`), which depends on
what applications call, see below, and the liveness of the scheduler; the order
in which the cache gives up pages (`CurrentNetworkLast`); of the demultiplexer what relates the
frames to those that were sent (`ChunkingInvisible`, `UndamagedDelivered`, the rest
of `FrameWhole`), which is a statement about whole streams; of the fifos the members that leave; and all liveness, which is outside what the
prover does. `TypeOK`, `NoBadRelease` and `LastClientStops` of the queue, and
`TypeOK` of the thread, are proved and have no run.

## 5. Divergences

The models contain these behaviours, or were read off the same lines. Only
`channel_assert` and `fifo_sleep` are runs about one of them.

### Proxy daemon: the queue

- The loop of `force_free` re-reads `p_sliced` in every iteration: when the
  last client of the first buffer has released it, a client visited later whose
  first buffer is the second one loses that too (`proxyd.c:582`), although
  "client(s) will lose this frame's data" is all the comment at 564 says.
- `update_services` clears `all_services` of clients whose services the driver
  no longer supports, and may free the queue, but leaves their pointers
  (`proxyd.c:1091`). `NoFault` fails with `StableServices = FALSE`.
- In thread mode `forward_data` sets the clients' pointers in one critical
  section and appends the buffer in the next; released in between, it is not
  the head, against the assertion at 420 (`proxyd.c:646`). `NoFault` fails with
  `UseThread = TRUE`.
- In thread mode the frame released need not be the one sent:
  `send_sliced` copies the first buffer without `queue_mutex`, and
  `force_free` may advance the client before `release_sliced` gets the lock
  (`proxyd.c:2480`). In select mode nothing can run between the two.
- `update_services` ignores a failed `queue_allocate`. With fewer buffers than
  clients `force_free` can empty the queue and go on to release the null
  pointer of the next client (`proxyd.c:582`). `NoFault` fails with
  `MallocMayFail = TRUE`; `NoBadRelease`, its other half, is proved.
- `vbi_proxyd_destroy` stops the acquisition, which frees the queue, before it
  closes the clients that point into it (`proxyd.c:2623`; not in the models).

### Proxy daemon: the thread

- If `pthread_create` fails, `start_mutex` stays locked (`proxyd.c:910`), and
  `stop_acquisition`, called to clean up, waits for it for ever: the state
  `SelfLocked`, which `MainReturns` excepts.
- A thread that overstays both waits (`Stuck`) goes on with a deleted capture
  context, and clears flags and gives back a buffer when the next one is
  already at work. One that overstays the first wait while services are
  changed (`"update" \in Late`) has the handle closed that the next thread then
  reads from (`proxyd.c:845`).
- `ret == 0` of the condition wait is taken for the end of the thread: a
  spurious wakeup would do, and so would a start signal that was late.
- A write error on the pipe ends the thread, unnoticed (`proxyd.c:807`).
- `calc_timeout_ms` does not carry when `tv_usec` is exactly 1000000
  (`proxyd.c:731`).

### Proxy daemon: the channel

- The run `channel_assert`: an application that returns the token after its
  switch just when it is reclaimed returns it twice; the second return makes it
  an owner beside the client that was granted the token in between
  (`proxyd.c:2237`, against "only one may have non-"NONE" state" at 1254), and
  when a third one is to have it, the assertion at 1238 fails. For two clients
  `OneOwner` holds without the call `return`. With three, a return that answers a
  reclaim can also come too late: if the daemon has withdrawn the reclaim and
  granted the token again in between, after a repeated request, and then granted
  it to the third. Simulation finds this with `{request, again, unrequest,
  flush}`, and nothing with `{request, flush}`, the calls of `channel_turns`.
- A repeated request clears the daemon's record of a token the application
  still holds, and the token is granted to another one (`proxyd.c:2181`, against
  `proxy-client.c:1590`: "only the one client which holds the token is allowed
  to switch channels"). `TokenExclusive` holds without the call `again`.
- The alarm is not armed for a client that is just being granted the token
  (`proxyd.c:1387`): without a later message the others wait for ever.
  `ControlInTurn` holds if channel switches are reported.
- A channel switch reported while the device is closed aborts the daemon in
  `vbi_capture_flush` (`proxyd.c:1586`; `channel_flush` at 1608 has the check).
- `take_ioctl_req` lets a background client without the token switch the
  channel if the device is at background priority (`proxyd.c:1704`).
- `has_token` of the library stays set when the token is reclaimed, so that
  `has_channel_control` goes on to return true (`proxy-client.c:384`).
- A `TOKEN_IND` that arrives while a service request is pending counts as a
  protocol error and costs the connection (`proxy-client.c:365`).

### Connection

- `proxy_client_rpc` says that after a timeout "the connection is dropped"
  (`proxy-client.c:523`). `vbi_proxy_client_device_ioctl` does not drop it: a
  late reply is met by the next call. `RepliesMatch` is checked with `RpcLate`
  without `ioctl`. If the request itself was only written in part when the time
  was over, the rest of it stays in the library's buffer, and the next call or
  read finds `assert (vpc->io.writeLen == 0)` false (`proxy-client.c:652`, 601):
  all the application can still do is to close the connection. Until it does,
  the daemon reads from this client only, waiting for the other half
  (`SRV_IO_TIMEOUT` is for the connect request, `proxyd.c:2499`). In the model a
  call and a read require that nothing is left to be written.
- `WriteTimeOut` is all that ends the wait of two ends that both write. With
  `VBI_PROXY_CLIENT_NO_TIMEOUTS`, or a daemon with debug output, which sets
  `VBI_PROXY_DAEMON_NO_TIMEOUTS` (`proxyd.c:2062`), `select()` has no time-out
  (`proxy-client.c:483`), and they wait for ever.
- The assertions at `proxy-msg.c:388`, 400 and 407 admit no partial read, and
  that at `proxy-client.c:602` has its comparison the wrong way round. With
  assertions compiled in, a request that arrives in two pieces aborts the
  daemon (`vbi_proxy_msg_is_idle` runs in each pass); the model is the program
  without them, except for `writeLen == 0` as said above.
- The loops of the client take a header that arrived in part for a complete
  message, because `readLen` is still zero; the model delivers headers whole.
- `CONNECT_REJ` is never sent: the state WAIT_CLOSE, set with the message, is
  acted upon in the same pass (`proxyd.c:2440`, against 2091: "drop the
  connection after sending the reject message").
- A failed `wait_idle` leaves the client in its state with the rest of a
  message unread. The connect timeout is only looked at when something else
  wakes `select()`. A notification clears indications that other clients'
  changes have set for this client.

### Cache

- `put_page` reuses the block of a single replaced page if the memory that would
  then be available equals what is needed (`cache.c:1593`), "a single page of same
  size" says the comment, but does not compare the sizes. With some memory
  free the block may be smaller ("overrun"): the new page is then written behind
  its end, and `memory_used -= memory_needed` takes away more than the block had.
  With limit 2, a network in use, and one page of size 1 which nobody holds, put a
  page of size 2: the memory available is 1, 2 with the old page, as needed; its
  block of 1 is used again, and `memory_used` is 1 - 2, which wraps around.
  `CountersExact` says what is wrong then, and `MemoryBound` stops to hold.
- The last two passes do not skip pages the first two have chosen (1574; "deleted
  twice"). With limit 2, an idle network and one in use, and a page of size 1
  of each which nobody holds, put a page of size 2: the first passes take the page
  of the idle network, which is not enough, and if that page comes first in the
  list, the last ones take it again, which seems to be enough; the second
  deletion is of freed memory.
- Both need a page larger than what is left of the limit. With the default of 1 GB,
  which is all there is in the build of `version.h`, that takes a cache filled to
  the limit; with a limit of some kilobytes it takes a few pages.
- A page that is received without subpages, with one, and without again is
  cached in two versions (against 1484: "We store only one version").
- Networks above the limit whose last page is given back are deleted only when
  they are zombies (`cache.c:310` runs with the last reference to a network and
  with a change of the limit). `vbi_cache_delete` frees the cache under held pages (it
  warns). The result of `put_page` in `packet.c:2275` is not given back.

### DVB demultiplexer

- In PES mode the error of a full line buffer is positive, and `err < 0`
  (`dvb_demux.c:1640`), "just discard the data collected so far", is not
  reached; the buffer stays full until a reset. In TS mode it is discarded.
- A packet that begins with stuffing and then has a teletext unit with an
  undefined line of the other field makes `vbi_dvb_demux_cor` return the same
  frame for ever. The standard does not allow such a packet, and the streams
  of the configuration have none.
- After a synchronization search a PES packet that fits into one TS packet is
  lost. Losing as many packets as the counter's range, or one fewer (taken for a
  repetition), goes unnoticed. A frame with undefined lines followed by one
  with numbered lines is mixed with it. A callback that returns FALSE in
  `vbi_dvb_demux_feed` costs the rest of the buffer. `reset` clears the log.

### Fifos

- `rem_consumer` lowers the number of readers of all queued buffers and returns
  none (`fifo.c:1137`): a buffer the others have already returned stays on the
  full queue, and producers starve (against 1074: "producers will not starve").
  With three consumers the recount also takes a buffer away from one that has
  yet to read it. The first reads a buffer, returns it (`enqueued` 1 of 3) and
  leaves: the buffer now has 2 readers. The second returns it, `enqueued` is 2,
  and the buffer goes to the empty queue with the third one's `next_buffer`
  still on it (against `fifo.h:41`: "consumer->next points to the next buffer in
  fifo->full to be dequeued", and 46: "consumers is their number at send_full
  time"). `NextOnFull` fails with three consumers of which one may leave and two
  buffers.
- A producer whose wait timed out removes the first waiting producer, not
  itself (`fifo.c:516`).
- `add_producer` compares the ends of stream with the number of consumers
  (`fifo.c:1101`). `unget_empty_buffer` wakes nobody.

## 6. Not modelled, and why

- Several devices of the proxy: they share only the alarm and the client list.
- The contents of frames, line counts, raw data; the strictness levels, which
  only select among services; `update_scanning`, which sets a status indication.
- Time itself: timeouts may happen whenever the code waits.
- Messages of a wrong type, size or byte order, which end the connection;
  `DAEMON_PID`; the shutdown; sockets' setup, file permissions, logging, options.
- `CHN_SUSPEND`, which both sides leave to be done.
- The cache's network identification, `foreach_page`, page statistics, dumps;
  the raw samples, logging and payload decoding of the demultiplexer; callback
  fifos, `rem_buffer` and the destruction of a fifo.
- The decoders (teletext, caption, XDS, VPS), the bit slicer and the export
  modules are sequential functions of their input with one caller: they have no
  interleavings, and what can go wrong in them is the arithmetic of each byte,
  which a test reaches better than a model checker.
- Zapping's GUI, plugins and tuner engines, rte's contexts, codecs and backends
  and the MPEG encoder: toolkit callbacks, drivers, third-party encoders, SIMD
  and signal arithmetic. Their synchronisation goes over the fifos.

Worth doing next: the proxy's `ProxyConnection` as an implementation of the
channels `ProxyChannel` assumes; callback fifos; `rte/src/context.c` with the
threads of mp1e.
