# shoes: TLA+ models of the V2Board node backend and its data plane

shoes is a multi-protocol proxy server. In this repository it is the backend of
nodes administered by a V2Board panel: a process runs one controller per node,
pulls configuration and user lists from the panel, runs the listeners, enforces
device limits, bills traffic and survives restarts with a last-known-good
snapshot. This directory holds TLA+ models of that control plane and of the parts
of the data plane that share state or have a protocol of their own (relays,
multiplexed sessions, UDP sessions, uploads, routing, speed limits, Vision), TLC
configurations that check them, and TLAPS proofs of their main invariants.

Paths below are relative to the repository root (`src/app.rs` is the crate's file).

Contents: [inventory](#1-inventory), [how the parts interact](#2-how-the-parts-interact),
[modules](#3-modules-and-their-correspondence-to-the-code), [runs](#4-runs-bounds-and-what-they-show),
[fairness](#5-fairness), [proofs](#6-proofs), [findings](#7-findings),
[limits](#8-what-is-not-modelled), [plan](#9-plan).

## 1. Inventory

| Component | State | Operations | Hard behaviour | What makes it correct |
|---|---|---|---|---|
| Traffic accounting and billing (`v2board/tracker.rs`, `tcp/tcp_server.rs`, `app.rs::push`) | two atomic counters per connection, `ACTIVE_TRAFFIC`, 32 tracker shards, the payload of a push, `traffic-pending.json` | count, sweep, drop, `snapshot_traffic`, `restore_traffic`, persist, close flush, load | sweeper against drop; a failed push restored under traffic; two snapshot writers; crash between the panel's answer and the rename; shutdown with open connections | a byte is counted in one place, never vanishes, is billed once per life of the process, and eventually |
| Device limit and online reports (`v2board/tracker.rs`, `check_device_limit`) | alive map with guard counts, alive traffic, the panel's counts, an outstanding report | admit, release a guard, report, commit, replace the panel's counts, forget a user | admission long after authentication; a guard dropped after its user was deleted and re-created; a commit that meets fresh counters | counts equal open connections; no new address past the limit; no leaked slot |
| Last-known-good store (`v2board/lkg.rs`) | base `.mpk`, `.journal`, legacy `.json`, the controller's pending bit | save (write, rename, unlink journal, sync), append, compact, load, migrate | a crash between any two file operations; torn records; failed saves; migration | a restart serves exactly one revision, never a mixture; an acknowledged save is recovered |
| Runtime graph and user tables (`v2board/runtime_graph.rs`, `v2board/user_tables.rs`, `RuntimeNode::start`) | the active generation, listener tasks and sockets, one shared table per protocol | replace, start, readiness gate, rollback, stop, table transaction | bind failure half way; failed rollback; aborted tasks that still hold their socket; table published too early | the slot owns its listeners; a disjoint replacement costs no downtime; listeners read the applied users |
| Node controller (`app.rs`) | cached configuration, users, validators, plugin candidate and applied revision, `lkg_persist_pending` | `sync`, `apply_runtime`, `refresh_users_delta`, `persist_lkg`, `restore_lkg`, `push_plugin_status` | the panel changes between requests of one pull; every await can fail; failures must not advance validators | validators describe what is held; listeners serve the cache; the snapshot is current or owed; convergence |
| User delta algorithms (`app.rs::merge_user_delta`, `lkg.rs::apply_user_delta`, `mapper.rs`, `shadowsocks_tcp_handler.rs`) | sorted vector, journal replay, limited-user counter, AEAD2022 table with two indexes | in-place merge, batch merge, replay, counter update, validate and apply to the live table | two algorithms either side of a threshold; repeated ids; key swaps; `swap_remove` | all representations agree with one reference |
| Served streams (`tcp/tcp_server.rs`) | the count of live streams, per stream what was read, counted and sent; the user's token bucket | accept, handshake, admit, sniff, dial, answer, relay, shut down, drop; ask, move, take tokens, refill, change the limit | peers that stop at any await; initial data counted before it is sent; a limit changed while connections wait | bytes in order and billed once; nothing only a timer can end stays; the limit holds and starves nobody's bucket |
| Relay (`copy_bidirectional.rs`) | a circular buffer, flags and a timer per direction | read, write, grow, shrink, flush, ping, shut down, half-close grace | partial writes at the wrap; parked with unflushed bytes; half closes that never end | bytes in order; idle means flushed; every half-closed pair is reclaimed |
| smux (`ss_plugins/transport/smux.rs`, `virtual_stream.rs`) | budgets of stream, session and listener; stream map, queues, barriers | charge, refund, evict, park; open, data, FIN, flush, teardown | three counters not changed together; a reader that waits for what only others free; drop with a full queue | no payload lost, no reader waits for ever; a FIN is last and not lost; teardown ends |
| AnyTLS server session (`anytls/anytls_server_session.rs`) | senders and handles by stream id | open, data, FIN, cleanup, outgoing, close | ids reused while the old stream is cleaned up; a full channel of a finished stream | the new stream keeps its entry; the receive loop goes on; close aborts all |
| UDP of TUIC and Hysteria2 (`tuic_server.rs`, `hysteria2_server.rs`) | session map, permits, channels; fragment caches | find or dial, send, take, cancel, clean up, dissociate; insert, evict, complete, purge | two dials for one id; a stalled upstream; ids used again; duplicate, lost and reordered fragments | slots are accounted; forwarding goes on; no packet is mixed from two |
| UDP router (`routing/udp_router.rs`) | queues, two buffer pools, counters, lookup table, timers | a poll in phases; create, evict, expire, drop | the write side ends in the middle of a round; stale lookup entries | buffers and counters are accounted; a silent router ends |
| XHTTP uploads (`v2board/xhttp.rs`) | sessions by id, channel, reorder buffer, reaper | POST, GET, push, read, reap | packets on several requests out of order; a reaper or reader of an old session | in order and once; the map is honest; nobody waits for ever |
| kcptun sessions (`ss_plugins/kcptun/server.rs`) | table, index by peer, census by address, tasks | receive, replace, route, close, shut down | end of a session reported after its key was taken again | table, index and census agree with the tasks; silence empties them |
| Routing rules (`client_proxy_selector.rs`) | rules, LRU cache of decisions | judge, match, resolve, cache | decisions cached under a key that lacks what they depend on | a decision is that of the first matching rule |
| Refreshing resolver (`resolver.rs`) | inner resolver, generation, refresh lock | look up, refresh when idle, refresh after an error, retry | lookups that fail together; three locks and awaits between them | only the resolver that failed is replaced; a retry is on a newer one |
| Vision (`vless/vision_stream.rs` and its filter, padder, unpadder, deframers) | modes of both directions, filter, TLS session, deframers, pending writes | write, drain, flush, switch; read, unpad, switch | the switch out of TLS with bytes still in the session, cut by TCP anywhere | inner bytes once and in order; both ends switch at the same byte |
| Panel client, wire types, manifest decoding (`v2board/client.rs`, `types.rs`, `plugin_api.rs`) | none beyond a request | HTTP requests and decoding | strict decoding | an invalid manifest is refused as a whole |
| Mapper and runtime model (`v2board/mapper.rs`, `runtime_model.rs`) | none | map panel records to listeners | expiry compared with the clock only when a row is mapped | - |
| H2Mux, mux.cool, XUDP, UoT, client chains, WebSocket, salt filter | sessions, round-robin positions, a replay window | open, data, close | session reuse | planned (section 9) |
| Ciphers and disguises (Shadowsocks, VMess, Trojan, Snell, REALITY, ShadowTLS, NaiveProxy, obfs) | one connection's framing | handshake, read, write | partial reads | mostly pure transformations |
| Static configuration, TUN, mobile bindings, helpers, test programs | - | - | - | - |

`PROJECT.json` lists every one of them with its status, and the hazards with the
line at which each one bites and the properties that would catch it.

## 2. How the parts interact

`V2BoardApp::run` starts one `NodeController` task per node. All controllers
share one `TrafficTracker`. A controller's loop is one `select!` over a pull
timer, a push timer and the shutdown signal, so the pull and the push of a node
never overlap, while two nodes, the sweeper, all connections and the blocking
pool do.

- A *pull* (`sync`) asks the panel for configuration, plugin manifest, users and
  alive list, builds a candidate, applies it to the runtime, and only then
  commits the cached values and saves the snapshot. A change of users alone is
  put into the shared table that the running listeners read.
- A *push* moves counters out of the tracker, posts them, puts them back on an
  error, and persists what is pending.
- A *connection* authenticates against the shared table, takes a guard in the
  alive map and counts its traffic in two atomics; a sweeper moves these into
  the tracker every ten seconds, the drop of the connection does so at the end.
- At *shutdown* the controllers make a last push and stop their listeners, the
  application persists once more, and the process exits; established
  connections run until the runtime is dropped.

The models are cut along these lines: `NodeController` abstracts the replacement
of listeners to its three outcomes (committed; failed and rolled back; failed and
lost), which `RuntimeGraph` derives from single binds; it abstracts the disk to
one record, which `LkgStore` derives from single file operations (it is checked and
proved that they refine the crash-proof cell `DurableCell`); and it abstracts a delta to `Patched`,
which `UserDelta` compares with the algorithms of the code. The push is in
`TrafficTracker`, its online report in `DeviceLimit`.

On the data plane a connection is a `StreamService` stream: it is admitted by the
process and, once it has authenticated, by `DeviceLimit`, its bytes are counted
for `TrafficTracker` and throttled by the bucket of `RateLimit`, `Selector` (with
`Resolver` beneath it) chooses its way, and `Relay` or `UdpRouter` carries its
bytes. Multiplexed sessions (`SmuxSession` with `SmuxBudget`, `AnyTls`), QUIC
connections (`QuicUdp`, `Reassembly`), `Xhttp`, `Kcptun` and `Vision` are the
transports such streams come from. Each module abstracts its neighbours to what
it can observe of them: a relay sees a stream that answers bytes, end, pending or
error as it likes, a session sees handlers that read, write and end when they like.

## 3. Modules and their correspondence to the code

**TrafficTracker** - A counter is the *set of traffic units* it stands for, so
`swap(0)` takes the set and an addition is a union; that the sets united are
disjoint is itself the invariant `CountedOnce`. `meter`, `hand` and `sweepHand`
are the counters of a connection and what its drop and the sweeper hold between
`swap` and `add_traffic`; `pending` is the tracker; `push`, `todo`, `payload` are
the program counter, the shards left and the payload of a push; `job`, `image`
are the snapshot writers (one per controller, the unawaited close flushes, the
last one of `run`); `disk` is `traffic-pending.json`; `billed` is the panel.
Shard locks give the granularity: `snapshot_traffic` and `restore_traffic` take
one step per user (users that share one of the 32 shards are handled together in
the code; taking them apart only adds interleavings), `capture_traffic_snapshot` holds all shards and is one step,
encoding and rename are another. `carried`, `removed`, `lost`, `acked`,
`settled`, `stops` are history variables. Operators introduced by "A bug:" are
the mutated forms used to test the properties; the specification never uses them.

**DeviceLimit** - `alive`, `aliveTraffic`, `panelAlive` are the tracker's maps,
`conn` a connection with the user and limit it *authenticated* with, `report` an
outstanding `AliveSnapshot`. Each operation on a user is one step (it runs under
the lock of the user's shard).

**LkgStore** and **DurableCell** - Every file operation of `save`, `append`,
`load` and the migration is a step, the process can die between any two, and
each step can fail. `Recovered` is what `load` would return. `DurableCell` is the
abstract promise: a cell that survives a crash, with a flag for an owed save.
`Replay` is the loop of `replay_user_delta_journal_blocking` as a recursive function over the
readable records, `Applied` one turn of it. `Implements` is the refinement.

**RuntimeGraph** - `open` is the set of listening sockets with the holder of the
task: the active generation, the one being started, a task being dropped after
an abort, or nobody (`leaked`: a `JoinHandle` that was dropped and not aborted).
`Replace` chooses the order (start first without bind overlap, stop first with
it), `Bind`/`BindError` walk the addresses, `GateFails` is the readiness gate,
`Commit` publishes the table.

**NodeController** - One step per request to the panel, so that the panel may
change in between; `mem` the cached values and validators, `next` the `next_*`
locals of `sync`, `runtime` and `table` what the listeners run and read, `disk`
the snapshot. The style of the panel (sends ETags or not, deltas or not) is
chosen in `Init`.

**UserDelta** - The four implementations of one delta side by side with the
reference function `want`; `FullAnswer` and `DeltaAnswer` are the two kinds of
answer of the panel. A delta the live table refuses changes nothing, as in
`refresh_users_delta`. A loop over a vector is a function from the number of its
turns to what they leave (`KeptAt` for a `retain` or filter, `OneByOne` for changes
one after the other, `RemoveUids` and `InsertRows` for the table), so that a proof
can go by induction over the turns.

**StreamService** - `st[s]` is one stream with its program counter (accepting,
handshake, admission, sniffing, dial, the writes before the relay, relay,
shutdown, drop), what it holds (`live`, device slot, meter) and the bytes read,
counted, reported and sent on; bytes are numbered. One action per await of
`process_boxed_stream`, `connect_tcp_forward`, `run_tcp_forward` and the UDP
variants, one per timer.

**RateLimit** - The user's entry of `USER_SPEED_LIMITERS`, the buckets behind it
and the pipes that use them. Asking and taking tokens are separate critical
sections, so they are separate actions; a step of the clock brings one token per
unit of rate. `surge`, `peak` and `lowered` are history variables: what was sent
ahead of the limit, the largest burst there was, and whether the limit fell while a
connection slept off a debt.

**Relay** - Per direction the circular buffer with its indexes, the bulk growth
and the shrinking at a park, the flush, the ping and the shutdown, and the two
half-close timers. The bytes are numbers, so order is visible.

**SmuxBudget** - Three counters (listener, session, stream): a charge goes from
the listener down and rolls back, a refund from the stream up, one counter per
step; a reader parks, is woken or evicts the largest holder after a grace.
**SmuxSession** - reader, stream tasks, forwarder of closes, the only writer
with its batches and barriers, and the teardown in its order.

**AnyTls** - Every opening has a number beside the id the peer chose, so that the
two maps keyed by the id can be seen to hold the wrong stream. Receive loop,
handlers with their two-step cleanup, outgoing task and `close()`.

**QuicUdp** - `quic` chooses between TUIC (a shared map, several forwarding
tasks, a cleanup task) and Hysteria2 (one loop that does all three). A dial that
loses the race gives back its permit; an upstream write may stall for ever. The
loop of a session has three arms: a packet (`writing`, which watches the token), a
cancelled token, and an answer of upstream (`sending`: the download limits, then a
datagram or a stream, none of which watches the token). `byStream` are the sessions
that answer by streams, because the packet that made them came by one.
**Reassembly** - the LRU cache bounded in entries and bytes; TUIC has two, of
which DISSOCIATE purges one. What leaves the cache (completed, purged, evicted) is
taken out by its keys (`WithoutKeys`).

**UdpRouter** - A poll is the sequence of phases `out`, `drain`, `read`, `flush`,
`tail`; a datagram is a slot of a queue and holds a buffer of a pool.

**Xhttp** - One id, whose successive sessions are numbered objects: POSTs push
numbered packets into the channel, the GET takes the receiver and reorders, a
reaper per session removes it when idle.

**Kcptun** - The server loop with table, index and census, and the session tasks
identified by generation; ends are reported through a channel.

**Resolver** - Lookups with a program counter at each lock and await; `wasted`
records a refresh that replaced a resolver nobody saw fail.

**Selector** - Rule lists, a resolver whose answers change, and the LRU cache
ordered by insertion. A hostname is a sequence of labels and a spelling. A
matcher on addresses is passed or met only with an address: a name that does not
resolve ends the judgement at the first such matcher.

**Vision** - One direction of a stream: the writing end with its mode, filter,
inner deframer and TLS session, TCP, and the reading end with its outer deframer
and unpadder. The inner stream is a sequence of pieces (halves of TLS records, or
other bytes) known by their position; a record of the outer TLS is two halves on
TCP, so that TCP can cut it. `poll_write` is `PollWrite` and then one step per
turn of its loop. The other direction appears only through the shared filter
(`FilterOther`). When one side is finished with padding, `post_padding_cleanup`
frees what the model has already emptied. The UUID in front of the first packet is
one symbol, and `ReadRequest` has an alternative in which the first decrypted part
ends inside it (`UuidRest` is what is left of it). The length of a content is
written modulo `LenMod` (2^16 in the code, a `usize` cast to `u16`), in pieces; what
the reader finds where a truncated length lets it look for a header is no command,
while in the program it may by chance look like one. `strayed` records that a packet was too
long for its length or that a first part was cut inside the UUID and dropped.

**Packs** - `MCMux`, `MCForward`, `MCTables` and `MCRecovery` put several
components into one run. The components share no state in the program, so a
behaviour is one of one component, chosen by the variable `which` in the initial
state; the others stay in a single initial state and cost no states. Fairness is
per component: the formula is a disjunction over `which`. The other `MC*` modules
name values of constants and symmetries. `PROJECT.json` maps every definition to
its source lines.

## 4. Runs, bounds and what they show

| Run | Components and bounds | Shows |
|---|---|---|
| `traffic_concurrent` | 1 node, 1 user, 2 connections, 2 units, 1 close flush, 1 process end, write errors, deletion of users | `CountedOnce`, `Accounted`, `BilledOncePerLife` (224 466 states) |
| `node_controller` | 2 users, 3 kinds of row, 3 changes of the panel, 2 faults, 4 styles of panel, fair | `ValidatorsHonest`, `ServesCache`, `SavedUnlessOwed`, `Converges` (731 800 states) |
| `recovery` | *traffic*: 1 connection, 2 units, no close flush, lost replies, write errors, 1 process end. *graph*: 3 generations (same, overlapping and disjoint binds), 2 protocols, 2 lists, 3 faults, 3 requests. *streams*: 2 with room for 1, 2 bytes sniffed, 3 bytes. *rate*: as in `tables`. Fair | `SettledNotReplayed`, `EventuallyBilled`; `GraphSafe`, `NodeRecovers`; `StreamsServed`, `StreamsEnd`; `RateServes` (about 146 000 states) |
| `tables` | *device*: 1 user, 2 addresses, 3 connections, limits and panel counts 0..1. *store*: 2 users, 2 configurations, 4 revisions, 2 crashes, compaction at 2 records. *deltas*: 3 ids, 3 payloads, at most 2 updates and 2 removals, in-place limit 2. *reassembly*: 3 bursts, 2 entries, 3 bytes, 1 duplicate, the three caches. *router*: 2 flows, with and without an initial flush. *resolver*: 2 lookups, 3 builds. *selector*: 3 rule lists, 3 destinations, 2 judges, 3 judgements, 1 change of an answer, cache of 1. *rate*: a stream and a message connection, limits 0..2, burst 1, reads of 2. *vision*: six inner streams of 3 to 6 pieces (TLS 1.3 both ways, TLS 1.2, other bytes behind a handshake, too much for one packet, look-alikes), lengths modulo 3, filter count 2, room for 3 symbols | `TrackedExactly`, `LimitRespected`; `StoreConsistent`, `Implements`; `DeltasAgree`; `ReassemblySafe`; `RouterSafe`; `ResolverSafe`; `DecisionsJustified`; `RateHeld`; `VisionSafe` (941 594 states) |
| `mux` | *budget*: 2 sessions with 1 stream each, one budget tighter, queue of 1, 3 frames. *session*: 2 ids, limit 1, outbound queue of 2, one stream receives a payload and one writes. *AnyTLS*: 2 opens with the same id or not, limit 1, channels of 1, 1 payload. Fair | `BudgetSafe`, `Delivery`; `StreamPromise`, `SessionPromise`; `AnySafe`, `RecvGoesOn` (277 160 states) |
| `forward` | *relay*: 3 bytes against none, buffer 2, bulk 3, pings in one direction. *QUIC*: 2 associations, 2 forwarders, 2 dials, 2 sessions, channel of 1, both protocols. *router*: 1 flow, 2 session ids, queues and pools of 1. *XHTTP*: two plans of uploads (repeated and out of order), buffer 1, 2 sessions, 2 downloads. *kcptun*: 2 peers of one address, 2 conversations, table of 2, 1 per address, queue of 1, 3 generations, 3 packets. Fair | `RelaySafe`, `HalfCloseReclaimed`; `UdpSessionsSafe`, `UdpForwardingGoesOn`; `SilentIsReclaimedUnlessStuck`; `XhttpSafe`, `XhttpGoesOn`; `KcptunSafe`, `KcptunReclaims` (261 373 states) |
| `traffic_stale_flush` | as `traffic_concurrent` | finding 1 |
| `traffic_shutdown` | 1 connection, no crash | finding 2 |
| `lkg_legacy` | the migration may fail to save | finding 3 |
| `runtime_leak` | a node with TCP and QUIC on one port, 1 fault | finding 4 |
| `node_ready` | as `node_controller` | finding 5 |
| `vision_response` | one TLS 1.3 stream | finding 6 |

Several properties are conjunctions of named parts (`RelaySafe`, `RouterSafe`,
`DeltasAgree`, `KcptunSafe`, ...); each part has its own comment in its module.

Why the bounds suffice. *Traffic*: shards of different users never interact except
in a whole-tracker capture, so one user is enough for the races between sweeper,
drop, push and writers; two units let one be counted while the other is in a
payload, two connections let two hands be full at once. The proofs remove these
bounds for `CountedOnce`, `Accounted` and `BilledOncePerLife`. Where
`EventuallyBilled` and `SettledNotReplayed` are checked the flush writer is left
out: with it the second one is false (`traffic_stale_flush`). *Devices*: with a
limit of 1 a second address is refused and a second connection of the first is
not; the proofs hold for every limit. *Store*: two crashes let a crash happen
during the recovery from a crash, four revisions let a compaction be followed by
appends. *Runtime*: the three generations give each ordered pair of bind
relations, three faults let a candidate, its rollback and the next attempt fail.
*Controller*: two faults let an application and its save, or a replacement and
its rollback, fail in one history; two users are needed for a delta that touches
one and keeps the other. *Deltas*: with an in-place limit of 2 both algorithms,
and repeated and conflicting ids in each, occur. *Budgets*: with two sessions one
can hold what the other waits for, and the tighter budget makes both kinds of
refusal (session and listener) happen. *Sessions, AnyTLS*: two streams are the
least for a limit of one to be hit by a stream that is closing and for an id to
be reused; queues of one or two are full after one frame. *Relay*: three bytes in
a buffer of two wrap, and the bulk size of three makes it grow and shrink. *QUIC*:
two forwarders make the dial race, the second session is the one dialed after a
failure. *Reassembly*: three bursts let an id be used, dissociated and used again;
two entries and three bytes make both limits evict. *Router*: two flows for
evictions and pool pressure; one flow is enough for the timers. *XHTTP, kcptun*:
the second session or generation under a key is what a late end could destroy.
*Resolver*: two failing lookups contend for one refresh; the proof removes the
bound. *Selector*: a cache of one evicts at the second destination. *Streams*: the
second one waits for the place of the first. *Rate*: one kind of pipe asks for all
of a message at once, the other takes what there is. *Vision*: a packet of four
symbols does not fit into three, so the pending buffer is used; six pieces let two
records follow the switch; with lengths modulo 3 three pieces of other bytes are too
many for one packet, while a record of two still fits.

Deadlock is checked except where the system stops by design: a terminated process
that has used up its process ends, a stopped node, and the packs, whose
components all end (streams that closed, lookups that were answered, bounded
numbers of packets). Every property of a passing run is also shown to be violated
by at least one plausible bug (`mutants` in `PROJECT.json`).

## 5. Fairness

Clients, peers and the network are never obliged to do anything, and faults are
bounded or unbounded but never fair. What is fair is what Tokio polls when it is
ready, and timers.

- `TrafficTracker!Fairness`: weak fairness of the sweeper, of a started drop, of
  the push timer and every step of a push, and of the blocking pool. Opening,
  carrying and dropping a connection, crashes and the signal are not fair. The
  panel is assumed not to refuse for ever (strong fairness of `PanelApply`): no
  weaker assumption makes billing possible, and any number of refusals and lost
  replies remains possible.
- `RuntimeGraph!GraphFair`: weak fairness of the controller's steps (a pull comes
  every interval and the awaits of a start return) and of the drop of an aborted
  task. Faults are bounded.
- `NodeController!FairSpec`: weak fairness of the pull and of the boot. Failures
  and panel changes are bounded in number, which is what "once the panel is quiet"
  means in `Converges`.
- `StreamService`: weak fairness of the timers (handshake, sniff, dial, shutdown),
  of admission, of counting the initial data and of the drops. No I/O is fair.
- `RateLimit`: weak fairness of the clock, of asking, of sleeping off a
  reservation, and of the I/O that was allowed.
- `SmuxBudget`: weak fairness of each reader's next step (its grace is a timer)
  and of a walk over the counters once begun. `SmuxSession`: of the teardown, of
  the end of a task once the session ended (it is aborted), of the forwarder and of
  the writer: the peer's TCP takes bytes in the end or the write fails, without
  which no FIN could reach it. The teardown needs only its own timeouts.
- `AnyTls`: weak fairness of the end of a handler (`STREAM_HANDLER_TIMEOUT`), of
  its cleanup and of the delivery into a channel with room.
- `Relay`: only of the half-close timer and of the completion it leads to.
- `QuicUdp`: strong fairness of a packet's send (a full channel is freed and filled
  again by others; the semaphore behind it is first come first served), and
  of the removal after a failed one, strong fairness of the loop's taking a packet or
  seeing the token (`select!` chooses at random among the arms that are ready, so
  answers do not keep it from the others for ever), weak fairness of the cleanup of a
  stuck association. A datagram of an answer is sent in the end (the download limits
  let every waiter through, `RateServes`). An answer by a stream is not fair: the
  client may never grant one; it fails once the connection is over. Upstream writes
  may stall.
- `UdpRouter`: weak fairness of the steps of a poll; strong fairness of timers, of
  a flush that completes, of dropping what is gone and of the end of a creation,
  which are enabled once per poll. The property assumes that the client's stream
  does not leave a flush pending for ever unless its write side ended.
- `Xhttp`: weak fairness of pushes into a channel with room, of the reader, of the
  drop of a failed reader, of the reaper and of the clock.
- `Kcptun`: weak fairness of the pump, of the idle clock, of the end and of the
  report of a session, and of the loop's reading of the reports.

## 6. Proofs

All are checked by TLAPS for every value of the constants that satisfies the
named assumptions of the modules: `TrackerConstants`, `DeviceConstants`,
`LkgConstants`, `NoneIsNoSnapshot`, `RuntimeConstants`, `NodeConstants`,
`NoneIsNoValue`, `ServiceConstants`, `BudgetConstants`, `SessConstants`,
`AnyConstants`, `QuicConstants`, `ReasmConstants`, `RateConstants`,
`DeltaConstants`, `NoUserIsNoRow`, `KcptunBounds`, `RelayConstants`, `XhttpBounds`, `RouterConstants`,
`ResolverConstants`, `SelectorBounds`, `VisionConstants`. TLC evaluates each of them on the runs.
Where a specification states fairness, the theorem is about the same `Init` and
`Next` without it (`QuicSafetySpec`, `KcpSafetySpec`, `RelaySafetySpec`,
`XhttpSafetySpec`, `RouterSafetySpec`, `BudgetSafetySpec`, `SessSafetySpec`,
`AnySafetySpec`): safety needs none.

Every proof has the same shape: an invariant that says more than the property and
is inductive, one lemma per action that the action keeps it, and the property as
a consequence. What the invariants add:

**UserProofs** - The three modules about the users of a panel.
`DeviceTypeCorrect`, `SlotsNeverLeak`, `AlwaysTrackedExactly`,
`LimitAlwaysRespected` (an action property) and `ReuseAlwaysAdmitted`, from
`DeviceIInv == TypeOK /\ Counts`: the count of an address is at most the number of
its open connections, and equal to it for users never deleted.

`StoreAlwaysConsistent` and `StoreIsDurableCell`, the refinement of the abstract
cell: the initial states agree, and each file operation is a step of `DurableCell`
or changes nothing of it. Both hold on the condition `~MigrationMayFail`, without
which they are false (finding 3). The heart is `LkgStored`, what a restart would
recover at each step. Two facts make it inductive. The revision recovered may lag
behind the one in memory, because a delta that changes nothing is not written; a
record that is written is still newer, because it changes something. And a base
renamed over an old journal makes all of that journal old, because no record is
newer than the snapshot in memory (`LkgJournal`); so a crash between the rename and
the removal of the journal recovers the new base. That the recursive function
`Replay` is well defined, what it does to a journal with one more record, and what
it ignores is proved by induction on the length.

`DeltasAlwaysAgree`: the four implementations of a delta agree with the reference
for deltas of any length, with repeated ids and ids both updated and removed, on
both sides of `IN_PLACE_CHANGE_LIMIT`. `DeltaIInv` says that the vector lists the
rows of the reference with increasing ids (`Lists`), which is what each
`binary_search_by_key` relies on, and that both indexes of the live table lead from
a row back to its place (`GoodTable`); `LiveExact` alone says only that the row
found has the right id or key, which a `swap_remove` need not keep. Rows of
different ids have exactly one such list (`ListIsSorted`), so the in-place path, the
batch path and the replay are each shown to list the rows `UpdatedBy` and then
`RemovedBy` the delta (`OneByOneLists`, `BatchLists`) and are equal for that reason
(`MergeLists`). `CountExact` is the counter against a recount, by the sizes of two
differences of sets. For the table, `RemoveGood` and `InsertGood` are one
`swap_remove` and one push, `RemoveUidsGood` and `InsertRowsGood` their loops, and
`ValidateExact` shows that the check against the *old* table refuses exactly the
deltas after which two users would have one key. A delta that changes nothing is
accepted without the check, and rightly: the reference does not change either.

**NodeControllerProofs** - `NodeTypeCorrect`, `ValidatorsAlwaysHonest`,
`CacheAlwaysServed`, `AlwaysSavedUnlessOwed`, `LimitedCountAlwaysExact`, from one
invariant. Its core is `Coherent`, the same condition on the cached values and on
the candidate: validators describe the values, the digest the last body, the
counter the list. `CandidateOK` says how a candidate may differ from the cache
(exactly as its flags and its delta say), which is what makes the in-place delta
sound; `Saving` and `DiskOK` relate the cache to the snapshot while a save runs.
`CountAfterExact` proves the incremental counter against a recount for any finite
set of users.

**ServiceProofs** - `ServiceInductive`, `StreamsAlwaysServed`: for each point at
which a stream can wait, the guards it holds (`GuardsInv`), where its bytes are and
how many of them are counted (`BytesInv`) and what the client has been told
(`ToldInv`); the count of live streams is the cardinality of those that hold a
place.
`GraphInductive` and `GraphAlwaysSafe`: `GraphSafe` is about a node at rest;
`GraphIInv` says what a start holds meanwhile, so that each of its ends leaves the
right listeners: exactly the addresses before the cursor (`StartHolds`), with the
old generation kept beside it or stopped already, as the plan says
(`OldGeneration`), and the tables of the cached generation unchanged until the
commit (`CachedTables`).
`RateAlwaysHeld`: what has been sent ahead, the tokens left and the debts together
are covered by the largest burst and the initial data (`TokensCover`), and for every
time `d`, what will have been sent ahead when the sleeps of length `d` are over is
covered by what the rate brings in meanwhile (`SleepsCover`); the second needs the
rate not to fall during a sleep. The proof attempt without that condition failed,
and TLC confirmed why: with limits 4 and then 1, initial data of 3 and two streams, a
connection that reserved its debt under 4 sleeps for one step, wakes under 1 and goes
on before the debt is paid. `RateHeld` therefore excepts the limiters for which the
history variable `lowered` says that this happened.

Of the traffic such streams carry: `TypeCorrect` (with the control facts that a push has
visited all shards before it goes on, and that a controller's write is in flight
exactly while it is awaited) and `CountedOnceAlways`. `CountedOnce` is not
inductive: a restart copies `disk` into `pending`, so the snapshots themselves,
on disk and in the hands of writers, must count a unit for one user only
(`SnapshotsKnown`); a fresh unit must be nowhere yet (`Known`); and a dead process
must hold nothing (`HaltedHoldsNothing`). `IInv` is their conjunction.
`AlwaysAccounted`: nothing vanishes, because nobody overwrites a full hand
(`HandsFree`), a payload exists only in the phases that own it and is billed
before it is discarded (`PayloadInPhase`), and each unit can be traced to memory,
to the snapshot of a dead process or to its end (`Traced`). `OneBillPerLife`:
unless replies are lost, whatever the process may still bill was billed only by
earlier processes (`BillsBounded`); the step in which the panel counts a payload
needs `CountedOnce`, since the same unit elsewhere could be billed again.
`SettledStaysSettled`: with one controller and no close flush (`OneWriter`), no
snapshot that exists or is being written holds what the panel has accepted and a
persist has settled (`SnapshotsWithoutSettled`), since an answered payload is held
nowhere any more when the persist that follows captures its image
(`AnsweredNotHeld`) and no other image is in flight then (`PersistsAlone`). The
condition is tight: with a second writer the property is false
(`traffic_stale_flush`).

**FoldTheorems** - No theorem of the system, but the lemmas about recursion that
the others share. The recursion behind `SumFunction` of the library is well defined,
and a sum changes by what one of its terms changes (`SumChanges`); both go by
induction over the size of the set, through the set of sizes for which the fact
holds (`SetInduction`: a set of naturals that contains 0 and with a number its
successor is `Nat`, from the least element of a non-empty set of naturals). It is
the form every induction of the project takes: the library's induction theorems
take an operator as a parameter, which the provers cannot instantiate.

**MuxProofs** - `BudgetInductive`, `BudgetAlwaysSafe`, `PayloadsAlwaysDelivered`.
The accounts of `SmuxBudget` are sums over streams, readers and permits
(`SumChanges`, and `SumOfQueue` for a payload queued or taken). A step of the budget touches one reader, one walk and one
counter; `Balance` then reduces `ChargesAccounted` to a balance of a few numbers
for that stream, and each action has a lemma. `Covered` shows that a refund or an
eviction never subtracts more than a counter holds, so the saturating subtraction
of the code never loses anything. The invariant adds where a charge, roll-back,
refund or eviction can stand (`BudgetTypes`), and `Heard`: a reader that has
registered and was refused waits for a budget that is still full, or whose refund
is on its way to the wake-up. Without the `refused` state in it the property is
not inductive, because the refund may come between the refusal and the park.
`WithinLimits` follows from the charge being one step per counter.
`StreamPromiseKept`: the close of a stream is in one place only, with the stream,
with the forwarder, last of its frames in the queue, or out (`CloseSide`); a live
stream has at most one barrier queued, behind its frames (`FlushSide`); and what a
read has seen of the channel is ordered like the channel (`ReadSide`).
`CarriedFrames` says what a batch of the writer puts on the wire, by induction
over the batch.
`AnyAlwaysSafe`: the end of a stream is on its way in once and behind everything
else (`InputOrder`), on its way out in the channel or on the wire
(`OutputOrder`); an id is used again only for streams whose peer has finished
(`PeerOrder`), and `close()` finds every handle but those filed under an id that
was used twice or after it (`HandlesKept`).

**ForwardProofs** - `UdpSessionsAlwaysSafe`: `QuicIInv` adds to the property only
that a forwarder past its dial has a dialed session. `KcptunAlwaysSafe`: the census
of the table, and that a session and its task know each other, where a task that
has ended is still in the queue of ends (`Known`, `Generations`).
`RelayAlwaysSafe`: the bytes in the circular buffer are those taken and not given,
from `start` and around the end (`Ordered`), and what is not flushed is remembered
(`Owes`). `XhttpAlwaysSafe`: the channel holds the end of what it was sent, and what
it no longer holds was handed out or waits as the first of its number (`InOrder`).
`ReassemblyAlwaysSafe`, for any bursts, limits and numbers of duplicates:
`ReasmIInv` says of each entry that all its fragments belong to packets of one key
and of this life of the association, or to packets that were overtaken
(`EntryShape`, `OfThisLife`), that keys differ, so that a fragment finds at most one
entry, and that the bytes of the cache, a sum over its entries, are within the limit
between two fragments (`GoodCache`); and that every fragment that has arrived of a
packet nothing was done to is in its entry until the packet is forwarded (`Kept`).

**RoutingProofs** - `ResolverAlwaysSafe`, for any number of lookups and builds.
`ResolverIInv` adds to the property that the refresh lock has the holder that its
program counter says (`LockHeld`), that the generation lags behind the resolvers
put in place only while the holder is between its two writes (`GenerationLag`),
and that what a lookup has read is ordered like the counters it was read from
(`ReadsOrdered`): without the last one, an error refresh might compare a
generation read after the resolver that failed. `RouterAlwaysSafe`: each pool has
made as many buffers as are idle or queued, and the counters of sessions to come
are zero (`RemoteSide`, `ServerSide`); the bound on streams being shut down follows
from the number of sessions ever made (`LookupSide`). `DecisionsAlwaysJustified`: a
judgement at a matcher has passed all matchers before it, each under an answer that
was given, and one that asks for an address only under an address
(`MatchingSound`), and a cached rule is the first for some spelling of its
key whatever protocol is sniffed (`RoutesSound`).

**VisionProofs** - `VisionAlwaysSafe`, for every inner stream that `VisionConstants`
allows, every size of the session's buffer, every filter count, every modulus of
lengths above 2 and every cut of TCP, until a behaviour has `strayed`. Reader and writer share
nothing but a stream of symbols, in five buffers and two encodings: what the reader's
deframer holds, TCP, the writer's session (all three in halves of TLS records, or
bare pieces behind DIRECT), the plaintext waiting behind the session and what the
writer's deframer holds back. The proof reads them with an automaton. A *station*
says what may come next in the stream (the request or the response, a header, content,
padding, pieces in TLS, bare pieces), the command and the length of the packet under
way, the position in the inner stream, and whether half a record has gone by; `SymRel`
and `TokRel` are its steps and `Path(R, s, d, t)` says that `d` leads from `s` to `t`.
The invariant is `strayed \/ VisionInv`, and nothing resets `strayed`
(`StrayedStays`). The heart of `VisionInv` is `Flow`: what is between the two
ends leads from the station of the reader (`At`) to that of the writer (`Writes`). A
writer extends the path at its end (`Wrote`: one lemma for a packet padded into the
session, one for each way a turn of `poll_write` ends, one for a drain, which only
moves the middle of the path); a reader shortens it at its beginning (`Reads`: the
run of `Unpad` over a decrypted record follows the automaton step by step,
`UnpadAt`), and neither needs a word about the other. Both change their mode at the
same byte because a packet that ends the padding leads to one station only. `VisionInv`
adds the control facts of both ends (`WriterFacts`, `ReaderFacts`), that no DIRECT
is under way before the server has read the request, that only a client waits for a
response, and that the end is read behind everything else. The recursive functions of
the model (`Opened`, `Unpad`, `PiecesOf`, `OnTheWay`) are shown to be well defined,
and what they do to two sequences in succession, by induction on the length.
That a packet's length is its content's is used where a packet is appended to the
path: a content of `LenMod` pieces or more is the case `Overlong`, and `LenMod > 2`
makes a TLS record (two pieces, at most 16 KiB in the code) never one.
`VisionConstants` makes two assumptions on the inner streams, and both are needed. A
server that ends without having written never sends its response (it goes with the
first write), and the client's read fails. And a client that sends a TLS 1.3
ServerHello as inner data, which no TLS client does, could write DIRECT before the
server has taken the session over; the model then loses the bare bytes read with the
request (TLC finds it in seven steps without the assumption).

`TypeCorrect`, `DeviceTypeCorrect`, `NodeTypeCorrect`, `SlotsNeverLeak`,
`ReuseAlwaysAdmitted` and `LimitedCountAlwaysExact` are proved and not run;
`GraphInductive`, `ServiceInductive` and `BudgetInductive` state the inductive
invariants themselves, and `PayloadsAlwaysDelivered` the safety part of `Delivery`.

Only model-checked: all liveness (`Converges`, `EventuallyBilled`, `NodeRecovers`,
`StreamsEnd`, the second half of `Delivery`, ...), which is beyond this prover. Every
invariant of a passing run is stated by a theorem.

## 7. Findings

Six runs show a disagreement between the code and what the repository says.

1. `traffic_stale_flush` - `docs/v2board-runtime-support.md:75` promises that
   accepted traffic is not replayed after a restart. The close flush captures its
   image and renames it with no ordering against the push loop's persist, so an
   older image can replace the newer snapshot, and a restart bills again.
2. `traffic_shutdown` - line 74 of the same document calls the persist at
   connection teardown synchronous. It is throttled and unawaited, and what open
   connections record after the last persist of `run` is lost at exit.
3. `lkg_legacy` - when the save of a migrated legacy snapshot fails, the pending
   bit stays clear; the following deltas are acknowledged into a journal that
   `load` does not replay on a legacy snapshot.
4. `runtime_leak` - "A partial start is aborted", but a node that fails at a later
   address drops the handles of its earlier listeners, which detaches them.
5. `node_ready` - after a failed candidate and a failed rollback the status report
   goes on calling the previous revision ready while nothing runs.

6. `vision_response` - `src/vless/vision_stream.rs:619` says that data behind a
   DIRECT command cannot be consumed while the client waits for the VLESS response,
   since no handshake can complete by then. With TLS 1.3 the inner server's first
   flight already holds records of type application data: the first goes out with
   DIRECT and the rest bare. If one read of the client holds response, DIRECT and
   bare records, the latter are fed to the TLS session and the connection fails.

Read in the code and not stated as runs. Control plane:

- A panel whose revision starts over leaves the journal's revisions below the
  base's; a replay would skip them.
- A base damaged by the medium next to an old legacy file, followed by a crash,
  replays deltas against a snapshot they were not computed for.
- The connections of a user deleted and listed again are no longer counted, so
  the device limit is not exact for such a user until they close
  (`TrackedExactly` and `LimitRespected` therefore except `churned` users).
- The commit of an online report subtracts from a counter that may have started
  afresh; it saturates, so at worst one report is late.
- A node that returns to a protocol it used before reads that protocol's old
  table between the start of its listeners and the commit.
- An expired user stays in the live table until a delta touches its row.
- All controllers share a semaphore of `max_concurrent_v2board_syncs` permits that
  a pull holds through its requests; a panel that answers slowly delays the other
  nodes' pulls by its timeouts.

Streams and limits:

- Before the relay, writing the response and early data, the upload of initial
  data and the shutdown after a failed setup have no timer: an unresponsive peer
  holds the live-stream place and the device slot (`StreamsEnd` excepts them). For
  UDP the rule judgement is outside the 60 s timer.
- Tokens reserved by a connection that is then aborted stay taken. A changed limit
  reaches running connections only when the user's next connection authenticates;
  connections of a removed user keep their old bucket beside the new one; a pipe
  may starve behind another that shares its bucket.
- The comment of `copy_bidirectional_message` describes more flushing than the code
  does.

Multiplexing:

- smux: a payload and the terminal event that both arrive between the two polls of
  `poll_read` lose the payload (`DataBeforeEndUnlessLate`); a roll-back in
  `try_charge` wakes nobody (`RefundHeardButRollback`); a barrier in flight clears
  `write_dirty` for frames queued behind it.
- AnyTLS: the stream limit counts map entries, while handlers of streams the peer
  has finished live on; the FIN of `process_outgoing` removes by id; a SYN handled
  after `close()` has drained the handles is never aborted; handles are
  overwritten by id.

Datagrams and uploads:

- Hysteria2 cleans up in the loop that forwards, so a stalled upstream wedges the
  datagrams of its connection in spite of the comment at
  `src/hysteria2_server.rs:788`; TUIC, whose write watches the token and whose
  cleanup has a task, does not (`UdpForwardingGoesOn` with its exception `HeldUp`). A
  removal after a failed send goes by id in both.
- The arm of TUIC's session loop that sends an answer (`src/tuic_server.rs:1094-1217`)
  watches no token. In a session that answers by streams it waits for the client's
  stream credit and flow control (1137-1141), so a client that grants neither holds
  up the session and whoever sends into its full channel (1801), the stream task or
  the datagram loop, cancelled or not, until the connection ends (the other part of
  `HeldUp`).
- DISSOCIATE purges only the fragment cache of TUIC's stream tasks, and the idle
  expiry of an association purges neither.
- A UDP router whose write side ends in the middle of a round keeps
  `needs_server_flush` or a queued response, and its drained timer never runs; a
  ping whose flush stays pending restarts the 120 s timer every 30 s.
- XHTTP: a POST that fills the buffer of a session nobody downloads waits until its
  connection ends; an idle connected session is reaped while its reader lives, and
  later uploads, answered OK, go to a new session without a reader.
- kcptun: a delayed first segment of an old conversation replaces the newer
  session, and an invalid one ends the old session before it is validated.

Routing:

- The cache lower-cases hostnames (`src/client_proxy_selector.rs:31`) while masks
  compare as spelled (test at `:1714`): with more than 16 rules, or with hostnames
  in rules resolved, the first spelling asked for decides for all others, although
  the cache is documented as only faster (`:290`, `:367`). `DecisionsJustified`
  allows it.
- Cached decisions that depended on a DNS answer stay when the answer changes; the
  address the UDP router resolved in advance decides later requests for the name.
- A lookup that reads the generation just before a refresh and the resolver just
  after it retries on the same resolver without a rebuild.

Vision (the causes `ReadersAgree` allows, and what holds bytes back):

- When the server takes the session over, it may hold half a TLS record behind the
  request; the outer deframer then starts inside that record and the read fails
  (cause `cut`).
- An END among the data read with the request makes the second part of it meet an
  unpadder that is done (cause `twice`).
- A suffix that looks like the beginning of a handshake is held back until more
  comes (a TODO of the code says so). If the held bytes are all of the prefix that
  ends the padding, `poll_write` returns `Ok(0)`, which a caller takes for the end.
- Clearing the inner deframer after a pending drain makes it search for a handshake
  again, so later application data is an unknown prefix and DIRECT is missed: the
  stream goes on in TLS.
- The content length of a packet is `data.len() as u16`
  (`src/vless/vision_pad.rs:19`), and nothing splits a longer content (TODOs at
  `src/vless/vision_stream.rs:1275` and `:1353`). A write of more than 65 535 bytes
  that is no TLS, which the 256 KiB buffers of the NaiveProxy relay make possible,
  gets a truncated length, and the reader takes the rest of it for padding and
  headers. `VisionSafe` excepts it (`strayed`).
- A first part shorter than the 16 bytes of the UUID is dropped by the unpadder
  (`src/vless/vision_unpad.rs:100`), and what follows it goes on as raw data. The
  client of this repository writes its request in a record of its own, so it takes a
  client whose records are cut there. `VisionSafe` excepts it (`strayed`).
- `poll_shutdown` does not drain the session; the relay flushes before it.

## 8. What is not modelled

In the modelled components. *Accounting*: the two directions of traffic are one
counter (all operations treat them alike) and the saturation of `u64` is left out.
*Store*: bytes of encodings, damage of files by the medium. *Controller*: interval
changes and the shared semaphore; the retention of superseded tables; the other
node types, which skip the manifest and are otherwise alike; protocols without an
indexed delta path, which rebuild their table. *Streams*: the second limiter copy
of a direction, the download counter, the override of the peer address, the
throttled logging of rejections. *smux*: version 2 window updates, keep-alives; a
SYN for an id that is open, which ends the session like any other invalid frame; an id
used again after its FIN. The flags `barrier` and `write_dirty` are
cleared when the writer answers, in the program at the next poll of the stream, which
the exception `behind` of the promise covers. *AnyTLS*: a SYN for an id that is open.
*kcptun*: KCP itself (a library) and forward error correction; the end of the server
loop when its socket fails. *QUIC*:
authentication, TCP relaying, header codecs. *XHTTP*: HTTP framing and the
stream-one mode, which has no session; the reaper's look at the time and its removal
are one step. *Selector*: regular expressions and
keywords are the sets of names they match. *Vision*: patterns that overlap a piece
boundary byte by byte, records the client's TLS session still holds (session
tickets) when the stream takes over, the VLESS header and its UDP forms.

Not modelled, and why:

- HTTP and JSON plumbing, wire types, configuration mapping and validation: pure
  functions of one request or file, without state; about a third of the source.
- Cryptographic handshakes and record layers (REALITY, TLS, VMess, Snell,
  ShadowTLS, Shadowsocks AEAD): what could be wrong is in key schedules and bytes
  that a state model does not tell apart; the repository checks them by vectors.
- Parsers whose state ends with the handshake (Trojan, SOCKS, HTTP, PROXY protocol).
- The third-party TCP stack behind TUN, mobile bindings, command lines, load
  clients, end-to-end servers, and the unit tests inside the source files, which
  are a large share of the lines.
- H2Mux, mux.cool, XUDP, the AnyTLS client's pool, client chains, WebSocket, the
  salt filter, FEC groups and manifest decoding have state worth a model and are
  in the plan.

Each component is in `PROJECT.json` with its reason.

## 9. Plan

Order of work: what bills and admits users first, then what keeps a node
serving, then the data plane. Done: the control plane (`TrafficTracker`,
`DeviceLimit`, `LkgStore`/`DurableCell`, `RuntimeGraph`, `NodeController`,
`UserDelta`), the data plane (`StreamService`, `RateLimit`, `Relay`, `SmuxBudget`,
`SmuxSession`, `AnyTls`, `QuicUdp`, `Reassembly`, `UdpRouter`, `Xhttp`, `Kcptun`,
`Resolver`, `Selector`, `Vision`), and the proofs of section 6.

Next modules: sessions of H2Mux, mux.cool and XUDP (with `SmuxBudget` beneath
them); `SaltWindow`, the replay filter of Shadowsocks; `FecWindow`, the groups of
kcptun; chains and rule sets as operators against a linear scan; the ping and
close states of WebSocket; strict manifest decoding.
