# Zetamesh: TLA+ models of the gateway, the node's connections, the TUN device and the driver loader

Zetamesh is a peer-to-peer virtual network. Nodes read IP packets from a TUN
device and send them to each other over UDP. A gateway with a public address
knows where the nodes are, tells two of them to open a tunnel to each other, and
relays their traffic until the tunnel works.

This directory holds TLA+ modules translated from the Go source, configurations
that model-check them with TLC, and proofs checked by TLAPS. `PROJECT.json` maps
every definition to the lines it models and lists the hazards, the runs, the
mutants and the theorems.

## 1. Inventory

| part | source | state | operations |
|---|---|---|---|
| notifier | `gateway/notifier.go` | `ackID`, `data` (unacknowledged notifications) under `mu`, the channels `read`, `queue` and one per worker | `OpenTunnel`, `openTunnelAck`, `relay`, `notify`; the dispatcher's select and its `retry`; the workers |
| gateway server | `api/api_server.go` | `peers`: virtual address -> `PeerInfo` | `OpenTunnel` (HTTP), `Heartbeat`, `Peer` |
| UDP processor | `gateway/processor.go` | the shared message objects `protos` | `process`: Heartbeat, OpenTunnelAck, Relay |
| gateway process | `gateway/gateway.go` | none of its own | starts the notifier, the HTTP server, the UDP loop |
| connection | `node/connection.go` | `state`, `keepalive`, `pipeline`, `die` | `loop`, `read`, `close` |
| packet handlers | `node/handler.go` | `Node.connections`, the shared `protos` | `schedule`, `handlePacket`, `onPing`, `onPong`, `onOpenTunnel`, `handleClosed` |
| forwarding | `node/node.go` | `pending`, `pipeline` | `serveDev`, `forward`, `heartbeat`, `Serve`, `Stop` |
| API client | `api/api_client.go` | none | `OpenTunnel` over HTTP |
| codec, messages, constants | `codec/`, `message/`, `constant/` | none | encoding |
| TUN devices | `node/tun/*.go` | device handle; on Windows the rate estimate and the session | `NewTUN`, `Read`, `Write`, `Close` |
| Wintun loader | `node/tun/wintun/**` | lazily loaded module and procedure addresses | `Load`, `Find`, `LoadLibrary` |
| start-up | `main.go`, `version/` | none | flags, logging |

How they interact. A node that has a packet for a peer without a connection asks
the gateway over HTTP (`forward`, `apiClient.OpenTunnel`). The server looks both
peers up and calls the notifier, which queues one notification for each side and
repeats them every 300 ms until the peer acknowledges. A node that receives the
notification (`schedule`, `onOpenTunnel`) dials the other node, stores the
connection, starts its loop and acknowledges. The loops ping each other; the
first Pong establishes the connection. Until then `forward` relays the data
through the gateway.

What makes it hard:

- several goroutines share the connection table, the connections and the message
  objects, and only some of that with a lock or a `sync.Map`;
- a peer may change its UDP address, so a connection is replaced while its loop,
  its reader and its timers are still running;
- notifications and acknowledgements are lost, late or repeated, and a dial, a
  read or a write may fail between two steps;
- a node may be killed at any point of the set-up of its TUN interface, and on
  Windows the interface is still there when it starts again;
- reader, writer and `Close` of the Windows device share the session and the rate
  estimate without a lock;
- bounded channels block the goroutine that fills them: the dispatcher while it
  holds `mu`, the UDP loop in `relay`, a reader in `onPing`, and three kinds of
  goroutines on the pipeline to the device;
- timeouts race with late answers.

What has to hold: no goroutine waits for ever; a notification is neither lost nor
mixed up, nor repeated without end; the table holds the live connection of each
peer and nothing else; a connection counts as established only when its address
answered; a silent connection goes away; a connection is closed once; peers are
introduced with addresses the gateway heard them from, and relayed data reaches the
peer it names; a node serves on an interface of its own and reads every packet from
it. Some of this holds under conditions only, and section 4 says where it fails.

Two things one might expect are not claimed. An acknowledgement says that the node
has an entry for the peer with that address, and the entry may be a connection that
is being closed: `onOpenTunnel` does not test `die` there. And the process may end
with a panic even when no channel is closed twice, because readers share a message
object (`Node` below).

## 2. Modules

| module | models | proofs | instance |
|---|---|---|---|
| `Notifier` | the gateway's notifier | `NotifierProofs` | `MCNotifier` |
| `Gateway` | peer table, UDP loop and HTTP handlers, composed with `Notifier` | `GatewayProofs` | `MCGateway` |
| `Node` | connections, packet handlers and forwarding of a node | `NodeProofs` | `MCNode`, `MCNodeService` |
| `Tunnels` | what a node promises about its tunnels; implemented by `Node` | `TunnelProofs` | `MCNode` |
| `Tun` | making, configuring and closing the TUN interface over several runs | `DeviceProofs` | `MCDevice` |
| `Device` | reading and writing the interface, composed with `Tun` | `DeviceProofs` | `MCDevice` |
| `LazyDLL` | loading the driver library on the first call | `LazyDLLProofs` | `MCLazyDLL` |
| `MemoryModule` | `memmod.LoadLibrary` | `MemoryModuleProofs` | `MCMemoryModule` |

### Notifier

`Notifier` models `gateway/notifier.go` with all its goroutines.

| model | code |
|---|---|
| `ackID`, `data`, `mu`, `read`, `queue` | the fields of `notifier`; `mu` is its holder, `read` the number of tokens |
| `chs`, `roundTrip` | the workers' channels and the next index modulo their number |
| `disp` | where the dispatcher is: in its select, at `mu.Lock()` of `retry`, ranging over the map (`todo` is what is left), sending a queued packet |
| `op[h]` | the OpenTunnel call of handler `h` |
| `fresh` | history: entries never dealt to a worker |
| `Call`, `Lock`, `Put`, `Notify` | `OpenTunnel`: the lock, one round of the loop per peer, `notify()` and the unlock |
| `OpenTunnelAck`, `Relay` | what the UDP loop calls; any id may arrive at any time |
| `SelectTick`, `SelectRead`, `SelectQueue`, `SendQueued` | the dispatcher's select |
| `RetryLock`, `RetryEntry`, `RetryUnlock` | `retry()`; one step per entry, in any order, each blocking on a full channel |
| `Worker`, `Encode` | a worker takes a packet and encodes it; it is written, or an error is logged and it is gone |

`PeerInfo.UDPAddress` is rewritten by heartbeats without a lock, so here a read
yields any member of `AddrsOf`; `Gateway` says which.

`Requests` are the pairs of peers that calls name. Neither the server nor the
notifier tests that the two differ; a node asks for no tunnel to itself, because
`serveDev` keeps a packet for its own address (`node/node.go:154`). In the runs
`Requests` holds all pairs of different peers, and the theorems that need it assume
`NoSelf`.

### Gateway

`Gateway` extends `Notifier` by the rest of the gateway process: the peer table of
`api/api_server.go`, the UDP loop of `gateway/gateway.go` and `process()` of
`gateway/processor.go`.

| model | code |
|---|---|
| `peers` | `server.peers`; a record is the two words, pointer and length, of its `UDPAddress` |
| `udp` | where the UDP loop is: reading, writing an address word by word, at `n.mu`, at `n.queue` |
| `seen`, `last` | history: the addresses of a peer's heartbeats, and the latest |
| `OpenTunnel`, `PutPeers` | an HTTP handler: `Server.OpenTunnel`'s lookups, then `Notifier!Put` with what the records hold at that moment |
| `Heartbeat`, `WriteWord` | `Server.Heartbeat` |
| `ReadAck`, `ApplyAck`, `ReadRelay`, `ApplyRelay` | the other two types of message; a datagram is read before the lock or the queue is waited for |

A Go string is not written atomically. A read between the two words gives the old
pointer with the new length or the reverse: `Torn`, unless the lengths are equal.
The UDP loop is the only writer, so its own reads, for relayed data, are whole.
Datagrams of other types, requests that name an unknown peer and requests of an
old version are answered with an error and change nothing.

### Node

`Node` models one node: `node/connection.go`, `node/handler.go`, and `serveDev`
and `forward` of `node/node.go`. The other nodes, the gateway, the network and
the device are the environment.

| model | code |
|---|---|
| `connections` | `Node.connections` |
| `conn[c]` | the `connection` objects: peer, remote address, state, `die`, pipeline; `age` counts keepalive periods since `keepalive` was set; `loop` is where the loop goroutine is; `pinged` says that a Ping was sent |
| `reader[c]` | the read goroutine: waiting, decoding, looking the sender up, about to use the connection it found, or sending to the device's pipeline |
| `protos` | the shared message objects, by type |
| `schedule` | the goroutine of the gateway's socket: between the test and the close of `close()`, dialling, or sending to the device's pipeline |
| `forward` | the device reader: sending to the device's pipeline, or between its lookup and its use of a connection |
| `pending`, `requests` | `Node.pending` and the request goroutines |
| `device` | the number of packets in `Node.pipeline` |
| `panicked` | what ended the process: the second `close` of a channel, the `read` of a string without bytes, or nothing yet |
| `heard` | history: the addresses from whose socket a Pong was read |

Actions follow the goroutines: `OnOpenTunnel`, `ScheduleClose`, `DialOK`, `DialError`,
`OnRelayedData`, `ScheduleSend` (schedule); `LoopStart` ... `HandleClosed` (loop);
`ReadPacket`, `Unmarshal`, `Lookup`, `OnPing`, `OnPong`, `ReadData`, `ReaderSend`,
`ReadError` (read); `DeviceSelf`, `ForwardSend`, `DeviceWrite`, `ForwardFound`,
`ForwardUse`, `ForwardRequest` (device); `RequestDone`; `Period`, `Second` (time).
`close()` is two steps, the test of `die` and the close, because it runs in two
goroutines. A `sync.Map` operation is one step. A packet for the device is taken in
one step and sent on `Node.pipeline` in another (`Enqueue`), which waits while the
pipeline is full. Messages to the gateway, acknowledgements among them, leave the node
as it is.

Two readers that decode into the same object at once are a data race. The address
one of them then sees is what either wrote, or none, or, when they write different
ones, any address that a torn string can show: `Cut[v][w]`, the addresses among the
peers' that the bytes of `v` with the length of `w` may spell. Or it is `NoBytes`, a
string half reset, with a length and no bytes; looking that up in the table ends the
process, and after that no action is enabled.

Abstractions. Payloads and nonces carry no information the properties use, so a
packet is its type. Time is counted in keepalive periods: after two periods the
10 s test may go either way, after three it is true. `OnOpenTunnel` needs an
unused connection object; their number (`Conns`) bounds the model. Malformed
packets and packets of an unknown type, which the code logs and skips, change
nothing and are left out.

### Tunnels

`Tunnels` is the abstract specification of a node: to each peer at most one tunnel,
which goes from `none` to `Connecting`, may become `Established`, then `closing`,
then `none`. `Node` maps the tunnel of a peer to the state of the connection the
table holds for it, `closing` once its `die` channel is closed and `none` when there
is no entry. `ImplementsTunnels` is this specification under the mapping.

### Tun and Device

`Tun` follows a node from `NewTUN` to the end of the process, several times on the
same machine. `step` is the system call or command that comes next, in the order of
`tun_linux.go`, `tun_darwin.go` or `tun_windows.go`; each may fail, and the process
may be killed before each. `ifaces` are the machine's interfaces, named by the run
that made each, with the run that set its address; interface 0 belongs to another
program and has the name this program asks for. `dev`, `session` and `close` are what
`NewTUN` returned and the fields of `windowsDevice`.

| model | code |
|---|---|
| `Start`, `Fail`, `UnixStep` | `Serve` calls `NewTUN`; an error ends the process; a step on Linux or macOS |
| `OpenAdapter`, `DeleteExisting`, `CreateAdapter`, `Name`, `StartSession`, `FailSession`, `Netsh` | `NewTUN` on Windows |
| `Panic`, `Close`, `End`, `RemoveAdapter` | the deferred `dev.Close()` of `Serve` after a panic of `schedule` |
| `Kill` | the end of the process at any step: descriptors and sessions are closed, Wintun adapters stay |

`Device` adds the goroutines: `go["read"]` and `go["write"]` are where
`windowsDevice.Read` and `Write` are, one step per call on the session and per atomic
operation of `rateJuggler.update`.

| model | code |
|---|---|
| `ring`, `event`, `broken`, `Arrive`, `Break` | the driver (external): the receive ring, the event behind `readWait`, an adapter that was taken away |
| `clock`, `Tick`, `Wrap` | `nanotime()` and the unsigned difference of two of its values |
| `ReadTop`, `ReadTest`, `Receive`, `ReceiveNone`, `ReceiveFails`, `Wait`, `Release` | `Read` with its spinning and its wait |
| `WriteTop`, `Allocate`, `Send` | `Write` |
| `Add`, `Load`, `Swap`, `StoreStart`, `StoreCurrent`, `StoreCount`, `StoreChanging` | `update` |
| `buf`, `frame`, `ReadUtun`, `WriteUtun` | `tunReadCloser` on macOS with its two buffers |
| `count`, `late` | history: packets so far; calls on the session after its end |

Assumed of Wintun and Windows, from how the code uses them: an adapter outlives the
process; `OpenAdapter` fails only if there is no adapter of that name made by this
program; a wait resets the event; a call on a session that has ended may return
anything. A packet is the unit of the rate. The comment on `NewTUN` in
`tun_windows.go` says of an existing interface that "it is reused"; the code deletes
it and makes another, and so does the model.

### LazyDLL

`LazyDLL` models how the Wintun driver library is loaded on the first call
(`wintun/dll_windows.go`, `dll_fromfile_windows.go`; the variant
`dll_fromrsrc_windows.go` takes the same steps around another way of loading).
`module`, `dllMu`, `procMu`, `addr` are the fields of `lazyDLL` and `lazyProc`. A
frame is one activation of `lazyProc.Addr`: a goroutine's own call, or the one
that `setupLogger` makes inside `Load`. `FindFast`, `FindLock`, `Resolve`,
`FindUnlock` are `Find`; `LoadFast`, `LoadLock`, `LoadLibrary`, `StoreModule`,
`OnLoad`, `LoadDone` are `Load`; `Fail` is the panic of `Addr`, after which the
process has ended. A mutex and the test that follows it are one step: what is
tested is written only under that mutex.

### MemoryModule

`MemoryModule` models one call of `memmod.LoadLibrary` on a 64-bit build, with Windows
as the environment: `allocated`, `libraries`, `attached` and `rights` are what Windows
and the library know, the other variables are the `Module`. The actions are the stages
of `LoadLibrary` in their order. Each may fail where the code tests for an error and
then goes to `Free`, the deferred cleanup. `attached` is what in the library was told
that it is loaded and not that it goes away again: its TLS callbacks (`ExecuteTLS`),
its entry point (`Attach`). Addresses are small numbers: `WordSize` (2^16),
`RegionSize` (the 4 GB that a `PhysicalAddress` can hold) and `Space` (the modulus of
`uintptr`) divide each other as the real ones do; `PageSize` and `SectionAlignment`
are independent. No block reaches the end of the address space (`Fits`), so the end of
a block does not wrap. `finalizeSections` is a loop in the state: `sectionData` is the
run of sections that share pages so far, `section` how many have been seen,
`FinalizeFirst`, `FinalizeNext` and `FinalizeLast` its rounds. `Dest` is the address
`copySections` keeps of a section: for one with data in the file it is the address
that `VirtualAlloc` returned, which is that of the page. Abstracted: the bytes of a
section, which are copied; the relocation table, which is one absolute pointer and a
type (`Patched` is what `performBaseRelocation` does to the pointer for `LOW`, `HIGH`,
`HIGHLOW` and `DIR64`; a relocation of type `THUMB_MOV32` rewrites instructions, so it
leaves the pointer and may fail); the thunks of an import, which are all found or not.
Images have at least one section; the images of the passing run satisfy `PageAligned`
and `InOrder`, what the file format asks of the sections.

## 3. Runs

| run | instance | shows |
|---|---|---|
| `notifier` | 2 handlers, 1 worker, all capacities 1, 4 ids, relayed data, fair | `TypeOK`, `NoLostWakeup`, `RetrySeesEntry`, `NoticeCrossed`, `NoResurrection`, `OpenTunnelReturns`, `NoticeDealt` |
| `gateway` | 2 peers, one of which moves, 1 handler, 1 worker, capacities 1, 2 ids, relayed data, fair | `Introduced`, `RelayedToPeer`, `UpToDate`, `ImplementsNotifier`, `UDPLoopReturns` |
| `notifier_retries` | 1 handler, 1 worker, 2 ids, fair | violation of `RetriesEnd` |
| `node_stable` | 2 peers, 2 connections, Ping and Pong | `Registered`, `DieClosedOnce`, `EstablishedHeard`, `ImplementsTunnels` |
| `node_service` | 1 peer that either moves, with 2 connections and no packets, or stays, with 1 connection, Ping, Pong, data and 2 overlapping requests; fair | `TypeOK`, `TableLive`, `PendingInFlight`, `SilentCloses`, `SendersReturn` |
| `node_roam_table`, `node_roam_panic`, `node_roam_pong` | 1 peer with 2 addresses, 2 connections, Ping and Pong | violations of `Registered`, `DieClosedOnce`, `EstablishedHeard` |
| `device` | 3 systems, 2 runs, 2 packets, 4 times; 4 packets of 1 to 3 parts on macOS; fair | `OwnInterface`, `OthersKept`, `OneAdapter`, `OneChanger`, `RateBounded`, `FewLateCalls`, `Framed`, `PacketsRead` |
| `lazy_dll` | 3 goroutines, 2 procedures, fair | `LoadInv`, `LoadedOnce`, `ReturnsAddr`, `CallReturns` |
| `memmod` | 5 places in memory, ordinals 0 to 3, fair; 1 layout with 0 or 2 imports, with and without TLS callbacks and entry point, and the relocation types above, one the loader does not support, and none; and 343 choices of 3 sections, placed at alignment units or at pages, with 3 sizes of uninitialized data | `TypeOK`, `NothingLeaked`, `Accounted`, `AddressRecovered`, `RightsKept`, `Relocated`, `LoadReturns` |
| `memmod_unaligned` | 64 choices of 3 sections aligned to half a page | violation of `RightsKept` |

Every property is stated in words above its definition.

Bounds. With capacity 1 every channel is full, and every blocking send blocks, after
one message. Four ids are two OpenTunnel calls, so that a call meets the notifications
of another one. In `gateway` one call is enough: what it meets are heartbeats, which
are not bounded, between any two of its steps; one peer keeps its address so that a
torn address must come from the other. Two connections are enough for a replacement,
for a race between two readers, and for a peer that returns after a timeout.
`MaxRequests` 2 lets a slow request overlap with the next. The connection objects are
interchangeable, and in `node_stable` the two peers together with their addresses:
symmetry sets, used in safety runs only. `node_service` is bounded by a constraint,
because a peer that moves and all the traffic together are too many states for a fair
run: a state is `Quiet`, no packet has come and the peer may move, or `Settled`, the
peer stays and there is traffic of every kind. No action that fairness asks for is
kept from happening by it. The invariants of that run are theorems, which know no such
split; `SilentCloses` and `SendersReturn` are checked within it and no further. The
runs of a node allow deadlock because a panic ends the process.

In `device` the second run finds what the first left; the theorems say that more runs
make no difference. Two packets let
reader and writer update the rate at the same time, and a clock of four values with a
granularity of two lets a period begin, end, and begin again under the other
goroutine's older time. The macOS packets hold a long one before a short one and one
of unknown version. Deadlock is allowed because a node that is down after its last
run stays down.

Three goroutines in `lazy_dll` give a loader, one that waits for the same procedure
and one that waits for the library through another. Of the five places in memory of
`memmod` two reach across a region, so that the search for a block repeats.
Sections of less than a page, of whole alignment units and of a part of one, with
too much, enough and too little uninitialized data, make every way of sharing a
page happen.

Fairness. `Notifier`: a goroutine that can run runs; strong fairness for `mu.Lock()`
(`sync.Mutex` hands the lock to a waiter after 1 ms) and for the cases of the select,
which picks at random among the ready ones; a worker takes the next packet whether or
not the write succeeds. No peer is obliged to acknowledge. `Gateway`: the same, and
the UDP loop goes on with the datagram it has read, with strong fairness where it
waits for `n.mu`; no datagram is obliged to come. `Node`: time passes, the loop
goroutines run, a dial ends one way or the other, and the device writer writes what is
there. A goroutine that waits for room in the device's pipeline has strong fairness:
others may take the room it saw, but the Go runtime serves the senders that wait on a
channel in their order. Nothing is assumed of readers where they decode, of peers or
of the gateway. `Device`: the reading goroutine runs when it can; nothing is assumed
of the writer, the driver or the clock. That it comes back from `serveDev` to the next
`Read`, although it may have to wait for the node's pipeline, is `SendersReturn` of
`Node`. `LazyDLL` and `MemoryModule`: a goroutine that can run runs. Weak fairness is
enough for the locks of `LazyDLL`, since nobody waits for them once the library and
the procedure are there.

Each property of a passing run has a mutant: a changed definition, kept next to
the original and named for the mistake (a peer that keeps its first address, an
entry deleted without the lock, a test dropped), under which TLC finds the property
violated.

## 4. What the violations show

- `RetriesEnd`: `retryPacket.counter` is compared with `MaxRetrySend` and never
  incremented, so a notification to a node that is gone is repeated for ever.
- `Registered`: after an address change the old loop's `handleClosed` deletes the
  table's entry by key, which by then is the new connection. Its Pongs find no
  entry, it is never established, and its traffic goes nowhere until it times
  out and a new request is made.
- `DieClosedOnce`: the keepalive timeout and an address change can both pass the test
  in `close()`; the second `close(c.die)` panics.
- `EstablishedHeard`: a Pong that the reader of the old connection reads marks the
  new connection established, although the new address has not answered.

- `RightsKept`, for an image aligned to less than a page: "Always use position from
  file to support alignments smaller than page size" stands in both branches of
  `copySections`, but only the branch for sections without data follows it in the
  address it keeps. Of a section with data it keeps the address of the page, so
  `finalizeSections` protects as many bytes as the section has from there on, and its
  last page may stay without the rights it asks for. With `PageAligned` images
  the property is checked in `memmod` and proved.

The first needs a peer that is gone, the next three one that moves. With stable
addresses these three hold in `node_stable`. `Registered` and `DieClosedOnce` are then
proved for any number of peers and connections, and so is the refinement of `Tunnels`.
`EstablishedHeard` needs one thing more when there are three peers or more: that a torn
address string does not spell a third peer's address (`TornHarmless`, section 5). With
two peers, as in the run, there is no third.

Three more edges were met that no document of the repository speaks of, so they have
no run. The test for an export's index in `memmod` admits the index one past the table
of functions; the model keeps the test as it is, and nothing in the repository looks
functions up by ordinal. `Free` tells the library of a detach only when its entry point
accepted the attach: TLS callbacks are never told, and neither is an entry point that
refused; `NothingLeaked` therefore speaks of memory and handles only. And two readers
that decode the same type of message at the same time may end the process, with stable
addresses too: `panicked = "read"` is reached in `node_stable`.

## 5. Proofs

TLAPS checks the theorems for every value of the constants that satisfies the
assumption of each module: for `Notifier`, `Gateway` and `Node`, that capacities are
positive, requests name peers, `AddrsOf` is a function into sets of addresses, a peer
with two addresses may also be read as `Torn`, relayed payloads are not notices, a
string torn between two equal addresses is that address, and the distinguished values
are distinct; for `Tun` and `Device`, that the systems are the three known ones, the
granularity is positive and a packet fits the buffer it is read into; for
`MemoryModule`, that the word, the region and the address space divide each other,
blocks begin at pages, the section alignment is even (which `LoadLibrary` tests), and
the numbers in the headers are unsigned. A theorem that needs more says so in its own
hypotheses.

`NotifierProofs`: `TypeCorrect`, `MutexSafe`, `WakeupSafe`, `RetrySafe`,
`NeverResurrected`, `NoticesCross`. The inductive invariant adds two facts to the
properties: a dispatcher that sends holds exactly one packet, and every fresh id is in
the map. `NoLostWakeup` and `RetrySeesEntry` both need `MutexOwner` (proved as
`MutexSafe`): no handler adds an entry and no acknowledgement deletes one while `retry`
ranges over the map. `NeverResurrected` follows from `DOMAIN data \subseteq 1..ackID`,
part of the type invariant. `NoticesCross` assumes that no two peers share an address
and that the two peers of a request differ (`NoSelf`).

`GatewayProofs`: `GatewayImplements`, that every step of the gateway is a step of the
notifier or leaves it alone, so that the theorems above hold in the composed process
(`GatewayWakeup` is one of them); `TableUpToDate`, whose invariant `GInv` says that
every word of every record is that of the latest heartbeat, except the words of one
record that the UDP loop still has to write. `NoticesIntroduce` and `DataReachesPeer`
follow a packet from the table to the socket. `AInv` says of every packet, wherever it
is (in the map, under the range of `retry`, in the queue, in a worker's channel, just
encoded), that it is addressed as the property asks of a datagram; that both words of
a record are from heartbeats of its peer, in whatever mixture; and that a handler
works for two peers of the table, which differ if requests name different peers:
`NoticesIntroduce` assumes `NoSelf`, the other theorems do not. A record is never
removed, so what a handler found there stays.

`NodeProofs`: `TypeCorrect`, `TableSafe`, `PendingSafe`, for peers that move as they
like and readers that race. Only `DialOK` and
`HandleClosed` touch the table and the life of a connection; lemma `QuietStep` says
so once, and each proof deals with these two actions.

`StableRegistered` and `StableClosesOnce` assume `StableAddresses`, one address per
peer. The invariant `SInv` says that every connection whose loop has not ended is
the table's entry of its peer, that it goes to an address of that peer, that
schedule dials only for a peer without an entry and never closes, and that a loop
about to close `die` finds it open. The assumption is needed: `node_roam_table` and
`node_roam_panic` show what happens without it.

`StableEstablishedHeard` assumes in addition `TornHarmless`: a torn address string is
the address of one of the two peers whose strings were mixed, or of nobody. That is so
if all virtual addresses are written with the same number of characters, or if there
are only two peers; with a third whose address is a beginning of another's it need not
be. Besides the property, `HInv` needs that the message all readers share names only a
peer whose address has answered (or nobody), and that the connection a reader is about
to mark established goes to such an address. `SeenHeard` carries this over the data
race: whatever a reader sees in the shared message was written by readers of a Pong. A
reader that sees a string without bytes ends the process, and establishes nothing.

`TunnelProofs`: `StableImplements`, the refinement of `Tunnels` under the same
assumption. Every action but `DialOK` and `HandleClosed` changes at most one connection,
and `Gentle` says how: it may be established or closed, not both at once, and neither is
undone. With `SInv` the connection that changes is the table's entry of one peer, so
one tunnel moves. `DialOK` begins a tunnel where there is none, and `HandleClosed` ends
one that is closing, because a loop leaves its select only after `die` was closed.

`DeviceProofs`, about the interface: `InterfaceOwned`, `ForeignKept`, `AdapterSingle`,
for any number of runs. `TunInv` says for each step whether this run has its interface
and has set its address. For `OneAdapter` it says in addition that without a foreign
interface the only adapter has the name `OpenAdapter` looks for, so that the next run
finds and deletes it, and that there is none when the next one is made. About the
goroutines: `ChangersExclude`, `LateCallsFew`, `RateIsBounded`, for any number of packets
and ticks. `ChangeInv` pairs `rate.changing` with the goroutine between its swap and its
last store. `LateInv` counts the calls a goroutine has left: one that is about to make
its first call tested the flag before it was set, and the session ends only after the
flag is set (`EndsClosed`). `RateInv` is an account of the packets: those in the ring,
those read or written but not yet added, and `nextByteCount` are together at most
`count`, so no total exceeds it, and lemma `Estimate` bounds the quotient because the
period, wrapped around or not, is at least the granularity. `FramesWhole` is about the
two reused buffers of the macOS device: `FrameInv` says of them only that they hold
bytes, any leftovers of earlier packets, and the lemmas `ResizeFits` and `FillValues`
that a call makes them long enough and overwrites all that it then hands on.

`LazyDLLProofs`: `LoadSafe`, `LoadOnce`, `AddrReturned`, for any goroutines and
procedures. `LoadInv` is inductive as it stands. It pairs each mutex with the steps
inside its critical section; that the library is loaded once needs in addition
that `module` is false while a frame is loading, and that the nested call never
waits needs that it runs only after `module` was stored.

`MemoryModuleProofs`: `ModuleAccounts`, `FailureReleases`, for any images and places.
They are about memory and library handles, and say nothing of what the library did
when it was told of the attach. `HoldInv` adds that there is no block before the first
allocation and one during the search; `NothingLeaked` follows because `Free` subtracts
exactly what `Accounted` says is held. `ModuleTypes` is the type invariant, with the
ranges of 32-bit and 64-bit numbers. `PointersRelocated` and `AddressesRecovered` (the
latter for `PageAligned` images) share `AddrInv`: an accepted image keeps its block
below the end of the address space and, once the 4 GB test has passed, inside one
region; then the low half of a section's address with the high half of the image's is
the address, and the difference added to the whole pointer (`DIR64`) cancels although
it wraps around. `SectionsKeepRights` (for `PageAligned` and `InOrder` images, of any
number of sections) has the loop invariant of `finalizeSections`: there is a section
`lo` at which the current run begins, such that those before it are done for good, the
run covers and grants everything from `lo` on that has been seen, and the pages of all
sections from `lo` on are untouched (`RunFrom`). That a finished run touches no page
of a later section is `Disjoint`: the test for sharing fails only when the run ends at
or before the alignment unit in which the next section begins.

Only model-checked: the liveness properties (`OpenTunnelReturns`, `NoticeDealt`,
`UDPLoopReturns`, `SilentCloses`, `SendersReturn`, `PacketsRead`, `CallReturns`,
`LoadReturns`), since fairness is outside what the prover handles. Every other
property of a passing run is the statement of a theorem.

## 6. Not modelled

- The bytes of messages and the generated code in `message/`; of the codec only the
  choice of the type byte is modelled.
- The encoding of API requests and responses, the HTTP middleware, which turns errors
  into status codes, and the version test, which only refuses requests.
- The node's heartbeat timer: the gateway model lets a heartbeat come at any time.
- `Node.Stop`, which runs only after `Serve` has returned: `schedule` never returns while
  its context lives, so that is after a failed start.
- The Wintun wrappers nobody calls (`DeleteMatchingAdapters`, `DeleteDriver`, `SetName`,
  `LUID`, `RunningVersion`) and the marshalling in the others, the resource lookups and
  the tables of constants and declarations of `memmod`.
- Flags, logging, version strings, and the random nonces, which no code reads.
- A network between several nodes: each model has the other side as its environment,
  which may send anything a peer or the gateway could, at any time.
