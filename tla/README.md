# microtun in TLA+

microtun is a WireGuard-compatible VPN for microcontrollers and hosts. A
sans-IO engine (`Core` in `microtun-core`) holds peers, sessions, routes and
timers; a runner (`microtun-std`, `microtun-embassy`) moves datagrams and
packets; peers the engine does not know are looked up at a tracker over
JSON-RPC on a WebSocket and installed while there is room for them. Around it
live serial and telnet consoles, YMODEM transfers, MCUboot images and the
firmware of three boards.

This directory holds TLA+ models of that program, the TLC configurations that
check them on small instances, and TLAPS proofs. Every definition that models
code is listed in `PROJECT.json` ("map") with the lines it stands for; the map
covers about 30% of the implementation's lines, the rest being codecs,
parsing, board set-up and user interface.

## Parts of the system and the modules that model them

The engine calls nobody: it returns datagrams, packets, lookups and releases
to the runner, which queues lookups and releases (`ResolveRequested`,
`PeerEvicted`) for the resolver task and feeds its events back. The resolver
task owns one connection to the tracker and makes one call at a time. The
tracker is an engine itself, with a TCP stack inside its tunnel.

`Optional` declares the constant `None` that stands for Rust's `None` in most
modules.

### The engine

| module | code | state and actions |
|---|---|---|
| `ReplayWindow`, implements `AntiReplay` | `replay.rs` | the ring of words (`bitmap`, `top`) and `check_and_update`; `AntiReplay` is the exact sliding window over the set of accepted counters |
| `SessionTable` | `lib.rs`, `peer.rs`, `session.rs`, `session_index.rs` | one engine's pool: slots, the links `current`, `previous`, `next`, `handshake` of each peer, the map from receiver indices, the peer table (`occupant`) and the packets parked for a handshake. One action per handler. A handler changes the pool several times, so operators map a table to the set of tables the code can leave behind. `crossed` records every pair (key a packet was meant for, key it was sealed under) that differs |
| `Handshake` | `lib.rs`, `noise.rs` | two engines, each the only peer of the other, and the datagrams between them. A session is named by the initiation and the response that made it: equal names are equal keys. Datagrams stay in `net` and may be delivered again, in any order; a transport message is taken once, which is what `ReplayWindow` is about |
| `CookieGate` | `cookie.rs`, the load gate in `lib.rs` | challenge, cookie reply, second MAC and renewal of the secret at both ends; the sender may move to another address |
| `Timers` | `lib.rs` (`TimerCache`, `scan_deadlines`, `poll_at`) | every deadline, the cached bound, and for each handler the deadlines it sets and clears and what it tells the cache |
| `RateLimiter`, implements `Budgets` | `rate.rs` | buckets refilled when looked at, in a bounded table by source, and the eviction budget; `Budgets` refills at every tick |
| `Resolver` | `resolver.rs`, `pending.rs` | resolve table, negative markers, parked packets and initiations, reconcile backlog, ghosts, admission and eviction. The resolver is external and answers anything, at any time, or never |
| `PrefixTrie`, `RouteTable`, implements `RouteCache` | `prefix_trie.rs`, `routing.rs` | the compressed trie in its node pool, claims in stable slots over it; `RouteCache` is the list of owners of every prefix, oldest first |
| `Firewall` | `firewall.rs` | the flow table with its counts, outbound and inbound packets, expiry, fair eviction and the related ICMP rule |

### Records and their synchronisation

| module | code | state and actions |
|---|---|---|
| `PeerSync` | std `resolver.rs`, `runner.rs`, `microtun-api`, tracker `rpc.rs` | the engine reduced to what it holds and asks, the runner's queues, the resolver task, the connection and the tracker's keyed subscription, composed. Records are version numbers; each read, served request and notification is a step |
| `EmbassySync` | embassy `resolver.rs`, `runner.rs` | the same on a device: bounded channels, a bounded set of desired keys, one task that opens, reconciles, serves and loses the session |
| `TrackerRegistry` | tracker `registry.rs`, `config.rs`, `resolver.rs` | reload, endpoint reports, relay rules, the keyed dispatcher, the bounded broadcast and the tracker's own resolver |
| `TrackerAdmission` | tracker `rpc.rs` | permits, the usage table and reloads between the two reads of a connection |
| `TrackerNet` | tracker `net.rs` | listeners, attribution of an accepted stream by its SYN, the bounded list behind it. smoltcp is external |

### Streams, services and devices

| module | code | state and actions |
|---|---|---|
| `WebSocket` | `microtun-ws` | reader and notifier of a server over one socket; masked, fragmented, interleaved frames out of short reads |
| `Ymodem` | `microtun-ymodem` | sender and receiver over a line that delays, loses and mangles; block numbers wrap |
| `TelnetOptions`, `TelnetFraming` | `microtun-telnet`, the shell of `microtun-cli` | RFC 1143 negotiation of client and both servers with the COM-PORT messages; escaping and its decoder |
| `SerialBridge` | `rfc2217.rs` of the dongle | TCP session and UART under flow control in each direction |
| `SerialDevice`, `CuseSession` | `serial/device`, `serial/cuse` | the virtual port with its blocked requests and three threads; the life of a CUSE session, its replies and handles. libfuse and the kernel are external |
| `DhcpLeases` | `dhcp.rs` | the lease table and hosts that follow RFC 2131, lose packets, start over and choose another server |
| `ImageVerifier`, `FlashSink` | `microtun-mcuboot`, `firmware.rs` of the boards | the streaming verifier under every chunking; the sinks that erase ahead and program a slot |
| `EspUpdate`, `Stm32Update` | `firmware.rs`, `storage.rs`, `main.rs` of the boards | otadata, slots, trial, confirmation and rollback across power loss; the swap of Embassy Boot. The bootloaders are external. The two ESP boards share the code; a definition is mapped to one of them |

Simplifications that are more than a smaller instance: in `Handshake` a refusal
for load or for rate is a datagram lost, sessions age independently of each
other, and a restarted engine's clock has moved on, as `timestamp` takes it
from the wall clock; in `Resolver` and `CookieGate` a deadline is a flag that
time may set, or an age up to its limit; in `PeerSync` the notifier takes a key
and writes it in one step, and negative caching is not there (more lookups, not
fewer); in `ImageVerifier` a digest is the sequence it is the digest of.

## Runs

Parts that share no state are checked together by one MC module: the initial
state chooses a `part`, and a behaviour exercises that part and leaves the
others in their initial states, so that the state spaces add up. A property of
one part is checked in all its behaviours.

| run | parts and instance | shows |
|---|---|---|
| `tables` | ring of 3 words of 2 bits, counters 0..8; 5 overlapping prefixes of 2 peers, 3 routes; 3 flows of 3 peers, 2 each; 2 buckets for 4 sources; all timers with small intervals; 3 session slots, 2 peer entries, 3 keys, one pinned relay | `ImplementsAntiReplay`, `RoutesExact`, `ImplementsRouteCache`, `Pinholes`, `SharedFairly`, `ImplementsBudgets`, `NeverLate`, `TablesAgree`, `RightPeer`, `PinnedKept`. The counters cross the whole ring, routes, flows and buckets reach their limits, and one peer can use all three slots, so that two peers compete |
| `handshake` | 2 nodes with persistent keepalive, 2 initiations and 2 responses each, 3 events, any network; the gate with 2 addresses and one responder under load; a resolver of 2 keys, 1 address, 3 identifiers and a table of 2 | `DataHasReader`, `SessionAgreed`, `AddressProofIsFresh`, `LookupsOwned`, `AdmissionKept`. Two initiations are what a stale response or a simultaneous start needs |
| `live` | the same parts with a prompt network and 4 events, a resolver of 1 key and 1 address, and the synchronisation of 1 record reached two ways, with one change and one fault | `Heals`, `Quiesces`, `LookupsSettle`, `GetsThrough`, `StaleIsReconciled`, and `StaysInStep` for that instance |
| `peer_sync` | host: 2 keys, table and queue of 1, removals, refusals, one fault; device: 3 remotes, table of 2, channels of 2, one fault | `StaysInStep`, `AnsweredAndFresh` |
| `services` | the registry with its own tunnel, the registry with 2 connections, admission of 2 peers over 3 reloads, the TCP stack, 2 DHCP hosts for 2 addresses, 2 opens and one other CUSE request | `ChangesReachHolders`, `RelaysServed`, `NeverLockedOut`, `StreamsAttributed`, `LeasesExclusive`, `TornDownCleanly` |
| `streams` | the ten parts that carry bytes | `EndsAgree`, `FramingTransparent`, `FlowControlled`, `NobodyForgotten`, `LikeLocalPort`, `CarriesMessages`, `FileIntact`, `OnlyReleases`, `SinkFaithful`, `SafeWhileSelected`, `SafeSwap` |
| `resolver_parked_initiation`, `held_is_remembered`, `held_is_watched`, `cuse_stop`, `xoff_behind_error`, `esp_power_fail` | the smallest instance that shows it | violations, see Findings |

`ImplementsRouteCache` is the refinement, and says more of `replace_dynamic_route`,
which takes the old route out before it enters the new one: it ends with the old
route or with the new one, never between the two, and takes at most one other
peer's route for it.

Bounds are named in the modules: `MaxEvents` (packets, keepalives, losses,
restarts and aging of `Handshake`), `MaxVersion` and `MaxPublished` (registry
changes), `MaxFaults` and `MaxLinkFaults` (lost connections), `MaxLosses` and
`MaxResets` (power losses), `MaxEdits`, `MaxReloads`, `MaxExchanges`,
`MaxRequests`, `MaxCalls`, `MaxFrames` and so on. They are large enough for
each table to fill, each counter to wrap (YMODEM counts modulo 5 over six
blocks) and each fault to meet each phase, and every action of every module is
taken in some run. Queues overflow too, with one exception: the notifications
that wait in a device's session (`EmbassySync`) would need more publications
than TLC can explore, so that the code's overflow flag is modelled and never
set in a run. In `Ymodem` the code's 16 retries and 256
block numbers become 1 and 5: a transfer is safe while the units that are lost,
on top of the retries, are too few for a whole lap of the numbers, that is while
`MaxRetries + MaxMangled < Modulus - 1` (`FewLosses` of the proof), which the run
satisfies and the code's numbers satisfy up to 238 losses in one transfer. Symmetry is used for runs without liveness only. The view of
`MCTables` leaves out which unused receiver index a slot was given.

The instances may stop: their packets, changes and faults are used up, two
idle engines are silent, a service has ended.

### Fairness

- `Handshake!Fairness`: the runner reads its socket and calls `handle_timeout`
  when a deadline has passed. The run sets `Timely`: every datagram arrives or
  is lost before the next timer fires, and the passive keepalive (10 s) of an
  end that received data fires before the missing-reply timer (15 s) of the end
  that sent it. That is the constants' own ordering with a round trip below
  five seconds; without it a late answer can always start one more handshake.
  `Heals` starts when the bounded events are over: a restart in the middle
  clears the very timer that would have noticed, until the next packet.
- `Resolver!ResolverFairness`: time passes and the runner calls
  `handle_timeout`; both runners wait on `poll_at`. Nothing is assumed of the
  resolver.
- `CookieGate!GateFairness`: the initiator retransmits, time passes, datagrams
  are received. The run sets `Prompt`: a reply is read before its cookie is
  old.
- `PeerSync!Fairness`: the runner's and the resolver's loops and the tracker's
  connection task run whenever they can; nothing is assumed of users, of the
  registry or of faults.
- `CuseSession!CuseFairSpec`: the loop, the stopping thread and the threads
  that send replies run; nothing is assumed of the kernel's requests.

## Findings

Six runs state what a comment or a document of the repository says and are
violated:

- `ParkedInitiationHasLookup` (`resolver_parked_initiation`): withdrawing a
  held key drops a live lookup for it and strands the initiation parked behind
  it (core `resolver.rs:1605`), while `resolved_install` says that every
  completion releases it exactly once.
- `HeldIsRemembered` (`held_is_remembered`): the device's set of desired keys
  is full of keys whose Forget is still queued, and a key the engine holds is
  not remembered (`remember_desired`, embassy `resolver.rs`).
- `HeldIsWatched` (`held_is_watched`): on the host, a record that is removed
  between a lookup by address and the watch that follows it ends the watch of
  its key, and the answer, which is one to the address, leaves the record the
  engine holds by an earlier lookup (std `resolver.rs:315`). The API document
  has the client watch "the peer keys it retains" (`microtun-peers-api.md:779`,
  and line 670). A Forget decided for an earlier answer can do the same
  (`resolver.rs:364`). `StaysInStep` is checked where a key is reached in one
  way or is never removed.
- `StopEnds` (`cuse_stop`): the one signal of `stop` may arrive between the
  loop's look at the exit flag and its `read(2)`, and shutdown then waits for
  the kernel's next request (`cuse/mod.rs:430`).
- `XoffHonoured` (`xoff_behind_error`): `FlowRuntime` has data "wait until the
  device sends XON" and `uart_write_all` promises "at most one burst" after a
  stop (`rfc2217.rs:180`, `:554`). A byte with a line error hides the XOFF
  behind it from `drain_uart_ready`, and ends `wait_for_xon` as well, so one
  burst per error may follow; and a client that sets software flow control
  again clears `tx_paused_by_peer`. `FlowControlled` states what is left: the
  burst under way and one for each error, until the client sets it again.
- `PowerFailSafe` (`esp_power_fail`): after a rollback the bootloader runs the
  other slot than the one otadata selects, and `prime_next_ota_state` takes the
  entry of the running image for the free one. Power lost between its erase and
  its write leaves no entry to select, and `ota_0` boots to stay although it
  never passed a trial, while `partitions.csv:4` has the inactive slot "used for
  power-fail-safe shell OTA". `SafeWhileSelected` is what does hold.

### Observations

What else the models showed on the way; the properties are stated so as to
allow these cases. Where a comment bears on one, it is quoted.

- Core: a reconciliation that could not be completed is dropped when the
  backlog is full of keys no longer held (`resolver.rs:682`). The list of
  evictions of a build without `alloc` is bounded (`resolver.rs:1564`), as are
  the device's pending Forgets (embassy `runner.rs:163`): a Forget dropped
  there leaves one watch too many.
- Device resolver: the overflow flag of the notifications is examined once per
  round, so `AnsweredAndFresh` speaks of states in which it is clear.
- Tracker: between its admission and its count a connection reads a second
  snapshot of the registry, and may then serve without being counted
  (`rpc.rs:727`). A listener that leaves Listen by another way than
  Established is not replaced: the comment in `harvest_accepts` says "replace the
  listeners they consumed" (`net.rs:416`) and means the established ones only.
  `StreamsAttributed` therefore counts as many listening sockets as the backlog,
  dead ones among them. A stream is attributed to
  the owner its address had when the SYN passed, although the address may have
  been given to another peer before the accept. The tracker's own tunnel may
  lag; what it missed is then looked up again.
- WebSocket: the reader's connection and the notifier's sender each have their
  own `closed` flag.
- Serial: a modem-state change while transmission is suspended is
  not notified after the resume; a late confirmation overwrites a newer local
  setting in `cuse_device`; setting the outbound flow control also changes the
  inbound one at the server while only the outbound is confirmed; `ioctl` does
  not look at `stopping`; `select!` in `device.rs` cancels `next_event` while
  it writes.
- YMODEM: a stale `C` ends a transfer with a protocol error. Late answers let
  the sender run ahead of the receiver, and only the numbers tell: when nearly
  a whole lap of blocks is lost in one transfer, a later block is taken for the
  one expected. `FileIntact` fails in the model with three losses and numbers
  modulo 4; with 256 numbers that takes more than 238.
- Updates: a flash error in `prepare_firmware_ota` gives up the trial, and an
  activation that failed half-way leaves otadata selecting the slot that does
  not run, as a rollback does; `SafeWhileSelected` excludes the boots after the
  first (`failed`) and the updates that begin after the second (`astray`). A
  trial waits for the network without a limit. Of the configuration record the
  model has whether it can be read, and that a trial without it resets; what a
  torn record decodes to is the codec's and is left out.
- DHCP: leases do not expire and are forgotten by a reboot; a client
  identifier is cut to 16 bytes, and `DhcpAssumption` says hosts still differ.

## Proofs

What TLAPS checks holds for every value of the constants that satisfies the
`ASSUME`s of the modules: sizes are natural numbers (positive where the code
divides by them or indexes with them), `None` is not a value of the type it is
added to, `Other` pairs the nodes, relays are keys, hosts have different client
keys, images have names, and the tracker starts with a configuration it can
use. TLC evaluates each `ASSUME` in the runs. The bounds on steps (`MaxEvents`
and the like) are constants too, so the theorems hold for any number of steps.
The modules are grouped by subject:

| module | theorems | inductive invariant |
|---|---|---|
| `SessionTable_proofs` | `SpecTypeOK`, `SpecTablesAgree`, `SpecRightPeer`, `SpecPinnedKept` | `Inv`: types, links, owners, index map, packets sealed and parked for the owner |
| `Protocols_proofs` | `SpecTypeOK`, `SpecDataHasReader`, `SpecSessionAgreed`, `SpecFileIntact` | `IInv`: both ends have derived a session outside `next`, and the sender of a message its keys; `AgreeInv`: a response to the newest initiation offers what still waits at the responder; `YmodemInv`: the blocks on the wire are in order, without gaps and within reach |
| `Tables_proofs` | `SpecRingFaithful`, `SpecImplementsAntiReplay`, `SpecPinholes`, `SpecSharedFairly` | `ReplayInv`: each word holds exactly the accepted counters of its block; `FwInv`: one entry per flow, counts exact and below their limits |
| `Clocks_proofs` | `SpecAddressProofIsFresh`, `SpecNeverLate`, `SpecImplementsBudgets` | `GateInv`, `TimersInv`, `RateInv` |
| `Resolver_proofs` | `SpecLookupsOwned`, `SpecAdmissionKept` | `ResolverInv`: entries told apart by identifier and question, nothing parked without its lookup, bounds, ghosts outside the table |
| `Registry_proofs` | `SpecRelaysServed` | `FromDocument`: what is published comes as a whole from one accepted document |
| `Services_proofs` | `SpecNeverLockedOut`, `SpecTornDownCleanly`, `SpecLeasesExclusive` | `AdmissionInv`, `CuseInv`, `DhcpInv` |
| `Updates_proofs` | `SpecSafeSwap`, `SpecSafeWhileSelected`, `SpecSinkFaithful` | `StmInv`, `EspInv`, `SinkInv` |

How the arguments go:

- **Session pool.** A handler trusts the owner written in a slot, the link that
  leads to it and the index that finds it at once, so none of the parts is
  inductive alone. `TableOK` is the part about one table; there is one lemma
  per operator on tables (free, allocate, begin, seal, relay, rotate, respond,
  complete) saying that it keeps `TableOK`, and each action is a composition of
  those. `PinnedKept` is an action property from the same invariant.
- **Handshake.** Whether a message has a reader depends on how its session
  became current: a response proves that the responder has the keys, and data
  received in `next` that the initiator has them. For `SessionAgreed` the
  invariant relates every response on the network to the responder's `next`
  generation: a response to the newest initiation is of the session that waits
  there, unless the initiator took it already or it was lost by a restart or by
  age; an accepted initiation that would replace it is always a newer one.
- **Replay ring, budgets.** Refinements: the steps of `ReplayWindow` are steps
  of `AntiReplay`, those of `RateLimiter` steps of `Budgets` with the buckets
  as they would be if refilled by now. Both rest on division with remainder.
- **Cookies.** A cookie proves an address no earlier than its secret was drawn.
  The invariant says so of every cookie there is, on its way or kept, for every
  secret still in use; the gate renews the secret before it compares.
- **Timers.** The bound is below every deadline, also below the attempt
  deadline that does not count yet, which exists only while a handshake runs.
- **Firewall.** The counts decide who is over quota and whose flow goes, so
  they must be those of the table through expiry, replacement and eviction.
  `Pinholes` and `SharedFairly` contain action properties, which follow from the
  invariant and the choice of the victim.
- **Lookups.** Each operation on the engine's tables is shown to keep `CoreOK`;
  a handler is a composition (expiry, completion, admission, eviction, and the
  lookups that follow). The reserve in `AdmissionKept` compares the free entries
  before and after each answer.
- **Leases.** Beside the table, the invariant speaks of the one packet and the
  replies under way: an acknowledgement the host would still believe names the
  lease the table has, since a newer request of the host has a newer
  transaction.
- **CUSE session.** The order of the phases of `finish` against the loop, the
  liveness flag and its read lock, and for each handle where it is registered.
- **Updates.** For each stage of a boot and each half of an otadata write, what
  the next boot would find: while one entry is erased the other selects a proven
  image. That needs the running slot to be the selected one when an update
  begins, which is the exception `SafeWhileSelected` makes. `SinkInv` says cell by cell what the slot holds: what was accepted up
  to the last whole word, blank up to where it was erased, old contents beyond.
- **File transfer.** Late answers let the sender run ahead, so that blocks are on
  the wire the receiver does not expect yet. They are in order and without gaps,
  since units are lost at the head of the wire only, and the first is ahead of
  what is written by no more than one and the units lost and refused so far;
  `FewLosses` makes that less than the numbers there are, so the number tells
  which block it is. The other half is the sender's: it passes the second
  request for a file (`C`) only when the file is whole, because until then the
  receiver sends exactly one behind its first answer.

### Only model-checked

- Liveness (`Heals`, `Quiesces`, `LookupsSettle`, `GetsThrough`,
  `StaleIsReconciled`): the prover has no fairness.
- What rests on recursive definitions (`RoutesExact`, `ImplementsRouteCache`,
  `EndsAgree`, `FlowControlled`, `NobodyForgotten`, `LikeLocalPort`,
  `CarriesMessages`) or on folds over sequences (`StreamsAttributed`,
  `FramingTransparent`, `ChangesReachHolders`): what a recursion computes for
  every input needs an induction the provers cannot instantiate.
- `StaysInStep`, `AnsweredAndFresh` and `OnlyReleases` are within reach in
  principle and not proved. The first two need the place of every lookup and
  record through two tasks and their queues, the third a description of all
  containers.
- That `EmbassySync` and `PeerSync` treat one tracker alike is by construction;
  there is no refinement between them.

## Not modelled

Cryptography (a ciphertext opens under the key it was sealed with, and only
there), text and wire codecs (the HTTP upgrade, JSON, DNS and ICMP formats,
relay frames, configuration text), line editing and command parsing, operating
system and board set-up, UART registers and the layouts of ioctls, and roaming
of an established session. `PROJECT.json` ("components") says so part by part.
