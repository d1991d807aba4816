# capns-go: a verification of its protocol, planner and caches

capns-go connects an engine with *cartridges*, external processes that offer
capabilities (*caps*, named by URNs). The engine plans a chain of caps and executes
it over *bifaci*, a frame protocol that multiplexes requests and streams:

    search -> plan -> execute              (planner/, machine/, orchestrator/; caps from cap/, cartridge_repo)
                         |
    engine -> RelaySwitch -> (socket) -> relay slave -> CartridgeHost -> (pipe) -> CartridgeRuntime
                  |  one master per host                     |  many cartridges          |  a goroutine per request

A request is the frames REQ, (STREAM_START, CHUNK*, STREAM_END)*, END; its
response has the same form without the REQ, or is an ERR. A cartridge that serves
a request may issue requests of its own (*peer requests*), which take the way back
up to the switch and down again.

This directory holds TLA+ models of the components, the TLC runs that check them
and the TLAPS proofs about them. Paths below are relative to `src/`.

## 1. Inventory

### Components with concurrent state (`bifaci/`)

**Frame ordering** (`frame.go`: `SeqAssigner`, `ReorderBuffer`; `cartridge_runtime.go`:
`syncFrameWriter`). State: a counter per flow (request id and routing id) on the
sending side; the expected number and a bounded buffer per flow on the receiving
one. Operations: assign and write, remove after a terminal frame; accept, clean up.
Hard: reordering, duplication, failed writes, the limit of the buffer, frames after
the end. Correct when each flow is delivered in order, completely, once.

**Relay switch** (`relay_switch.go`). State: the masters with what they announced and
whether they are healthy, the routing table of requests, the set of peer requests,
the cap table, and three aggregates (installed cartridges, their byte snapshot,
limits). One mutex guards all. The engine calls `SendToMaster`, `CancelRequest` and
`ReadFromMasters`; one reader goroutine per master feeds the channel `frameRx`.
Hard: deaths between the frames of a request, tables changed by notifications
during a request, cancellations that race with answers, peer requests in the same
table as engine requests. Correct when requests stay with their master, answers
reach who asked, nothing is routed to the dead, and the tables say what the
healthy masters announced.

**Cartridge host** (`host.go`). State: the list of cartridges (registered or attached;
running, failed), the cap table, `incomingRxids` (request body -> handler) and
`outgoingRids` (peer request -> requester), a bounded channel per cartridge. `Run`
handles one event at a time; a reader and a writer goroutine per process. Hard:
death and respawn of a process with frames under way, a dropped frame on a full
channel, a writer that stops while its process runs, peer requests routed back to the host they came from. Correct when every
frame reaches the process it is meant for and every request is answered.

**Cartridge runtime** (`cartridge_runtime.go`). State: the requests whose bodies are
being collected, the peer requests that wait for responses, bounded channels
between the read loop, the feeders and the handlers. Hard: interleaved streams,
malformed bodies, blocking channels, handlers that stop reading, end of stdin.
Correct when a handler sees what was sent, a request is answered once with a whole
stream, and the loop never stops.

**Relay link** (`relay.go`). State: the two pumps of `RelaySlave.Run`, the resource state,
and on the engine's side the manifest and limits of a `RelayMaster`. RELAY_STATE goes
down and RELAY_NOTIFY up, each taken out of the stream it travels in. Hard: ends that
leave at any byte, frames the decoder refuses, notifications written by another part of
the process. Correct when everything else arrives in order, once, and an announcement
is known before the frames behind it.

**Handshake and limits** (`io.go`, `limits.go`), **frame codec** (`codec.go`,
`frame_helpers.go`). State: the limits of either side; the frames of a stream. Hard:
peers that leave limits out, limits that do not fit together, a stream that ends within
a frame. Correct when both sides work with the same limits and a collector never
reports half a stream as a whole one.

**Cap registry** (`cap/registry.go`): definitions in memory, in files shared by all
processes of a user, and on a server. Hard: files written in place, crashes within a
write, expiry, a clear while a fetch is under way. **Cartridge repositories**
(`bifaci/cartridge_repo.go`): manifests by repository with an index by cap. Hard:
overlapping syncs, unusable manifests. Correct when a cache never answers what was not
published, forgets what it was told to, and its index agrees with its content.

### Sequential components

**URNs** (`urn/`): the relations that decide dispatch. **Live cap fabric**
(`planner/live_cap_fab.go`): reachability and an iterative-deepening search in the graph
of caps, with ForEach edges made up where a sequence meets a cap for single items.
**Plans** (`planner/plan.go`, `plan_builder.go`): a graph of nodes made from a path,
topological order, the cutting in prefix, body and suffix of a ForEach. **Executor**
(`planner/executor.go`, `argument_binding.go`): node by node, with failures. **Machine
notation** (`machine/`): text to strands in canonical form, equivalence, and back.
**Orchestrator** (`orchestrator/`): machines and plans to graphs for execution. Hard in
all of them: several walks over the same structure that must agree, positions and names
made in one place and used in another, ties. **Cap definitions and validation** (`cap/`),
**media registry** (`media/`), manifests and metadata, input filters, standard caps,
examples: checks and conversions of data.

### Interactions

The runtime numbers what it writes with `SeqAssigner`. Host and switch do not use
`ReorderBuffer`: they rely on the order of pipes and sockets. The host stamps
nothing and expects a routing id on all that comes from the relay; the switch of
this repository sets none (section 5). Announcements (`RelayNotify`) carry caps,
installed cartridges and limits from a host to the switch. Search, builder, executor and
converter read cap definitions at different times; each may find other ones.

## 2. Modules

| module | models | state and actions in the code |
|---|---|---|
| `FlowOrder` | frame ordering | `counters`, `flows` are the maps of the code; `WriteFrame` = `Assign` + write + `Remove`; `Receive` = `Accept` and, after a terminal, `CleanupFlow` |
| `OrderedDelivery` | the abstract promise | two growing sequences per flow, the received one a prefix of the sent one; implemented by `FlowOrder` |
| `RelaySwitch` | the switch, its sockets and the masters | `routing` = `requestRouting`, `peerRequests`, `capTable`, `aggregate`, `capabilities`, `limits`; one action per call of the engine and per frame of `ReadFromMasters`, each a whole critical section |
| `CartridgeHost` | the host, its cartridges and the relay's end | the fields of `CartridgeHost` by name; one action per event of `Run` (one critical section), per step of a reader or writer loop, and per thing a process or the relay does |
| `CartridgeRuntime` | a cartridge process | the fields and channels by name; `ReadLoop` with one disjunct per frame type; one action per channel operation or write of a feeder or handler |
| `Wire` | frames on a byte stream | constructors, what the codec loses and refuses, `ReadFrame` and `WriteFrame` at the limits and at the end of a stream, chunking, the four collectors |
| `Handshake` | `HandshakeAccept`, `HandshakeInitiate` | one action per message; a side of this repository and one that may leave limits out |
| `RelayLink` | `RelaySlave.Run`, `RelayMaster` | two pumps that read a frame, hold it, write it; `errCh`; `SendNotify` while `Run` is under way |
| `Link` | the composition of the last three | cartridge, host (reduced to passing frames on), relay and engine over pipes of bounded capacity |
| `CapRegistry` | `cap/registry.go` | a call is lookup, fetch, open and fill of the file, store in memory; a start of a process loads the directory file by file; a clear is memory, files, directory |
| `CartridgeRepo` | `bifaci/cartridge_repo.go` | a sync goes through its list with fetch and `updateCache` as steps; the questions about caps are operators |
| `Caches` | the two caches | next-state relation and properties |
| `Urns` | `urn/` | `ConformsTo`, `Accepts`, `IsDispatchable`, specificity, URNs made from others |
| `LiveCapFab` | the cap graph | `AddCap` one by one, the breadth-first search as an operator, one round of the depth-first search as a step that may be cancelled |
| `MachinePlan` | `planner/plan.go` | plans as records, topological orders, validation, the extraction of parts |
| `PlanBuilder` | `planner/plan_builder.go` | a fold over the steps of a path; the analysis of arguments |
| `PlanExecutor` | `planner/executor.go` | one step per node, caps that disappear, fail or answer null |
| `PlanConverter`, `DagValidation` | `orchestrator/plan_converter.go`, `validation.go` | operators |
| `Planning` | search, builder and executor in sequence | the registry may have lost caps in between |
| `MachineResolver` | `machine/resolve.go`, `graph.go` | source-to-argument matching, canonical order, anchors, equivalence |
| `MachineNotation` | `machine/parser.go` and the serializer | texts as headers and wirings |
| `Orchestrator` | `orchestrator/parser.go` | the graph for execution of a text |
| `Machines` | texts and paths that grow statement by statement | properties of the three modules above |
| `FlowOrder_proofs`, `RelaySwitch_proofs`, `CartridgeHost_proofs`, `CartridgeRuntime_proofs`, `Link_proofs`, `Caches_proofs`, `Urns_proofs`, `NaturalFacts` | theorems and lemmas | section 6 |

`MC*` modules hold the constants of the runs. History variables and ghost fields
(`written`, `target`, `handler`, `hostSent`, `upSent`, `undone`, `forgotten` and so on) are
marked in the modules; no action of the code reads them. Definitions named
`X_Something` before `X` are mutants: wrong versions of `X` that a property is expected to
reject. They are used by no specification.

What is abstracted: a request id, a cap or a stream id is a model value; a payload is
a number or a short sequence; a manifest is a set of caps; a routing id is a flag, since it
is one to one with the request id in what the host is sent. In switch and host a URN
comparison is the constant `SignedDistance`, the result of `IsDispatchable` and of the
difference of specificities; `Urns` has the relations themselves, for media URNs of marker tags
(and `LeastUpperBound` for tags with values).

## 3. Runs

| run | instance | states | shows |
|---|---|---|---|
| `flow_order` | 1 flow, 6 frames, buffer of 2, 2 duplicates, 2 late frames | 1,313,282 | order, nothing twice before `CleanupFlow`, and completeness unless an error is reported |
| `flow_fair` | 2 flows of 4 frames, buffer of 1 | 39,601 | a gap blocks its own flow only; the abstract promise is kept |
| `relay_switch` | 2 masters, 3 kinds of announcement, 1 engine request of 2 answer frames, 1 notification, deaths | 33,996 | routing, the capability snapshot and answers of the engine; a request is answered or its master lost |
| `relay_switch_peer` | the same with 1 peer request and no notification; the engine sends no body frames, but ends and cancels either request | 3,125,160 | answers to peer requests are not taken for answers to the engine, unless the engine removed their entry |
| `host` | 1 engine request, 1 peer request that may be routed back here, 2 cartridges (one spawned on demand), channels of 1 frame, 1 death, 1 writer that stops | 2,624,504 | bodies reach the process that has the REQ, answers the process that asked; broken bodies are answered |
| `host_fair` | 1 request of 2 answer frames, channels of 1 frame, 2 deaths, 1 writer that stops, a heartbeat | 286,204 | every request whose body is sent to its end is answered, in order, with the exceptions that the property names |
| `runtime` | 2 requests in four kinds of scenario: handlers `echo` and `early` with interleaved, unknown and unstarted streams and late chunks; `echo` and none with empty, broken-off, corrupt and duplicate bodies; two peer requests, one response abandoned; a handler that drains its input | 1,426,643 | one terminal per request, which ends a whole stream; a handler sees each stream whole and peer responses in order; no panic without a cause |
| `runtime_fair` | 1 peer handler, 1 that fails, channels of 1, a heartbeat, stdin may close | 28,712 | requests are answered and everything is read |
| `link` | nine setups: a response of 0 to 3 bytes in one or two streams under six pairs of limits, with a cartridge that may die; three engine frames of every type and two notifications with ends that may leave, for a slave that starts with a notification and one that does not; a response among notifications and resource states; pipes of 1 frame | 883,002 | both sides agree on the limits, streams arrive whole, nothing is lost or reordered, announcements keep their place, `Run` returns |
| `caches` | 2 callers of one process and a second process, 2 files, 2 versions, clears, crashes and expiry; 2 overlapping syncs of two repositories, one with unusable manifests | 702,175 | no definition that was not served, none that was cleared, what is in memory is on disk; index and cartridges agree; a bad repository does not stall a good one |
| `planning` | 3 catalogs of 3 or 4 caps (sequences in sequences, a round trip, missing, defaulted and file arguments), 6 pairs of source and target, paths of up to 5 steps, 0 to 2 files, a cap that the registry lost | 201,485 | the search finds every path once and agrees with reachability; every path can be built, cut and converted; the executor reads what is there |
| `machines` | all texts of up to 3 wirings over 4 names, 2 caps each of 4, fan-in of 2 and a loop; all paths of up to 5 steps | 19,512 | what is written is read as the same machine; the order of statements does not matter; the graph has the machine's data flow and no cycle |

*Properties by run* (each is stated in words where it is defined):

- `flow_order` (`MCFlowOrder.cfg`): `TypeOK`, `InOrderDelivery`, `NoSilentLoss`
- `flow_fair` (`MCFlowOrder_fair.cfg`): `HealthyFlowsComplete`, `Ordered`
- `relay_switch` (`MCRelaySwitch.cfg`): `TypeOK`, `RoutesToHealthy`, `SnapshotLagsOneDeath`,
  `RequestKeepsItsMaster`, `EngineGetsItsAnswer`, `AnsweredRequestsAreForgotten`,
  `NothingAfterCancel`, `EngineIsAnswered`
- `relay_switch_peer` (`MCRelaySwitch_peer.cfg`): `PeerAnswersStayInternal`
- `host` (`MCCartridgeHost.cfg`): `BodyReachesItsHandler`, `BrokenBodyIsAnswered`,
  `AnswerReachesItsRequester`
- `host_fair` (`MCCartridgeHost_fair.cfg`): `RequestIsAnswered`
- `runtime` (`MCCartridgeRuntime.cfg`): `AnsweredOnce`, `ResponseIsWhole`,
  `InputIsComplete`, `PanicHasACause`
- `runtime_fair` (`MCCartridgeRuntime_fair.cfg`): `StartedIsAnswered`
- `planning` (`MCPlanning.cfg`): `SearchIsExhaustive`, `PathsAreBuildable`,
  `PartsCoverThePlan`, `ReferencesAreReady`
- `link` (`MCLink.cfg`): `LimitsAgree`, `CollectedStreamsAreWhole`, `NothingIsLost`,
  `AnnouncementsPrecedeFrames`, `RunReturns`
- `caches` (`MCCaches.cfg`): `OnlyServedDefinitions`, `ClearedIsForgotten`,
  `KeptIsSaved`, `AvailableCapsAreSuggested`, `GoodReposAreSynced`
- `machines` (`MCMachines.cfg`): `RoundTrip`, `OrderDoesNotMatter`,
  `GraphFollowsMachine`

*Bounds.* The faults looked for need two requests at the same place (a table entry
and a frame that arrives for another one), two targets (the one that dies and the
one a later frame could go to instead), and channels that can be full with a frame
more to come: hence two masters, cartridges or requests, channels of one or two
frames instead of 64, and responses of one to three frames. The bounds on deaths,
notifications, duplicates and heartbeats allow one of each between any two other
steps, and two where a second one meets what the first left (`host_fair`: a respawn
after a respawn). `MaxFrames = 6` with a buffer of 2 allows for overflow and for a
flow that recovers. In `link` the limits are 1 to 9 bytes around a payload of three, so
that a chunk is less than, equal to and more than the payload and more than a frame. In
`caches` a version is shorter than the one before, so that a file may be overwritten by a
shorter text. In `planning` five steps hold two nested ForEach, their Collect and a cap
behind them; in `machines` three wirings hold a chain, a fan-in, a fork and two strands.
The names of nodes are interchangeable there (no operator of the parser orders
them), hence the symmetry. Deadlock is not checked: every system here may stop when all
bounded requests are done, and a process or a stdin may end.

*Fairness.* Weak fairness of the read loops, reader and writer goroutines
(`ReadFrame`, `HostReadsEvent`, `WriterLoop`, `ReadLoop`, `Feed`, the pumps of
`RelaySlave.Run`, ...): each is a goroutine that the Go scheduler runs, or the engine that
calls `ReadFromMasters` in a loop. Separate conditions per master and per cartridge are
justified as Go serves senders on a channel in arrival order. A process that is alive
answers a request whose END it has received, as the runtime starts a handler only then
(`CartridgeFinishes`; `MasterReply`, `HandlerReturns`), and the host goes on with a
request that it began: these are assumptions on the environment,
without which nothing is ever answered. A sync goes on: its goroutine runs and the HTTP
client has a timeout of 30 seconds (`cartridge_repo.go:621`). In `link` nothing is
assumed of the two ends. Deaths, failed writes, notifications, cancellations and the
closing of stdin have no fairness.

*Properties with exceptions.* `InOrderDelivery` excludes flows with frames after their
end, and allows repeats that arrive after `CleanupFlow`; `RequestIsAnswered` excludes a frame dropped on a full
channel or lost to a writer that has stopped, a death after the end of the body, and
bodies that their requester breaks off with an ERR; `AnswerReachesItsRequester` excludes
handlers that answer before the body has ended; `EngineIsAnswered` excludes lost
masters; `PeerAnswersStayInternal` excludes peer requests that the engine itself ended or
cancelled; `AnsweredOnce` and `InputIsComplete` exclude corrupt chunks; `PanicHasACause` allows the two
panics of section 5; `LimitsAgree` a HELLO with one size only, which counts as one with the
defaults; `ReferencesAreReady` paths with an unknown cap, of which nothing is announced; `ClearedIsForgotten` excludes calls that had fetched when the clear
began, and `KeptIsSaved` files cleared, expired or torn; `RoundTrip` and
`OrderDoesNotMatter` exclude fan-ins whose sources are reordered and ties among anchors
or edges. Each exception is a behaviour of the code that section 5 names.

## 4. Mutants

Each property of a passing run is broken by a mutant of the code it is about, for
example: `Remove` forgotten, a death that keeps routing entries, tables left stale, an
ERR that leaves the peer request registered, a chunk put in the last stream, a limit of
zero taken as it is, a file believed without parsing, a search mark under the wrong
spelling, a ForEach that is not reset. `PROJECT.json` lists them.

## 5. Where the code differs from what it says

These were met while modelling. The models behave as the code does, and the properties
make the exceptions that follow from it.

Frames and the switch:

- `frame.go:611` on: a flow's numbers are called gap-free, increasing, and a duplicate an
  error. A failed write takes a number; a LOG after END starts again at 0; after
  `CleanupFlow` repeats of the flow are handed on again, from seq 0 on
  (`InOrderDelivery` names this exception).
- `relay_switch.go:425`: `Capabilities()` is that of the healthy masters, but after a death
  the snapshot is made before the aggregate (`:834`), in the order that the comment at `:801`
  forbids. It lists the master that died last until the next death or notification, and
  no master that died before (`SnapshotLagsOneDeath`).
- `relay_switch.go:443`: `Limits()` is the minimum over the masters, but a notification
  does not recompute it (`:797`).
- Installs of one id from two registries are merged (`rebuildInstalledCartridges`), and
  cartridges that are not operational are dispatched (`rebuildCapTable`).
- `peerCallParents` is never written, so a cancellation does not cascade (`:476`).
- Frames of a peer request's body come from the requester, are taken for its response
  (`:750`) and sent back to it; and the entry of a peer request is not removed by its answer (`:760`).
- The engine may send END or ERR for a peer request, or cancel it: `SendToMaster` (`:566`) and
  `CancelRequest` (`:463`) take any routed id and remove its entry. What the serving master
  sends afterwards is returned to the engine (`:767`), which never asked.
- No ERR is sent for the requests of a lost master (`:826`), nor to a master whose
  peer request finds no handler (`:730`).

The host:

- `host.go:685`: a death is reported for all pending requests. Not after the END of the
  body, when the request is in no table (`:694`).
- `host.go:733`: a full channel means that the cartridge is "probably dead". Not when
  `writerLoop` has returned on a write error (`:742`), as for a frame above the negotiated
  `max_frame`: the process stays running, its channel fills, what follows is dropped, and
  nobody is told.
- A requester that breaks its body off with ERR makes the host forget the request
  (`:579`); the runtime takes the ERR for that of a peer response and drops it
  (`cartridge_runtime.go:810`), so the request is never answered.
- `host.go:487`: all frames from the relay carry a routing id. This switch stamps none,
  and the first REQ without one ends `Run` (`:490`).
- `host.go:478`: the END of a looped body is said to tell body and response apart. Not
  when the REQ was refused or the handler has died: the END then goes to the requester
  as if it were the response.

The runtime (`cartridge_runtime.go`):

- `:365`: the default handler drains its input and returns. The channel is closed after it
  returns (`:746`), so it never does.
- `:869`: a duplicate stream is refused; and the mutex unlocked twice: the process ends
  (`:878`).
- `:629`: heartbeats are never blocked by handlers. The loop blocks on the full channel of
  a handler that no longer reads its peer response (`:720`).
- `:572`: exit cleanly at the end of stdin. A handler that waits for a peer response
  waits for ever, as its channel is not closed (`:968`).
- `:559`: stream activity after END is fatal. The entry that would tell is gone (`:729`).
- `:579`: error paths carry the routing id. Those of CHUNK, STREAM_START and STREAM_END do not.
- `:48`: the frames of a peer response arrive at its handler "as they arrive from the host".
  A corrupt chunk does not: the loop answers it with an ERR and drops it (`:653`), and the
  handler reads the rest of the stream as a whole one. The checksum test of
  `DemuxPeerResponse` (`:142`) never sees a bad chunk.
- A handler that returns before it has read its input makes its feeder send on a
  closed channel (`:746`).

The link:

- `relay.go:78`: both directions stop when either side closes. `Run` waits for the other
  pump, which nothing stops (`:164`); `RunReturns` needs both ends gone.
- The limits are negotiated as a minimum (`limits.go:23`). A HELLO with one of the two sizes
  only is read as one with all the defaults (`io.go:175`, `:227`), so that the result may exceed
  the size that it has (`LimitsAgree` names this exception).
- An end of file between the length and the body of a frame is reported as a clean end
  (`io.go:53`). The collectors take a channel that closes without END for success, and
  `CollectAllArgs` and `CollectArgsByMediaUrn` drop a stream when another one starts
  before its end.
- `max_chunk` may exceed what fits in a frame after the negotiation: then
  `WriteResponseWithChunking` fails in the middle of a response.
- `is_sequence` and `force_kill` are encoded and never decoded (`codec.go`).
- A frame is written in two calls without a lock: `SendNotify` from another goroutine
  could come between them. The model keeps the two apart.

The caches:

- `saveToCache` writes in place (`registry.go:387`): two writers or a crash leave a file
  that does not parse, in place of a good one, and a loader that finds it while it is
  written removes it. `GetCap` in flight during `ClearCache` puts its definition back.
- `GetCap` keeps definitions under the spelling it was asked for, while `GetCachedCap`
  looks for the canonical one. Memory never expires.
- `EnsureIdentityCap` is called by constructors for tests only.
- One bad entry makes the whole manifest unusable; of two overlapping syncs the older
  answer may win; a cap listed twice by a cartridge is suggested twice.

Planner, machines, orchestrator:

- `AddCap` leaves out every cap equivalent to the identity, which is any cap without tags
  that takes `media:` (`live_cap_fab.go:224`). `IsEquivalent` is true of `op=*` and `op=x`, and
  dispatch is not transitive through wildcards.
- Paths that end in ForEach and Collect with nothing between are found and refused as a
  cycle by the plan. Builder and analysis disagree on file-path arguments.
- A cap that the registry lost gets a node without bindings (`plan_builder.go:165`), while the
  analysis of the whole path fails (`:363`). The plan is run all the same and may fail on a
  missing argument of another step, of which nobody was told
  (`MissingArgumentsAreAnnounced` names this exception).
- `LeastUpperBound` is called the most specific common type (`media_urn.go:279`), but drops a tag
  whose values differ (`:312`): of `ext=pdf` and `ext=txt` it makes `media:`, while both conform
  to `media:ext`. Nothing in the repository calls it but its tests.
- `ParseMachineToCapDag` pairs the wirings in the order of the text with edges in canonical
  order (`orchestrator/parser.go:121`): a text in another order gets wrong caps or an error.
  `GraphFollowsMachine` is therefore about what the serializer wrote.
- A fan-in's primary source may change when it is read back, as the serializer sorts
  sources (`graph.go:394`); tied anchors make equivalence depend on the order of the text.
- The parser accepts an edge from a node to itself, `ValidateDag` rejects it.

## 6. What is proved

TLAPS proves these theorems for every value of the constants that satisfies the
named assumption; there is no other assumption.

**Frame ordering** (`FlowOrder_proofs`), for every set of flows and every value of the
bounds and of the buffer limit (`BoundsAreNat`):

- `TypeCorrect`: `Spec => []TypeOK`.
- `OrderIsKept`: `Spec => []InOrderDelivery`. The property is not inductive: it says
  nothing of the frames in flight or in a buffer. The invariant `IInv` adds, for
  each flow: the counter never exceeds the frames handed to the writer, and equals
  their number until the terminal (`WriterInv`); and, as long as the flow has no late
  frame, the numbers written increase, the gaps among them are the failed writes,
  and the terminal is the last (`WrittenInv`); whatever is in flight or buffered was
  written (`InFlightInv`); what is delivered was written in the same place without a
  gap, and the boundary expects the next number (`DeliveredInv`); what is written
  and not delivered is under way unless a frame was refused (`KeptInv`); a frame that
  arrived and is still in flight is a copy (`FreshInv`), and once the flow was cleaned up
  only copies are, which the boundary takes in order from 0 (`RepeatInv`). With it, a
  frame accepted at the expected number and the run of buffered ones behind it are
  the next frames written (`ReadyIsNextWritten`), and other flows are not touched
  (`OtherFlow`).
- `NothingIsLost`: `Spec => []NoSilentLoss`, from the same invariant: in a healthy flow
  the numbers are exactly the positions, so when nothing is in flight the least
  number missing would lie in the buffer above a gap that does not exist.
- `OrderedUntilRepeated`: if `MaxLate = 0`, and as long as nothing is handed on again after
  `CleanupFlow`, every step maps to a step of `OrderedDelivery` or to a stuttering one,
  what is received being all that the boundary hands on (`HandedOn`).
- `ImplementsOrderedDelivery`: if moreover `MaxDup = 0`, nothing is ever handed on again, so
  every behaviour implements `OrderedDelivery`.

The drain loop of `Accept` is modelled by the least free number (`NextGap`), whose
existence and properties are lemmas; `LeastNatural` takes the place of an induction.

**Relay switch** (`RelaySwitch_proofs`), for any number of masters, any finite set of
requests, any offers and any table of distances between caps (`SwitchAssumption`):

| theorem | property |
|---|---|
| `TypeCorrect` | `TypeOK` |
| `SnapshotIsAlmostCurrent` | `SnapshotLagsOneDeath` |
| `HealthyRoutes` | `RoutesToHealthy` |
| `OneMasterPerRequest` | `RequestKeepsItsMaster` |
| `AnswersInOrder` | `EngineGetsItsAnswer` |
| `NoEntryAfterAnswer` | `AnsweredRequestsAreForgotten` |
| `PeerAnswersInternal` | `PeerAnswersStayInternal` |
| `CancelIsLast` | `NothingAfterCancel` |

All follow from one inductive invariant (`IInv`, theorem `Invariance`), with one lemma
per action that it is preserved. It has to say what the properties leave out, the
frames between the switch and its masters:

- `TablesAreCurrent`: the cap table and the aggregate are those of the healthy masters, so
  that what is looked up is alive. The snapshot is not (`SnapshotStep` is a step on top of `IInv`).
- `LifeInv`: a request that was never routed has left no trace, and an entry of the
  routing table leads where the request first went. A peer request that was routed keeps
  its entry until its master is lost or the engine ends or cancels it. The switch forgets an entry when
  it cancels or answers a request, but a master does not: `target` and not `routing` is
  what the frames agree with.
- `DeathInv`: the switch learns of a death only when it has read what the master sent
  before it. Hence an entry that `ReadDeath` removes has no frame left to come.
- `ToMasterInv`: the frames on the way to a master are for requests routed to it; a REQ
  is there once and before any answer; nothing of a request follows its CANCEL, since
  the entry is gone and an id is not used twice.
- `ServingInv`, `FromMasterInv`: a master serves and answers what was routed to it, and
  a peer request it sends is new.
- `AnswerInv`: the response frames of a request that are under way carry the numbers
  from the length of what the engine got up to those sent, increasing and complete.
  Without completeness an answer could skip a frame that was never sent; without the
  order it could be overtaken. Once the terminal frame is delivered there is no entry.

The choice of `FindMasterForCap` needs that a closest match exists among finitely many
offers (`ClosestExists`), hence integer distances; `CancelAllRequests` needs a finite
set of requests for an order to send the Cancel frames in.

**Cartridge host** (`CartridgeHost_proofs`), for any number of cartridges, any requests of
the engine and of cartridges, any offers and any size of the channels (`HostAssumption`: the
id of a heartbeat of a cartridge is not that of a request):

| theorem | property |
|---|---|
| `TypeCorrect` | `TypeOK` |
| `BodiesReachTheirHandler` | `BodyReachesItsHandler` |
| `AnswersReachTheirRequester` | `AnswerReachesItsRequester` |
| `BrokenBodiesAreAnswered` | `BrokenBodyIsAnswered` |

The properties speak of frames in the channels of the cartridges; whether they are right
was decided when the tables of the host were filled. The invariant `IInv` follows a
request all the way. Once the host has stopped there are no processes and the channels
are empty; until then (`LiveInv`):

- `ProcessInv`: a channel has frames only if its cartridge runs, and a death is the last
  event of a reader loop. Hence a respawned cartridge inherits nothing of its predecessor.
- `QueueInv`: on every way the REQ of a request precedes its body, and its END is last.
- For each request: before it is sent it is nowhere and has no handler (`IdleInv`); its REQ
  is in one place, before the tables know it (`ReqInv`); its END is once on the way, and only
  when its sender has closed the body (`EndInv`); an ERR on the way of a peer request means
  that its requester is gone (`ErrInv`), a response that the host has settled who answers,
  unless the handler answered early (`RespInv`); after the end of the body nothing of
  it is under way (`BodyEndInv`); both tables lead to running cartridges and to the processes
  that were handed the REQ or that asked (`RouteInv`); a request whose handler was lost is
  answered or its body has ended (`LostInv`); what is in a channel is for the process behind
  it (`ChannelInv`).

`place[r]` and `Gone(r)` tell why the same id in both tables is harmless when the relay routes a
peer request back to this host: its entries are made and removed in an order that the
queues between host and switch preserve.

**Cartridge runtime** (`CartridgeRuntime_proofs`), for any finite or infinite set of requests and
peer requests, any bodies and peer responses, and any size of the channels
(`RuntimeAssumption`: the REQ is first in a body, and no response has one):

| theorem | property |
|---|---|
| `EachIsAnsweredOnce` | `AnsweredOnce` |
| `ResponsesAreWhole` | `ResponseIsWhole` |
| `PanicsHaveACause` | `PanicHasACause` |
| `InputsAreComplete` | `InputIsComplete` |

`IInv` adds to the type invariant: the frames still to be read belong to requests, are sound
if the body is, and start no stream twice if the body does not (`InputInv`); as long as the
REQ of a request is to come, nothing is collected and no handler runs, and a handler and
collected streams exclude each other (`CollectInv`); no stream that is collected will start again
(`FreshInv`); where a handler is determines what it has written (`WrittenInv`); its feeder
hands over the END last, so that a handler that has read it leaves nothing behind for the
channel that is closed when it returns, and one that failed early does (`FeederInv`); a
peer request is registered only while its handler runs, and a channel that is closed is not
in the table any more (`ChannelInv`). `PanicHasACause` is part of the invariant: what
rules a panic out is what the other conjuncts say of the state before it.

`InputsAreComplete` needs a second invariant on top, `PassInv`, because `IInv` says what may
still come of a body but not what has come. It counts, for every id, the frames `n` that the loop
has read (`HasRead`): the others are on stdin, among those of other ids, and with the host.
What a request has collected is then what a reader of its first `n` frames would have
collected, stream by stream (`CollectedInv`); once its handler runs, some list of streams holds
the data of the whole body, and the feeder is at one item of one of them, with all before it
in the channel or read (`FedInv`); and of a peer response, what was read and what is in the
channel are its first `n` frames, until it is forgotten (`AnsweredInv`). Positions replace the
projection of stdin to an id, and the data of a stream is a function on prefixes (`DataOf`), so
that only its last step is ever looked at and no induction is needed.

**Relay and handshake** (`Link_proofs`), for all limits of the codec (`WireAssumption`: positive,
and a chunk fits a frame), any limits that the two sides announce or leave out, any
responses and any kinds and numbers of frames (`LinkAssumption`: announced limits are positive):

| theorem | property |
|---|---|
| `BothSidesHaveTheSameLimits` | `LimitsAgree` |
| `FramesArriveInOrder` | `NothingIsLost` |
| `AnnouncementsTakeEffectInOrder` | `AnnouncementsPrecedeFrames` |

- `HelloInv` says what is in the two pipes during the handshake: the HELLO of each side is
  the first thing the other reads, and a side that is ready has negotiated with what is
  in it. `HelloIsRead` shows that a HELLO which went through encoder and decoder yields the
  limits its sender completed from it (for a side that leaves limits out, an assumption), with a manifest and without, also if it has no
  limits at all (an empty `meta` is not written). `NegotiateLimits` is symmetric.
- `DownInv`, `UpInv`: what has arrived, what is in the last stream, what the pump holds and what is in
  the first stream, one behind the other, are what was sent. `PumpInv` says that a pump
  holds a frame only while it writes; `StreamsInv` that a stream holds encoded frames, which
  do not change when they are encoded again (`EncodedTwice`, `TravelledTwice`).
- `QuietInv`: until the engine has sent something only relay frames go up. Without it the
  theorem is false: `ConnectRelayMaster` takes the first frame from the stream
  and drops it, whatever it is. `AnswerInv` and `EndsInv` support it: a cartridge writes
  nothing before it has a request.

That the relay may take its frames from anywhere in a queue rests on lemmas proved by
least counterexample, as a recursion over a sequence has no induction here: `Others` keeps
concatenation (`OthersOfJoined`), and it does not matter whether it is applied before or
after the wire (`OthersOfWired`).

`AnnouncementsTakeEffectInOrder` has an invariant of its own, `AnnInv` (theorem `AnnouncementsAreKept`):
`DownInv` and `UpInv` leave relay frames out, and so forget where they were. `AnnInv` names the
frames of the sender by their number and says of each side how many its first reader has taken
(`OnTheWay`: the others are in the stream, as encoded). A frame that is not of the relay
has a place, the number of such frames up to it (`Place`), which no later frame changes
(`PlacesKept`). Downwards (`StatesInv`) the slave knows every resource state among those taken, and
what has arrived or is under way behind it has its place among them too; a newer state may
already be known, hence the inequality of the property. Upwards (`MasterInv`) the master
reads itself, so what the engine got with its i-th frame is exactly the last notification
before that place, for the manifest and for the limits, which a notification may leave out.

**Cap registry and cartridge repositories** (`Caches_proofs`), for any spellings, callers, processes, published versions and
sizes of the files (`CapRegistryAssumption`: normalisation is idempotent, a caller has one process):

| theorem | property |
|---|---|
| `ServedOnly` | `OnlyServedDefinitions` |
| `ClearedStaysForgotten` | `ClearedIsForgotten` |
| `KeptDefinitionsAreSaved` | `KeptIsSaved` |
| `AnswersAgree` | `AvailableCapsAreSuggested` |

`IInv` says, besides the types: a file holds a definition that was published under its own name, or
nothing that parses; unless it was undone (cleared, expired, shared or torn), it is whole, or
open to one writer and still empty (`FileInv`); a call that saves has fetched the definition of
what it was asked for, and its file exists (`CallInv`); memory has published definitions under
the names they belong to, and each has its file (`MemoryInv`). A definition that a clear
removes is barred from the memory, the calls and the start of its process, and, once the files
are gone, from the files (`ClearInv`); it stays so (`ForgottenInv`). That is stronger than
`ClearedIsForgotten`, which speaks of the memory only: a definition could come back
from a file or with a call.

The repositories have an invariant of their own (`RepoInv`), for any repositories and any number of
syncs: what is cached of one is a whole manifest that it has published, with the index that
belongs to it (`CachesAreWhole`), and a sync under way goes through its list and holds at most
such a manifest. From it follows that the index, the cartridges and the list of caps agree
(`AnswersAgree`), whichever of two overlapping syncs writes last.

**URNs** (`Urns_proofs`), for any sets of tags, names and values: a least upper
bound of media URNs is an upper bound, the least of those on whose tags the URNs have the
same values, and not the least where they differ (`LeastUpperBoundWhereValuesAgree`, read
with values as for the tags of caps); a cap is dispatched for its own URN
(`OwnUrnIsDispatched`), and for less than what it is dispatched for (`LessIsDispatched`); a
merged URN serves the requests for the other (`MergedServesTheOther`); URNs that were
read back never make `Accepts` panic (`ReadBackIsSafe`).

*Only model-checked.* All liveness (`HealthyFlowsComplete`, `EngineIsAnswered`,
`RequestIsAnswered`, `StartedIsAnswered`, `RunReturns`, `GoodReposAreSynced`): fairness and
`ENABLED` are out of the prover's reach. `CollectedStreamsAreWhole` of the link compares
folds of a stream with its payload, whose values for every input need an induction over data
that the prover cannot instantiate. Everything about planner and machines: `LiveCapFab`,
`DagValidation`, `MachineResolver` and the modules that use them have RECURSIVE operators,
and their properties are about what a recursion computes.

## 7. Plan

Done: the models of sections 2 and 3, the proofs of section 6. Candidates for later:

1. Lemmas about the chunks of a payload (`ChunkAt`): they cover it without overlap, as a first
   step to `CollectedStreamsAreWhole`.
2. Switch and host with bounded sockets, for the cycle of blocking writes under the mutex;
   host and runtime over one request with an abstract request and response.

## 8. Not modelled

The grammar of machine notation, URN parsing and quoting, CBOR, the argument handling and
file conversion of the command-line mode, the choice among registered handlers
(`FindHandler`), JSON schemas and the validation of arguments and outputs (`cap/`): conversions
and checks of data without steps of their own. Manifests of cartridges on disk, slugs,
operating-system filters, standard caps, examples: constants and filters. The media
registry repeats the cap registry over other documents; profiles and media definitions are
parsed documents. Times to live, free-text search and the sorting of versions in the
cartridge repositories; the payload for rendering of a machine. Merge and Split nodes,
standalone Collect nodes and argument bindings that only a caller can make: no builder of the
repository makes them. `router.go` and `host_observer.go`: nothing calls them.
