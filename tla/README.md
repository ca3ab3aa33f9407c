# Formal models of session-router

TLA+ models of the parts of session-router whose correctness depends on the order of events, the TLC
runs that check them on small instances, and TLAPS proofs of their main invariants for every instance.
`PROJECT.json` lists components, runs, the mutants that show each property can fail, the source lines
behind every definition, findings, hazards and theorems.

    tlc -workers 2 -config MCRelayLinks.cfg MCRelayLinks    # any pair of the table under "Runs"
    tlapm RelayLinksProofs.tla                              # any *Proofs module

## The system and its parts

session-router is an onion-routing daemon and library. *Relays* (service nodes) keep QUIC connections to
one another, test one another, spread their *contacts* (RCs) and forward traffic along *paths*. *Clients*
connect to a few relays (*edges*), build paths over them, publish where their own inbound paths end, and
hold *sessions* with relays and other clients. Applications reach sessions through a tun device with DNS, or
through UDP and TCP tunnels. Each process has a *router loop* (a job queue: almost all state is only touched
there), a *disk loop*, and a *network loop* owned by the quic library, which posts jobs to the router loop.
There are few locks; the hard cases come from jobs and answers that arrive late: a callback that finds a
table changed, a deferred cleanup that runs after a replacement, a timer that acts on something that has
just been renewed.

| Part (source under `src/src/`) | Module | Proofs |
|---|---|---|
| Outgoing reachability tests, `consensus/reachability_testing.cpp` | `Reachability` | `ReachabilityProofs` |
| Incoming tests, same file | `IncomingTests` | |
| Gossip of relay contacts, `router/router.cpp`, `link/link_manager.cpp` | `Gossip` | |
| A relay and its oxend, `rpc/oxend_rpc.cpp` | `Oxend` | |
| TCP tunnels, `session/tcp_tunnel.cpp`, `ev/tcp.cpp` | `TcpTunnel` | `ReachabilityProofs` |
| Path bookkeeping, `path/path_handler.cpp`, `path/path_context.cpp`, `path/path.cpp` | `PathHandler` | `PathProofs` |
| Outbound sessions to relays, `session/session.cpp` | `OutboundRelay`, refines `PathHandler` | `PathProofs` |
| Outbound sessions to clients, `session/session.cpp` | `ClientPaths` | `PathProofs` |
| Session inits, accepts and path switches, `session/session.cpp` | `Handshake` | `HandshakeProofs` |
| Hop selection and profiles, `path/path_handler.cpp`, `profiling.cpp` | `HopSelection` | `PathProofs` |
| Inbound paths, `handlers/session.cpp` | `InboundPaths` | `SessionProofs` |
| Path builds and messages at the relays, `link/link_manager.cpp` | `Relaying` | `RelayingProofs` |
| Client connectivity and its callbacks, `router/router.cpp` | `Connectivity` | `ClientProofs` |
| Addresses of the tun device, `handlers/tun.cpp`, `address/` | `TunAddresses` | `ClientProofs` |
| Port maps and claims, `handlers/session.cpp`, `session_router.cpp` | `PortMaps` | `EndpointProofs` |
| SNS lookups, `handlers/session.cpp` | `SnsLookup` | `EndpointProofs` |
| DNS server, `dns/` | `Dns` | `EndpointProofs` |
| Configuration, `config/`, `daemon/session-router-config.cpp` | `Config` | |
| Session registry and life cycle, `handlers/session.cpp`, `session/session.cpp` | `SessionRegistry` | `SessionProofs` |
| Publishing and looking up client contacts, `contact/contactdb.cpp`, `link/link_manager.cpp` | `Contacts` | |
| Start and stop of the daemon, `daemon/session_router.cpp`, `context.cpp` | `Lifecycle` | |
| Relay-to-relay connections, `link/endpoint.cpp` | `RelayLinks` | `RelayLinksProofs` |
| Bootstrap and list of relays, `nodedb.cpp` | `NodeDB` | |
| Stored contacts, `nodedb.cpp` | `RcStore` | `ClientProofs` |
| 0-RTT tickets, `nodedb.cpp` | `Tickets` | `ClientProofs` |
| Lock-free queue, `util/thread/queue.hpp` | `ThreadQueue`, refines `BoundedQueue` | |

## How the modules correspond to the code

An action stands for a whole handler, timer callback or job of a loop, since the router loop runs each to
its end; where threads really interleave (`ThreadQueue`, `Tickets`, `Oxend`, `Lifecycle`) it stands for what runs
between two atomic accesses, locks or waits. What a handler reads from outside the part (the clock, the
registry, the network's answers) is a nondeterministic choice over what it can be. Definitions keep the
source's names; variables and helpers of the smaller modules have a two-letter prefix, so that several can be
put into one MC module. `PROJECT.json` maps each definition to its lines. Definitions commented as a *variant*
or *mutant* are altered copies of the code that the checks must reject; no specification uses them.

**What a relay keeps up.** In `Reachability`, `failing` is the set of that name, `testing_queue` the relays still
to be drawn (the shuffle becomes the choice of the draw), and `probe` holds, per relay and *chain*, the retests
queued and the pings not answered. `IncomingTests` has the two ages `check_incoming_tests` compares with its
thresholds. `Gossip` follows the RC of one origin: an RC is its content and how many regenerations it is behind.
`Oxend` has a relay's startup and its list of registered relays; an answer's list and hash are stored in two
steps, as they are on an OxenMQ thread, and oxend may restart. `TcpTunnel` is one end of a tunnel, with half-closes,
backpressure and deferred destruction; sockets and streams deliver their events in any order.

**A client's paths.** `PathHandler` is the contract of the base class: a step may drop any paths and start any
builds that the base class allows; builds and pings are answered, time out or fail at any time, also after the
handler is gone. Remaining life is classified by the limits the subclasses compare it with. `OutboundRelay` adds
`_current_path`, `update_paths`, `close_old_paths`, `select_new_current` and the session's tick. `ClientPaths`
models the sessions whose paths must end where an introduction of the remote ends; a path that is dropped while it is
being built lives on in the handler of the build's answer, which puts it back (`held` says whether it is in `_paths`).
The loop in `update_paths` is a state of its own, because its termination is in question. `Handshake` has both ends of sessions between clients,
with a path of in-order messages per init and a remote that may restart. `HopSelection` picks the relays of a path
step by step. `InboundPaths` cuts time into slots as the code does. `Relaying` has the relays' side: encryption is
symbolic, a layer being toggled by a key and a nonce.

**What a client offers.** `Connectivity` has the two flags of `Router` and the four lists of callbacks; `fired` and
`called` are history variables. `TunAddresses` has the choice of a free range or a configured one with its
`mapaddr` lines, the address maps and the cache of closed sessions' addresses.
`PortMaps` has the claims of an application, the mappings they share, and pseudo ports.
`SnsLookup` counts the answers of several relays. `Dns` has the requests that wait for something, and what is sent
to them. `Config` reads a file line by line into the option table, accepts, validates, and writes it with the tool.

**Sessions and the process.** `SessionRegistry` has `_sessions` and `_session_tags`, the objects they share, the
jobs of `close_session` and the callbacks of `establish_udp`/`establish_tcp`; an object nobody points to is gone.
`Contacts` follows one client's contact from its publication over the relays' ContactDBs to a session of another
client, with a change of the closest relays in between. `Lifecycle` has main, the watchdog, the loop and the three
callers of `Router::stop`.

**What a node knows of the network.** `RelayLinks` has the tables of several relays, one queue of jobs per router
loop, and connections with two ends that come up and go down separately. RouterIDs are numbers, ordered as in
`*rid < router.id()`; the relays in `Unstable` may be found registered or not each time the registry is read.
`NodeDB` has bootstraps, the rounds of RouterID fetches and the lookups that wait. `RcStore` has the contacts in
memory, their bucket hashes and the disk loop's queue. `Tickets` splits a save at the lock; tickets expire at any
time, and are left out where the code looks for expired ones. Writing their file does not fail.

**Composition.** Parts that share state are one specification: `OutboundRelay` extends `PathHandler`, and
`ThreadQueue` instantiates `BoundedQueue`. Parts that only exchange inputs which each model already leaves open are
checked side by side: an MC module extends them all, its variable `part` is chosen in the initial state from the
constant `Parts` and says which one runs, and the others keep their initial values. A run is so the sum of its
parts; setting `Parts` to one name checks that part alone.

## Runs

| Run | Parts | States | What it shows |
|---|---|---|---|
| `reachability` | Reachability, IncomingTests, Gossip, Oxend, TcpTunnel | 212,975 | a failing relay has a retest queued or a ping under way (`NoRetestLost`), a recovered one is noticed (`RecoveryNoticed`); lasting silence is reported (`SilenceIsReported`); what a contact says reaches every relay (`ContentsReachAll`); the list of relays follows the chain over restarts of oxend (`ListFollowsChain`); a TCP pair that has to end ends (`PairsEnd`), with no data truncated (`NothingTruncated`) |
| `outbound_relay` | OutboundRelay, HopSelection, InboundPaths, ClientPaths, Handshake | about 296,000 | the two path maps agree (`ContextAgrees`), a path leaves the context dead (`LeavingContextIsDeath`), the current path is routed or dead, the session heals (`SessionHeals`) and refines `PathHandler` (`KeepsHandlerContract`); hops of one network are apart where that can be (`HopsKeptApart`); expiries spread over slots (`ExpiriesSpread`); a session to a client comes to a path its contact does not name only by a late answer to a build (`OnlyLateBuildsStray`); both ends use the same keys (`KeysAgree`) |
| `connectivity` | Connectivity, Relaying, TunAddresses, PortMaps, SnsLookup, Dns, Config | 417,149 | connectivity is reported exactly (`PathFlagExact`, `ConnectedIsReported`); a message crosses two paths and the pivot unchanged (`ArrivesIntact`); remotes never share an address (`AddressesApart`); pseudo ports are owned (`PortsAreOwned`); a name resolves to what the relays said most (`NameBacked`); DNS answers chain from the question (`AnswersChain`); a configuration loads as it was written, two named options apart (`LoadedAsWritten`) |
| `thread_queue` | ThreadQueue | 414,347 | the queue implements `BoundedQueue` (`IsBoundedQueue`) and no sleeper misses its wakeup (`NoMissedWakeup`), while a push throws and the queue is disabled and enabled |
| `session_registry` | SessionRegistry, Contacts, Lifecycle | 182,662 | what a tag still reaches beside the registered session is finished (`ReplacedIsFinished`), callbacks of a live session are answered (`CallbackAnswered`); a stale replica does not hide a newer contact for good (`NewerContactFound`); a signal ends the process (`SignalEnds`) |
| `relay_links` | RelayLinks, NodeDB, RcStore, Tickets | 272,923 | connection tables are consistent (`PreferredAndScheduled`) and redundancy ends (`RedundancyEnds`); a client is never cut off for good (`NeverCutOff`); files follow memory (`DiskFollows`, `SavedWhenIdle`) |
| `connectivity_once`, `session_registry_callback`, `relay_links_established`, `client_paths_loop`, `contacts_failure`, `nodedb_rounds` | one each | violations | findings 1 to 6 |

Each passing run also checks one type invariant, the conjunction of its parts' (`thread_queue` has none of its own:
the abstract queue's states are typed by `IsBoundedQueue`).

**Bounds.** Every bound is a constant named as one in its module. They are the least at which the interesting cases
occur:

- Reachability: two relays and a quota of one retest per tick, so that one relay can keep another waiting. The
  incoming thresholds are those of the code, in minutes (2, 15 and 5). Three nodes gossip, so that an RC can go round.
  Oxend has three lists; a TCP end has two connections and buffers of one unit above the alarm mark.
- Paths: two paths are the least with which a session has a spare one; paths of three and four hops over four relays
  in shared networks; two slots for three inbound paths; two pivots of which one is unknown; three path switches
  and tags up to 2, so that a tag is used again.
- Client: three edges and two inbound paths; two paths that meet at a pivot, ageing past their expiry; a private
  space of sixteen addresses with networks already in use, and more remotes than free addresses; two pseudo ports
  for two applications and three claims; two lookups of a name with up to four paths; replies of more records than
  fit; files of up to three lines from those that interact.
- Queue: capacity two and one element in it at first, so that three operations fill it, empty it, and throw away an
  earlier element; two pushers, one popper and a control thread; indices that wrap.
- Sessions: two objects and two tags, so that identifiers and tags are reused while the old holder is still known;
  two relays whose ranking a block swaps; two Halt requests and a signal.
- Network: one pair of relays and one connection each way (a replaced connection needs the third of
  `relay_links_established`); two relay lists with one relay in common; two contacts of one bucket and a disk queue
  of two; three tickets for two places and two starts.

Larger instances of some parts were checked for safety only: three paths in `OutboundRelay` (578,966 states), three
sessions and tags in `SessionRegistry` (872,488). Counters saturate above the value at which the code stops telling
them apart.

**Fairness.** Liveness is checked under weak fairness of timers, jobs, threads and answers: timers of the job queue
fire again and again, posted jobs run, a thread that can go on does, and requests that were sent end with an answer
or a timeout. Requests that the code drops (`Endpoint::send_command` without an RC) are not assumed to end; finding
6 is about them. Stronger assumptions are stated in the MC modules: a session again and again gets to start a build,
and of the builds that complete some succeed with a path of good life, without which no client heals; a connection is
not replaced within every linger for ever (`RelayLinks`); two relays that are not connected connect again
(`Gossip`). The network is otherwise not fair: connections, paths and messages may be lost at any time.
`MCConnectivity` and `MCThreadQueue` check safety and refinement and assume nothing. `CHECK_DEADLOCK FALSE` is said
because in every run some part may really stop (a closed session, a stopped router, a file that has been loaded) or
come to its bound.

## Proofs

TLAPS checks all proofs, from the named assumption of each module only; each theorem holds for every value of the
constants that satisfies it. Most assumptions only say what kind of value a constant is. Those that say more:
`HopBuildLength` is at least 3 (`BUILD_LENGTH` is 4), the marks for "no path" and "no hop" of `ClientPaths` are not ids
or hops, every path of `Relaying` has a hop, the clear mark of a tunnel is below its alarm mark, and a tun range has
at least four addresses, is no larger than the steps of the search, and these divide the space. Invariants are seldom
inductive as they stand; what was added is said with each.

- **`ReachabilitySafe`** (`NoRetestLost`): with the types inductive; `tick` moves an entry from the queue to a ping
  without a gap, and an answer from a ping to the queue or out of `failing`.
- **`HalfClosesComplete`** (`NothingTruncated`), with `TtInv`: added is that once the far end's FIN is in, nothing is
  left of what it sends, so that what a drain finds to shut down is complete.
- **`PathHandlerSafe`, `ContextLeftDead`** (`ContextAgrees`, `LeavingContextIsDeath`): also needed are that the context
  only holds established paths, that an established path has no answer outstanding, and that a handler that is gone
  has no paths.
- **`OutboundRelayRefines`** (`KeepsHandlerContract`): every step of the session is a step of `PathHandler` or leaves its
  variables alone, so the above holds of sessions. **`OutboundRelayCurrent`** (`CurrentIsRoutedOrDead`) follows from the
  inherited invariant.
- **`HopsStayApart`** (`HopsKeptApart`): inductive with the types, since a path is chosen in one step; the work is in the
  lemmas about that choice: the hops between are apart from each other, the first hop from them, and the pivot
  from all but the first.
- **`ClientPathsAligned`** (`OnlyLateBuildsStray`), with `CpInv`: a contact that is usable has been processed, so that a
  tick has no paths left to compare with it, and builds are started for such a contact only. That no step but the
  late answer adds a stray path is then shown action by action, and that new intros leave none from the choice of what
  `update_paths` drops.
- **`SessionKeysAgree`** (`KeysAgree`), with `HsInv`: per client, the keys held for a handshake are those of the last init;
  an init is under way at most once, first on its path, and nothing was made from it yet; an accept under way is for
  the last init, with the key and the tag the remote made from it. All of it is one predicate of a client's session, its
  messages and the remote's session (`HsGood`), so that a step of one client leaves the others' alone.
- **`MessagesArriveIntact`** (`ArrivesIntact`), with `RlInv`: a message under way has exactly the layers and the nonce of
  the hops still before it (up) or behind it (down); every hop in a table is one of its path at that relay; and no relay
  of a built path is its own upstream, as `decrypt_build_frame` sees to, so that an id leads to one hop. What the
  loops of `encrypt_path_message` and of the client's decryption compute for any length is proved by least
  counterexample, from the well-foundedness of the naturals.
- **`ConnectivitySafe`, `ConnectivityReported`** (`PathFlagExact`, `ConnectedIsReported`): added is that a "connected"
  callback is in the list of its own kind only.
- **`RemotesApart`** (`AddressesApart`), with `TaInv`: every mapped address is in the device's range and, in an automatic
  one, not its first; an iterator never stands before the device's own address; and from that address on an automatic
  range meets no network of the machine.
- **`TicketsSaved`** (`SavedWhenIdle`), with `ZtInv`: while the router runs, a change that no save has copied has woken the
  saver; without one the copy under way, or else the file, has what memory has, expired tickets apart on both sides;
  a stopped router has no save under way.
- **`FilesFollow`, `BucketsCurrent`** (`DiskFollows`), with `RcInv`: of every relay, the last queued job decides the file,
  and it agrees with memory; the bucket's hash is that of memory up to changes that are not significant.
- **`NamesBacked`** (`NameBacked`), with `SnInv`: before its outcome a lookup has responses missing and no value has
  reached the threshold; after it `remaining` stays at zero or below, which keeps the votes as they were. That the value
  with most votes exists is proved by well-foundedness of the naturals, not by induction over sets.
- **`PortsOwned`** (`PortsAreOwned`), with `PmInv`: every port of a mapping has a pseudo port, no port is in two mappings
  and every pseudo port is in one; and the two maps are inverse to each other.
- **`ReplyChains`** (`AnswersChain`), with `DnInv`: the message of a request that waits is a chain, its current name may
  come next and has the subdomain asked for; one that waits for SNS or upstream has no records yet, the former for a
  local name, the latter for another. Two lemmas say that a record, or records of one name, under a name that may come
  next keep the chain; each branch that answers is shown to add only such.
- **`InboundSpread`** (`ExpiriesSpread`), with the types: inductive once it is known what the choice of slots returns. The
  code fills the slots one by one, each time an emptiest one; a lemma says, of any such filling, that the count of no
  slot exceeds the share of the target rounded up, by comparing the slot's last filling with all slots at that moment.
- **`SessionRegistrySafe`** (`ReplacedIsFinished`): added are that whatever is pointed to has not been destroyed, and
  that remote and tag of an object never change and closed and unreachable are never undone.
- **`RelayLinksSafe`** (`PreferredAndScheduled`): inductive with the types, one pair of relays at a time. The theorem
  also has that both relays choose the same winner and that no connected relay counts as unreachable.

Only model-checked: all liveness, which the prover does not handle; the other temporal properties and invariants of
the modules without proofs in the table above; `IsBoundedQueue` and `NoMissedWakeup` (the refinement mapping of the
queue is a function of the program counters of all threads, and the invariant relates every pair of them);
and `LoadedAsWritten`, about options that are accepted with a fold over their values, for which induction over sequences would be needed.

## Findings

Each is a run in which the code departs from what the repository says of it; the quotes are in `PROJECT.json`.

1. `connectivity_once`: one-time callbacks are erased from a copy of the list and called again
   (`router/router.cpp:871`).
2. `session_registry_callback`: a session that expires or is trampled drops the callbacks waiting in it
   (`session/session.cpp:843`).
3. `relay_links_established`: `on_conn_closed` and `on_outbound_conn` act on whatever attempt is pending for the relay,
   so a late close leads to a connection in `relay_conns` that is not established (`link/endpoint.cpp:916`).
4. `client_paths_loop`: `update_paths` of a client session asks again for a build that cannot start, for ever
   (`session/session.cpp:1324`).
5. `contacts_failure`: a relay that passes a lookup on reports the first failure instead of the last
   (`link/link_manager.cpp:643`).
6. `nodedb_rounds`: a round of fetches in which a request is dropped never ends, and no other follows
   (`nodedb.cpp:577`).

Further statements of the repository that TLC finds violated are kept as definitions, in no run; to reproduce one,
name it in a copy of the module's cfg, with `Parts` set to that part:

| Definition | What the code does instead |
|---|---|
| `Connectivity!EdgeLossOnly` | edge-disconnection callbacks are stored with those of path connections (`router/router.cpp:867`) |
| `ClientPaths!NoStrayPaths` | a path dropped for a new contact while it was being built is back, and may become current, when its build is answered; the next contact drops it |
| `PathHandler!DiscardedIsDead` | destroying a handler leaves its established paths in the context, not dead |
| `SessionRegistry!ReplacedIsGone` | a session replaced between close and cleanup keeps its tag entry until stop |
| `Dns!TruncatedIsMarked` | the TC bit is not set in the flags word of a truncated reply |
| `Config!IgnoredNeverFails` | a multi-valued option of another program type is refused when it is given twice |
| `PortMaps!ReturnsReachSender` | releasing the mapping that created a pseudo port takes it from the others that use it |
| `Lifecycle!CleanExit` | after a Halt request `~Context` waits on the future that main has already taken, and the process terminates |
| `Lifecycle!JobsUseAlive` | a job of the loop can run after its component was destroyed by stop |
| `Tickets!UsedAtMostOnce` | a save under way when the router stops writes a used ticket back, and the next start uses it again |
| `ThreadQueue!SleepsOnlyIfEmpty` | when a disable comes between, a popper may go to sleep beside an element that nobody will wake it for (with `QuFill = 0`) |
| `Handshake!SwitchOrInit` | a switch can find another session under its tag, which cannot read it |
| `HopSelection!FirstHopIsEdge` | a path may be given a first hop that is not connected |
| `NodeDB!CooldownIsKept` | a bootstrap can start while the retry of an earlier one waits |
| `TunAddresses!OpenIsNotForgotten` | the cache may forget the address of a session that was opened again |
| `Contacts!LookupAnswered` | a lookup none of whose requests could be sent is never answered |

Two options have no acceptor in `config.cpp`, which `LoadedAsWritten` states: `[dns]:no-resolvconf`, which its comment
says is for the init scripts, and `[network]:expired-address-cache`, whose comment says that it "controls the maximum
number of such addresses Session Router will remember" and whose value and default (100 or 1000) nothing reads
(`config/config.cpp:724`). And `values_as_string` writes a duration that is not of whole seconds as its seconds
followed by `ms` (`config/definition.hpp:481`); the tool sets no such duration.

## Not modelled

- *Data without state*: cryptography (symbolic in `Relaying` and `Handshake`), addresses, contacts and wire formats,
  authentication decisions, utilities. What matters of them is what they compute from bytes, which unit tests cover.
- *I/O around the parts*: the RPC server's handlers (its Halt request is in `Lifecycle`), the tun and VPN platforms and
  packet dispatch, the libevent wrapper, process set-up, the simulation context.
- *Client connections, streams and datagrams* of the link endpoint: counted in `Connectivity`; the rest is calls into
  the quic library, whose promises are not in this repository.
- *Route poker*: its update is commented out in the source.
- *Parts of modelled components*: path control framing, files of profiles, packets queued before a session is
  established, sessions initiated from both sides at once, `Router::configure` before the start except where it waits
  for oxend. Components with their reasons are in `PROJECT.json`.
- *Weak memory*: `ThreadQueue` interleaves atomic accesses and does not reorder them. Unsynchronised access to
  containers from application threads is below the grain of the models.
