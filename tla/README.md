# A TLA+ model of someguy

someguy is an HTTP server for delegated routing (`/routing/v1`). It asks a
libp2p DHT and other delegated routers in parallel, merges their answers, fills
in addresses of peers from a cache it keeps fresh by itself, and streams the
records to the client. This directory models its concurrent core and the life of
the process around it, checks them with TLC on small instances, and proves part
of it with TLAPS for all of them.

    tlc -config fallback_streams.cfg MCCacheFallback
    tlapm CacheFallback_proofs.tla

## Inventory

How a `/providers` request flows: the HTTP handler of boxo calls the router
that `start` built; `dnsAddrRouter` wraps `parallelRouter`, which calls each
delegated HTTP router and the DHT branch `sanitizeRouter{cachedRouter{libp2pRouter}}`
and merges the iterators in a `manyIter`. The handler calls `Next` until it has
enough, then `Close`. `cachedRouter` wraps the iterator of the DHT in a
`cacheFallbackIter`, which may start lookups that outlive the request. All
requests share one `cachedAddrBook`, which a background goroutine, its probe
loop and the lookups write.

| part | state | operations | hard about it | correct when |
| --- | --- | --- | --- | --- |
| `cachedRouter`, `cacheFallbackIter` (server_cached_router.go) | the iterator's position, its channel of results and its atomic count of lookups; `findPeerSlots` | `Next`, `Close`, `dispatchFindPeer`, `FindPeers` | lookups race the end of the stream, outlive their request and compete for slots | no early end, nothing bare or twice, counters and slots exact, everything ends |
| `cachedAddrBook` (cached_addr_book.go) | addresses with lifetimes, `peerCache` of failures, `isProbing` | events of the host, `probePeers`, `CacheAddrs`, `GetCachedAddrs`, `RecordFailedConnection` | stale events, read-then-write without a lock, time | nothing about a gone peer is permanent, dead peers go, live ones stay |
| `parallelRouter.find`, `manyIter` (server_routers.go) | one worker per router, an unbuffered channel, `done` | `Next`, `Close` | workers, closer, consumer and context race; `Close` has to wait | a complete merge, no close under a worker, no leaked goroutine |
| `parallelRouter.GetIPNS`, `PutIPNS` | one worker per router, the answers | both | expiry while answers come in, errors among them | a verdict takes all routers into account |
| dnsaddr resolution (dnsaddr.go, `dnsAddrRouter`) | LRU cache of names, singleflight, a request's budget | `lookup`, `resolve`, `expand`, `resolveAddrs` | shared queries, detached contexts, bounded recursion | bounds hold, cancellation is not cached, originals kept when incomplete |
| sanitizing and ordering (server_routers.go) | none | `filterPrivateMultiaddr`, `sortedAddrs`, `compareAddrs` | each path from a source to the handler sorts and filters by itself | private addresses gone, relays last, one order |
| process and wiring (server.go, the start command of main.go) | the routers, the listener, the channel of signals, the open DHT clients | `start`, `combineRouters`, `withDNSAddrResolution` | many configurations; signals, requests and failures of the listener in any order | every branch that must be sanitized or resolved is; no DHT client closes under a request; a signal ends the process |
| endpoints (autoconf.go, server_delegated_routing.go) | the configuration | normalise, expand, strip, deduplicate, one client per URL | one base URL in many spellings, from three flags and autoconf | each kind of lookup asks what is configured for it, once |
| `bundledDHT` (server_dht.go) | the two clients | choose, `Close` | readiness changes between two calls | both are closed |
| `libp2pRouter`, `composableRouter`, `httpBlockRouter` | none of their own | pass calls on; validate the provider | – | – |
| client and `ask` commands, resource manager, tracing, version | – | – | I/O without a state machine, not modelled | – |

PROJECT.json lists every component with its status, and under `hazards` what
is hard to test, line by line, with the properties that cover it.

## Modules

| module | models |
| --- | --- |
| `CacheFallback` | `cacheFallbackIter`, `dispatchFindPeer`, `cachedRouter.FindPeers`, the slots |
| `RecordStream`, `LookupPool` | abstract: what the stream of a request, and the pool of slots, promise |
| `MCCacheFallback` | instances of `CacheFallback` for TLC |
| `AddrBook` | `cachedAddrBook`: event loop, probe loop, backoff and eviction |
| `ManyIter` | `parallelRouter.find` and `manyIter` |
| `MergedStream` | abstract: the complete, ordered merge of the routers' answers |
| `ParallelIPNS` | `GetIPNS` and `PutIPNS` of `parallelRouter` |
| `DNSAddr` | `dnsAddrResolver` and `dnsAddrRouter`: the resolution of a response |
| `MCDNSAddr` | a zone and records for `DNSAddr`, for TLC |
| `Endpoints` | from configured URLs to HTTP clients: autoconf.go, server_delegated_routing.go |
| `Routers` | which layers are around which source, and what they make of the addresses of a record |
| `Server` | `start` from the flags to the exit; extends `Endpoints` and `Routers` |
| `Service` | abstract: what the process promises its requests and the DHT clients |
| `MCServer` | configurations, addresses and records for `Server`, for TLC |
| `CacheFallback_proofs`, `AddrBook_proofs`, `ManyIter_proofs`, `ParallelIPNS_proofs`, `DNSAddr_proofs`, `Server_proofs` | theorems about the module of that name |
| `CacheFallbackStream_proofs`, `DNSAddrContents_proofs` | theorems that build on `CacheFallback_proofs` (the records of a stream) and `DNSAddr_proofs` (the addresses of a record) |

An operator commented "Variant for P" is the definition below it with a
plausible bug; it takes no part in the specification. It exists to show that
property P notices the bug.

**CacheFallback.** A request is an iterator, a record is its number in the
source, the lookup for it `<<r, i>>`. `pc` is where `Next` is: `idle` (the
consumer has control), `source` (at `sourceIter.Next`), `dispatch` and
`reserved` (before and after `tryAcquireFindPeerSlot`), `count` (loading
`ongoingLookups`), `wait` (in the select), `ended`, `closed`. A lookup passes
through `run`, `routing`, `check`, `send`, `release`, `decrement`, `done`: the
slot is released before the count goes down, as the deferred calls do. Addresses
are abstracted to whether there are any. The address book appears as three sets
of peers (own book, host peerstore, backed off) that the environment changes in
every way `AddrBook` can: `Identified`, `AddrsExpire`, `BackoffElapses`,
`DirectFindPeers`. `RecordFailedConnection` may leave `backoff` alone, because
the shift in `ShouldProbePeer` overflows (see the findings).

**AddrBook.** Time is counted in ticks, as ages and remaining lifetimes, so the
state space is finite; ages saturate above every duration they are compared
with. The background goroutine is `handler`, at the head of the subscription
`events`. An identify is handled in the order of the code: reset of the peer
state, `getTTL`, `ConnsToPeer`, and the calls of `replacePeerAddrs` one by one;
the connections and the other goroutines move in between. `capRelayAddrTTL` reads
the stored addresses in one step and sets their lifetime in the next, so that an
eviction in between is undone for the relay addresses. `RecordFailedConnection`
is four steps (`Peek`, `Add` or `Remove` and `ClearAddrs`). A probe dial checks
the peer, waits for the semaphore, and dials. A dial or DHT lookup that finds
the peer connected at its start never fails. Counting failures stops at
`WordSize` + 1, which loses nothing: the backoff is 0 from there on. Addresses stand for those that are
publicly dialable.

**ManyIter.** `worker[c]` is the goroutine of router `c`'s iterator: inside
`it.Next`, sending, or gone. `Takes` is the rendezvous on the unbuffered
channel. The workers' iterators hold the request's context, not the one `Close`
cancels, so a worker inside `it.Next` is reached only by the end of the request.

**ParallelIPNS.** A worker calls its router and then sends. Expiry of a record
is an action of its own that may come at any time after the answer. The cases of
one and of several routers are distinguished as in the code (`Single`).

**DNSAddr.** A request resolves the records of its response one after the other.
`pc` is where it is: `served` (between records, at the wrapped router), `addrs`
(the loop of `resolveAddrs` over `todo`), `expand`, `lookup` and `wait` (entering
`expand`, past a cache miss, and in the select), `loop` (in the loop of `expand`).
The recursion is the stack `stack`: a frame is the results one call has yet to
visit, so the depth left in the code is the limit minus `Len(stack)`; `resolved`,
`complete` and `room` are what its calls merge and share. The address of a record
is what is before its `/p2p` (a name, or a plain address) and the peer it names;
a response is a set, for `compareAddrs` orders it anyway. `Zone` is what DNS
lists, constant for a behaviour; a query may fail at any time. `cache` holds
outcomes, and `CacheForgets` is both the expiry of an entry and the LRU. A key
has at most one `flight`: the answer is cached (`QueryAnswers`) before singleflight
forgets the key and wakes those who wait (`FlightEnds`), and in between a request
may hit the cache or join. Any number of requests that are not modelled in
detail start queries as well (`OthersLookUp`).

**Server.** `pc` is where the main goroutine is in `start` (and, at `flags`, in
the action of main.go): one action per step that can end the process or that
changes what a later one sees. `exit` is how it ended: `ok`, an `error` that is
returned, `fatal` (log.Fatalf, which runs no deferred call) or `killed` (a signal
before `Notify`). The goroutine of `ListenAndServe` is `listener`; `quit` counts
the signals in the channel. A connection is `idle` (there is none), `accepted` or
`running` a request. net/http is external: `Shutdown` closes the listener, waits
for every connection and gives up after 5 seconds, `Serve` returns at once. The
time limit is an action that may happen whenever a connection is left.

**Endpoints.** A URL is a host and what follows it: the path of a kind of lookup,
a slash, or anything else. `ExpandDelegatedEndpoints` belongs to boxo: it replaces
`auto` by what autoconf knows of that kind for the systems that are not native.

**Routers.** A router is the set of its branches, a branch a source and the layers
around it: `cached`, `sanitize`, `dnsaddr`. `Flow` takes the addresses of one
record from the source through the layers. The merge of the branches, the lookups
of `cached` and the recursion behind `dnsaddr` are the subjects of `ManyIter`,
`CacheFallback` and `DNSAddr`; here a missing address comes from the book or not
at all, and each `/dnsaddr` of a record is expanded in full (`look.whole`), in part
(any subset of what it names, `look.part`) or not at all. One with more than a host,
or that ends up with no address of the peer, names nothing and is kept; one that
names another peer is dropped.

**Service.** Backends open while the process starts, requests run while it serves,
backends close once no request is left, and only then does it stop regularly.
Every other end is an abort.

## Runs

| run | instance | shows |
| --- | --- | --- |
| `fallback_streams` | 1 request, 2 records, 2 slots, channel of 1 | a stream never ends early, returns nothing bare or twice, implements `RecordStream`; lookups finish after the stream is closed |
| `fallback_shared` | 2 requests, 1 record each, 1 slot | slots and counters are exact, the slots implement `LookupPool`, a request ends although the other may hold the slot for ever |
| `addrbook_events` | 1 peer, a direct and a relay address, 2 events waiting | no address of a disconnected peer stays permanent; relay addresses respect their cap |
| `addrbook_purge` | 1 peer, 1 address, the probe loop, a lookup, a word of 4 bits | a dead peer's addresses are purged unless its backoff has overflowed, which it may here |
| `manyiter` | 3 routers, 2 results each | the merge implements `MergedStream`, no iterator is closed under its worker, `Close` returns, workers exit |
| `ipns` | 3 routers | verdicts take all routers into account, a put reaches all, workers exit |
| `dnsaddr` | 1 request of 2 records, all others at the cache, a zone of 2 names | bounds hold over the recursion; a `/dnsaddr` goes only when all it stands for was served, stays only for a cause; every record comes out |
| `server` | 2 connections, one waiting signal, 180 configurations, 8 addresses | each kind of lookup asks its endpoints once; records leave sanitized, resolved as far as their lookups went, and in one order; the process implements `Service` and a signal ends it |
| `fallback_lost`, `addrbook_overflow`, `addrbook_live`, `manyiter_close` | smallest that show it | the findings below |

Bounds. Two lookups and a channel of one already overflow the channel, which
holds 100 results in the code, and two requests with one slot already refuse a
lookup. Two events in the subscription are enough for a late identify behind
its disconnect, the case that matters; `MaxEvents` bounds the queue, and a
connection that would exceed it waits. The durations keep the order of the real
ones (threshold of one tick at most the maximal backoff; the relay lifetime below
or at the others, and in `addrbook_purge` a cached address outlives a tick, so that
provider records can renew it for ever and only the eviction purges it).
`MaxFailures` bounds the lookups. In `addrbook_events` and `addrbook_live` it is far
below what overflows `WordSize`. In `addrbook_overflow` and `addrbook_purge` a word of
4 bits stands for the 64 of `time.Duration`, and a `MaxFailures` of 6 is above the count
of failures at its highest (5), so that no lookup is ever held back: the backoff goes
through every value it can have, 0 included. `MaxItems` and `MaxRecords` end every source.

In `dnsaddr` the zone is finite for peer P (one name leads to the other, which
lists a public and a private address) and refers to itself for peer Q, with more
addresses than a record may gain. A depth of 2, 2 lookups and 3 addresses are each
used up by one of the records and not by another, and the second record of a
response finds the budget that the first has left. Two spellings share a key.
The mode is `filtered`, the one in which requests do all three things (skip,
append, replace) depending on their filter; the others choose among these in
advance. The stages of two requests meet only in `cache` and `flight`, which
`OthersLookUp` and `CacheForgets` change in every way a second request can.

In `server` a configuration deviates from the default where a step looks at it:
`Wirings` are the DHT types with and without the address book under the modes of
resolution, and are the only ones that serve requests; `Spellings` are pairs of
spellings of one URL, in two lists, with and without autoconf and a DHT, and have
an invalid listen address, so that they end once the routers are there; `Mistakes`
are what start refuses, one at a time. Two connections are enough for one to
finish, or to be kept, while the other holds up the shutdown. `QuitCapacity` is 1,
which a second signal fills (3 in the code). The records cover each rank of
`compareAddrs`, a private address, a name that lists a private and a public one, a
`/dnsaddr` that names another peer and one inside a longer address, which no lookup
can expand.

Deadlock is checked where the system goes on for ever. `ManyIter` and
`ParallelIPNS` model one call, which ends, and `Server` a process, which ends, so
their runs switch it off.

## Fairness

- `CacheFallback`: weak fairness for the goroutines of the live requests (`Live`).
  The handler calls `Next` until it closes; a source ends by the routing
  timeout, a lookup by `DispatchedFindPeersTimeout`. The others may stop anywhere.
- `AddrBook`: weak fairness of the background goroutine, the probe loop and of
  each attempt (dials and lookups have timeouts), strong fairness of the clock,
  which the model stops while a handler runs. The network is not fair.
  `DeadPeerPurged` has two exemptions: the LRU of a million peers may keep evicting
  the peer's state, and failed lookups may have overflowed the backoff of the peer
  (finding 2). Without the second one TLC finds a peer that no provider record
  mentioned while lookups for it failed and that is dialled in every probe round,
  for ever, from the first record on that mentions it.
- `ManyIter`, `ParallelIPNS`: the consumer's call, the closer and the workers
  run on; the request ends some time (`server.WithRoutingTimeout`); a router's
  call returns once the request is over, and may hang until then.
- `DNSAddr`: the request's own steps (`ResolveStep`), and each query, which ends
  by `DNSAddrLookupTimeout`. Records need not arrive, nobody needs to cancel.
- `Server`: the main goroutine once it serves (`ShutdownStep`), which includes the
  5 seconds of the shutdown and that closing a DHT client returns, and the return
  of the listener. Requests may run for ever, clients keep their connections, and
  nobody has to send a signal.

## Findings

1. `fallback_lost`: `cacheFallbackIter.Next` ends when the count of lookups is
   0 and does not look at the channel again, so a record resolved just before
   is lost. `RecordStream` therefore allows a stream to end with resolved
   records, though never with pending ones.
2. `addrbook_overflow`: the backoff is negative from 23 failures on (then of
   either sign) and 0 from 52 on, so the peer is due at once and, as each
   failed probe renews the time of the last failure, never old enough to be
   evicted: the exemption of `DeadPeerPurged`. `/peers` lookups are not gated by the
   backoff and so can get there.
3. `addrbook_live`: an eviction that was decided before an identify was handled
   clears the addresses of the live session. The window is short.
4. `manyiter_close`: `Close` after `Next` returned false neither cancels nor
   closes the routers' iterators.

Remarks of the same kind that no run is about: `lastConnTime` of the address book
is written and never read, so a peer is due for a probe the moment it disconnects;
a graceful shutdown that takes longer than 5 seconds, which is less than the routing
timeout of 25, leaves the DHT clients open although CHANGELOG.md:52 has no such
exception (an abort in `Service`); the tracer provider is shut down with a context
that the deferred call of server.go:362 has cancelled; a URL with the path of
another kind and a trailing slash passes `normalizeEndpointURL`; `PutIPNS` with
nobody to ask succeeds; `ask getclosestpeers`, `getipns` and `putipns` do not expand
the default endpoint `auto`.

## Proofs

TLAPS proves, for any sets of requests, peers and routers and any bounds:

- `CacheFallback_proofs`: `TypeCorrect`, `AccountingCorrect`, `StreamsEndLate`,
  `PoolImplemented`. The invariant `IInv` adds to the accounting where lookups
  are: the lookup of a record that has not been dispatched is idle, so that
  dispatching one adds exactly one to the holders and to the count. The bounds
  of `slots` and of the counters are consequences of the accounting, which is why
  induction starts from a weaker type. `NoEarlyEnd` follows because only the
  consumer's own goroutine, which is past its load of the counter, starts
  lookups. Assumed: finitely many requests and capacities as in
  `ConstantsAssumption`.
- `CacheFallbackStream_proofs`: `StreamsAreSound`, `StreamImplemented`. The invariant
  is `Placement`: a record that has been pulled is in one place at most, returned,
  in the channel, or on its way to an answer, and what is returned is never bare. So
  an answer finds its record neither returned nor in the channel. Every step either leaves the places of a request alone or is one of a few moves
  (`Moves`), and each move is a step of `RecordStream`.
- `AddrBook_proofs`: `TypeCorrect`, `DemotedCorrect`, `RelayCappedCorrect`. Neither
  property is inductive, for an address can be permanent long after the peer went,
  as long as events wait. The invariant `Covers` says why this ends: a permanent
  address, and a connection that the handler has read and not yet stored, belong to
  a peer that is connected or whose disconnect is in the queue with its demotion
  still to come (`Covered`). A relay address beyond the cap is covered too, or the
  handler is about to cap it (`AboutToCap`): it has yet to read the relay addresses of
  its peer, or has read this one. Assumed: the durations are ordered as in
  `ConstantsAssumption`, as the code's are.
- `ManyIter_proofs`: `TypeCorrect`, `ClosedAreUnused`, `MergeImplemented`. The
  invariant says that the channel is closed only behind the last worker,
  iterators only behind the channel, and that until the stream is stopped each
  result yielded has been delivered or is being sent.
- `ParallelIPNS_proofs`: `TypeCorrect`, `VerdictCorrect`, `PutsCover`. The
  invariant says what the loop knows of each answer it has received; expiry only
  grows, so it stays true.

- `DNSAddr_proofs`: `TypeCorrect` (with it the bound on the depth), `BudgetCorrect`
  and `RoomCorrect`, for every zone, set of records and value of the limits. `IInv`
  adds where a request can be with what on its stack (`Placed`): a call that has
  passed the test of `expand` still has room for its frame until its results are
  pushed. `RoomInv` adds the cardinality of what the record has gained, on its way
  in `resolved` included, to the room left, which is the part that shrinks with it.

- `DNSAddrContents_proofs`: `NothingLostCorrect`, `OnlyOwnCorrect`, `KeptCorrect`, for
  every zone, cyclic ones included. What a `/dnsaddr` stands for is what the least
  set of keys closed under "lists" names, so that no induction over the zone is
  needed: while an expansion is complete there is a set of visited keys, and
  whatever one of them lists is visited, gained, on the stack or in work
  (`Visited`); when the stack is empty that set is closed, and so contains all that
  is reached. `Trail` says that frames and calls are reached by as many hops as
  their depth, so that hitting the limit is a cause; `Contents` is what holds of the
  record between expansions.

- `Server_proofs`: `TypeCorrect` and `ServiceImplemented`, for any configurations,
  connections, records and capacity of the channel. The invariant says that no
  client is open before `NewDHT`, that there are connections only behind a listener
  and a listener only behind `StartListener`, and that nobody listens or is
  connected once the shutdown has succeeded; so a request starts or ends only in
  the steps that `Service` calls serving.
  `EndpointsCorrect`: a URL that is a base, at most the path of its kind and at most
  one slash (`WellSpelled`) is cut to its base by the steps of `start`, whichever of
  them apply, and `Wired` and `Configured` keep what was built. `AutoEndpointsAssumption`
  says that autoconf's URLs have that form, which is how boxo builds them from a base
  and a path. The other spellings are those in which bases are told apart although
  they are equal; the hazards list them.
  `SanitizedCorrect`, `FilteredCorrect`, `OrderCorrect`: `Layering` finds the layers of
  every branch of every router, `Flows` what three layers at most make of a record
  (`Delivered`), and `SentAsRouted` holds of the last record sent. `sortedAddrs` is
  defined by position (an address comes behind as many as are below it) and `Sorts`
  shows that this is a listing of the set, each once and in order, because
  `compareAddrs` is a total order. Assumed (`AddressAssumption`, `RecordsAssumption`):
  the bytes identify an address, a name lists finitely many and, as `expand` goes on
  until there is none left, no name. `FilteredCorrect` needs no lookup to succeed: it is
  about each `/dnsaddr` by itself, which is left only if it was not expanded in full.

Only model-checked: all liveness properties, and with them `FairSpec` and what depends
on `ENABLED`, which the prover cannot reason about. The four runs that end in a
violation refute what they state. Every invariant, action property and refinement
that another run checks is a theorem. A refinement is proved for the safety part
of the abstract specification, the only part that it has.

## Not modelled, and the plan

The proofs cover what can be proved of the properties above; further ones need
further properties. Candidates are the hazards that none covers yet (a peer whose
failures were forgotten counts as contacted lately, the moment between the two calls
of `replacePeerAddrs`), which would first need a property that the code promises.

Left out: HTTP handling and formats (boxo), the DHT and the libp2p host
(external; modelled by what they report), the autoconf client and its refresh
(external; start reads its result once), the conversion of IPNS records in
`libp2pRouter`, metrics, logging, tracing, compression and CORS, the resource
manager, and the client with its `ask` commands, which send one request and have
no state.
