------------------------------- MODULE AddrBook -------------------------------
(***************************************************************************)
(* cachedAddrBook of cached_addr_book.go: the cached addresses of peers    *)
(* with their remaining lifetimes, the peerCache of connection failures    *)
(* that backs peers off, the background goroutine that handles the host's  *)
(* events one at a time, the probe loop, and the callers of                *)
(* RecordFailedConnection, whose read and write of peerCache are separate  *)
(* steps.                                                                  *)
(*                                                                         *)
(* Time is kept as ages and remaining lifetimes in ticks.  A tick is       *)
(* minutes long, so none falls inside an event handler or inside a call of *)
(* RecordFailedConnection.  Addresses are the publicly dialable ones.      *)
(***************************************************************************)
EXTENDS Integers, Sequences, FiniteSets

CONSTANTS Peers,
          Addrs, RelayAddrs,    \* addresses, and those with /p2p-circuit
          Dialers,              \* the slots of probePeers' semaphore
          Lookers,              \* lookups that may be in flight at once
          PeerProbeThreshold,   \* in ticks
          MaxBackoffDuration,
          RecentlyConnectedTTL,
          RelayAddrTTL,
          WordSize,             \* bits of time.Duration (64 in the code)
          MaxFailures,          \* bound: no lookup starts beyond this count
          MaxEvents             \* bound: events waiting in the subscription

ASSUME ConstantsAssumption ==
  /\ RelayAddrs \subseteq Addrs
  /\ {"none", "inbound"} \cap Addrs = {}
  /\ Dialers \cap Lookers = {}
  /\ {PeerProbeThreshold, RelayAddrTTL, WordSize} \subseteq Nat \ {0}
  /\ MaxBackoffDuration \in Nat /\ MaxBackoffDuration >= PeerProbeThreshold
  /\ RecentlyConnectedTTL \in Nat /\ RecentlyConnectedTTL >= RelayAddrTTL
  /\ MaxFailures \in Nat /\ MaxEvents \in Nat

VARIABLES conn,        \* how each peer is connected: "none", by a dialable
                       \* remote address, or "inbound"
          identify,    \* "none", "pending", or "done" once its event is out
          gone,        \* peers that will never connect again
          events,      \* the subscription: sub.Out()
          handler,     \* the background goroutine, at Head(events)
          peerCache,   \* the peerState of each peer
          ttl,         \* remaining lifetime of each address; 0 is absent
          caller,      \* probe dials and lookups
          probe        \* probePeers: isProbing, the peers left to visit, and
                       \* those (at most one) that wait for the semaphore

vars == <<conn, identify, gone, events, handler, peerCache, ttl, caller, probe>>

Callers == Dialers \cup Lookers
ConnectedAddrTTL == RecentlyConnectedTTL + 1   \* lasts until it is replaced

\* Ages saturate beyond every duration they are compared with; a zero
\* time.Time is that old.
LongAgo == MaxBackoffDuration + 1
Age == 0 .. LongAgo

\* lastConnTime is left out: the code writes it and never reads it.
NoState == [exists |-> FALSE, connectFailures |-> 0, sinceFailed |-> LongAgo]
PeerState == [exists : BOOLEAN, connectFailures : Nat, sinceFailed : Age]

\* An identify carries the addresses of a signed peer record, or listen addresses.
Event == [kind : {"identified", "disconnected"}, peer : Peers,
          signed : BOOLEAN, addrs : SUBSET Addrs]

\* What the handler does next: one call of the host or of a store at a time.
HandlerPC == {"idle", "ttl", "conns", "clear", "add", "relays", "cap", "live",
              "relaysOnly", "capOnly"}
IdleHandler == [pc |-> "idle", ttl |-> 0, conns |-> {}, relays |-> {}]
NoProbe == [isProbing |-> FALSE, todo |-> {}, next |-> {}]
Idle == [pc |-> "idle", peer |-> "none", seen |-> NoState]

TypeOK ==
  /\ conn \in [Peers -> Addrs \cup {"none", "inbound"}]
  /\ identify \in [Peers -> {"none", "pending", "done"}]
  /\ gone \in SUBSET Peers
  /\ events \in Seq(Event) /\ Len(events) <= MaxEvents
  /\ handler \in [pc : HandlerPC, ttl : 0 .. ConnectedAddrTTL,
                  conns : SUBSET Addrs, relays : SUBSET RelayAddrs]
  /\ peerCache \in [Peers -> PeerState]
  /\ ttl \in [Peers -> [Addrs -> 0 .. ConnectedAddrTTL]]
  /\ caller \in [Callers -> [pc : {"idle", "trying", "peeked", "removed"},
                             peer : Peers \cup {"none"}, seen : PeerState]]
  /\ probe \in [isProbing : BOOLEAN, todo : SUBSET Peers, next : SUBSET Peers]
  /\ Cardinality(probe.next) <= 1

Init ==
  /\ conn = [p \in Peers |-> "none"]
  /\ identify = [p \in Peers |-> "none"]
  /\ gone = {}
  /\ events = << >>
  /\ handler = IdleHandler
  /\ peerCache = [p \in Peers |-> NoState]
  /\ ttl = [p \in Peers |-> [a \in Addrs |-> 0]]
  /\ caller = [c \in Callers |-> Idle]
  /\ probe = NoProbe

-----------------------------------------------------------------------------
(* The address book of libp2p (pstoremem), as far as it is used.           *)

HasAddrs(p) == \E a \in Addrs : ttl[p][a] > 0

\* AddAddrs never shortens a lifetime; SetAddrs sets it.
AddAddrs(p, S, t) ==
  ttl' = [ttl EXCEPT ![p] = [a \in Addrs |->
                               IF a \in S /\ ttl[p][a] < t THEN t ELSE ttl[p][a]]]
SetAddrs(p, S, t) ==
  ttl' = [ttl EXCEPT ![p] = [a \in Addrs |-> IF a \in S THEN t ELSE ttl[p][a]]]
UpdateAddrs(p, old, new) ==
  ttl' = [ttl EXCEPT ![p] = [a \in Addrs |-> IF ttl[p][a] = old THEN new ELSE ttl[p][a]]]
ClearAddrs(p) == ttl' = [ttl EXCEPT ![p] = [a \in Addrs |-> 0]]

-----------------------------------------------------------------------------
(* Backoff.                                                                *)

\* A signed integer of WordSize bits.
Wrap(n) ==
  LET m == n % (2 ^ WordSize)
  IN  IF m >= 2 ^ (WordSize - 1) THEN m - 2 ^ WordSize ELSE m

Doubled(failures) == PeerProbeThreshold * 2 ^ (failures - 1)

BackoffDuration(failures) ==
  IF failures = 0 THEN PeerProbeThreshold
  ELSE LET doubled == Wrap(Doubled(failures))
       IN  IF doubled < MaxBackoffDuration THEN doubled ELSE MaxBackoffDuration

\* From WordSize + 1 failures on every bit is shifted out and Wrap gives 0, and
\* nothing else tells such counts apart, so counting stops there.
OneMoreFailure(n) == IF n > WordSize THEN n ELSE n + 1

ShouldProbePeer(p) ==
  \/ ~peerCache[p].exists
  \/ peerCache[p].sinceFailed > BackoffDuration(peerCache[p].connectFailures)

-----------------------------------------------------------------------------
(* The network, and provider records that mention a peer.                  *)

Emit(kind, p, signed, S) ==
  /\ Len(events) < MaxEvents
  /\ events' = Append(events, [kind |-> kind, peer |-> p, signed |-> signed, addrs |-> S])

Connect(p, via) ==
  /\ conn[p] = "none" /\ p \notin gone
  /\ conn' = [conn EXCEPT ![p] = via]
  /\ identify' = [identify EXCEPT ![p] = "pending"]
  /\ UNCHANGED <<gone, events, handler, peerCache, ttl, caller, probe>>

\* The identify exchange completes; its event may follow a disconnect.
IdentifyCompletes(p) ==
  /\ identify[p] = "pending"
  /\ \E signed \in BOOLEAN, S \in SUBSET Addrs : Emit("identified", p, signed, S)
  /\ identify' = [identify EXCEPT ![p] = IF conn[p] = "none" THEN "none" ELSE "done"]
  /\ UNCHANGED <<conn, gone, handler, peerCache, ttl, caller, probe>>

IdentifyFails(p) ==
  /\ identify[p] = "pending"
  /\ identify' = [identify EXCEPT ![p] = "none"]
  /\ UNCHANGED <<conn, gone, events, handler, peerCache, ttl, caller, probe>>

Disconnect(p) ==
  /\ conn[p] # "none"
  /\ Emit("disconnected", p, FALSE, {})
  /\ conn' = [conn EXCEPT ![p] = "none"]
  /\ identify' = [identify EXCEPT ![p] = IF @ = "done" THEN "none" ELSE @]
  /\ UNCHANGED <<gone, handler, peerCache, ttl, caller, probe>>

Depart(p) ==
  /\ conn[p] = "none"
  /\ gone' = gone \cup {p}
  /\ UNCHANGED <<conn, identify, events, handler, peerCache, ttl, caller, probe>>

\* CacheAddrs of the addresses in a provider record.
CacheAddrs(p, S) ==
  /\ S # {}
  /\ ttl' = [ttl EXCEPT ![p] = [a \in Addrs |->
       LET t == IF a \in RelayAddrs THEN RelayAddrTTL ELSE RecentlyConnectedTTL
       IN  IF a \in S /\ @[a] < t THEN t ELSE @[a]]]
  /\ UNCHANGED <<conn, identify, gone, events, handler, peerCache, caller, probe>>

\* The LRU drops the state of a peer to make room for others.
LRUEvicts(p) ==
  /\ peerCache' = [peerCache EXCEPT ![p] = NoState]
  /\ UNCHANGED <<conn, identify, gone, events, handler, ttl, caller, probe>>

-----------------------------------------------------------------------------
(* background: one event at a time.                                        *)

Handles(from, to) ==
  /\ handler.pc = from
  /\ handler' = [handler EXCEPT !.pc = to]
  /\ UNCHANGED <<conn, identify, gone, caller, probe>>

HandlerDone(from) ==
  /\ handler.pc = from
  /\ handler' = IdleHandler
  /\ events' = Tail(events)
  /\ UNCHANGED <<conn, identify, gone, caller, probe>>

Handled == Head(events)

\* EvtPeerIdentificationCompleted: every field of the peer state is replaced.
IdentifiedResets ==
  /\ events # << >> /\ Handled.kind = "identified"
  /\ Handles("idle", "ttl")
  /\ peerCache' = [peerCache EXCEPT ![Handled.peer] =
                     [exists |-> TRUE, connectFailures |-> 0,
                      sinceFailed |-> LongAgo]]
  /\ UNCHANGED <<events, ttl>>

\* getTTL of the connectedness at this moment.
IdentifiedReadsTTL ==
  /\ handler.pc = "ttl"
  /\ handler' = [handler EXCEPT !.pc = "conns",
       !.ttl = IF conn[Handled.peer] = "none" THEN RecentlyConnectedTTL ELSE ConnectedAddrTTL]
  /\ UNCHANGED <<conn, identify, gone, events, peerCache, ttl, caller, probe>>

\* Variant for TypeOK: the remote address of an inbound connection is kept.
IdentifiedReadsAllConns ==
  /\ handler.pc = "conns"
  /\ handler' = [handler EXCEPT !.pc = "clear", !.conns = {conn[Handled.peer]}]
  /\ UNCHANGED <<conn, identify, gone, events, peerCache, ttl, caller, probe>>

\* The remote addresses of live connections, but not of inbound ones.
IdentifiedReadsConns ==
  /\ handler.pc = "conns"
  /\ handler' = [handler EXCEPT !.pc = "clear", !.conns = {conn[Handled.peer]} \cap Addrs]
  /\ UNCHANGED <<conn, identify, gone, events, peerCache, ttl, caller, probe>>

\* replacePeerAddrs, call by call.
ReplaceClears ==
  /\ handler.pc = "clear"
  /\ Handled.signed \/ Handled.addrs \cup handler.conns # {}
  /\ Handles("clear", "add")
  /\ ClearAddrs(Handled.peer)
  /\ UNCHANGED <<events, peerCache>>

ReplacesNothing ==
  /\ handler.pc = "clear"
  /\ ~Handled.signed /\ Handled.addrs \cup handler.conns = {}
  /\ HandlerDone("clear")
  /\ UNCHANGED <<peerCache, ttl>>

ReplaceAdds ==
  /\ Handles("add", "relays")
  /\ AddAddrs(Handled.peer, Handled.addrs, handler.ttl)
  /\ UNCHANGED <<events, peerCache>>

\* capRelayAddrTTL reads the relay addresses that are stored, ...
ReadsRelays(from, to) ==
  /\ handler.pc = from
  /\ handler' = [handler EXCEPT !.pc = to,
                               !.relays = {a \in RelayAddrs : ttl[Handled.peer][a] > 0}]
  /\ UNCHANGED <<conn, identify, gone, events, peerCache, ttl, caller, probe>>

\* ... and then stores these at exactly RelayAddrTTL.
CapRelayAddrTTL == SetAddrs(Handled.peer, handler.relays, RelayAddrTTL)

ReplaceReadsRelays == ReadsRelays("relays", "cap")

\* Variant for RelayCapped: the advertised relay addresses are not capped.
ReplaceDoesNotCap ==
  /\ Handles("cap", "live")
  /\ UNCHANGED <<events, peerCache, ttl>>

ReplaceCaps ==
  /\ Handles("cap", "live")
  /\ CapRelayAddrTTL
  /\ UNCHANGED <<events, peerCache>>

ReplaceKeepsLive ==
  /\ HandlerDone("live")
  /\ AddAddrs(Handled.peer, handler.conns, ConnectedAddrTTL)
  /\ UNCHANGED peerCache

\* Variant for Demoted: a disconnect only caps the relay addresses.
DisconnectedOnlyCaps ==
  /\ events # << >> /\ Handled.kind = "disconnected"
  /\ Handles("idle", "relaysOnly")
  /\ UNCHANGED <<events, peerCache, ttl>>

\* EvtPeerConnectednessChanged to a connectedness that is not valid.
DisconnectedDemotes ==
  /\ events # << >> /\ Handled.kind = "disconnected"
  /\ Handles("idle", "relaysOnly")
  /\ UpdateAddrs(Handled.peer, ConnectedAddrTTL, RecentlyConnectedTTL)
  /\ UNCHANGED <<events, peerCache>>

DisconnectedReadsRelays == ReadsRelays("relaysOnly", "capOnly")

DisconnectedCaps ==
  /\ HandlerDone("capOnly")
  /\ CapRelayAddrTTL
  /\ UNCHANGED peerCache

-----------------------------------------------------------------------------
(* probePeers, started by the ticker of background.                        *)

OnlyProbe == UNCHANGED <<conn, identify, gone, events, handler, peerCache, ttl>>

ProbeStarts ==
  /\ ~probe.isProbing
  /\ handler.pc = "idle"
  /\ probe' = [NoProbe EXCEPT !.isProbing = TRUE, !.todo = {p \in Peers : HasAddrs(p)}]
  /\ OnlyProbe /\ UNCHANGED caller

\* The peer is neither connected nor backed off, and has addresses.
Due(p) == conn[p] = "none" /\ ShouldProbePeer(p) /\ HasAddrs(p)

ProbeVisits(p) ==
  /\ p \in probe.todo /\ probe.next = {}
  /\ probe' = [probe EXCEPT !.todo = @ \ {p}, !.next = IF Due(p) THEN {p} ELSE {}]
  /\ OnlyProbe /\ UNCHANGED caller

Try(c, p) == caller' = [caller EXCEPT ![c] = [Idle EXCEPT !.pc = "trying", !.peer = p]]

\* The semaphore has room.  By now the peer may be connected, and then
\* host.Connect returns at once.
ProbeDials(c) ==
  /\ c \in Dialers /\ caller[c] = Idle
  /\ \E p \in probe.next : IF conn[p] = "none" THEN Try(c, p) ELSE UNCHANGED caller
  /\ probe' = [probe EXCEPT !.next = {}]
  /\ OnlyProbe

\* wg.Wait, and isProbing is reset.
ProbeEnds ==
  /\ probe = [NoProbe EXCEPT !.isProbing = TRUE]
  /\ \A c \in Dialers : caller[c] = Idle
  /\ probe' = NoProbe
  /\ OnlyProbe /\ UNCHANGED caller

-----------------------------------------------------------------------------
(* Attempts to reach a peer, by a dial of the probe loop or by a lookup    *)
(* that cachedRouter.FindPeers sends to the DHT when the cache misses; the *)
(* DHT always finds a connected peer.                                      *)

LookupStarts(c, p) ==
  /\ c \in Lookers /\ caller[c] = Idle
  /\ ~HasAddrs(p) /\ conn[p] = "none"
  /\ peerCache[p].connectFailures < MaxFailures
  /\ Try(c, p)
  /\ OnlyProbe /\ UNCHANGED probe

\* host.Connect succeeds, or finds the peer connected; or the lookup does not
\* end in ErrNotFound.
Succeeds(c) ==
  /\ caller[c].pc = "trying"
  /\ caller' = [caller EXCEPT ![c] = Idle]
  /\ LET p == caller[c].peer IN
     IF c \in Dialers /\ conn[p] = "none"
     THEN /\ p \notin gone
          /\ conn' \in {[conn EXCEPT ![p] = a] : a \in Addrs}
          /\ identify' = [identify EXCEPT ![p] = "pending"]
     ELSE UNCHANGED <<conn, identify>>
  /\ UNCHANGED <<gone, events, handler, peerCache, ttl, probe>>

\* RecordFailedConnection: Peek, ...
FailurePeeks(c) ==
  /\ caller[c].pc = "trying"
  /\ caller' = [caller EXCEPT ![c] =
                  [@ EXCEPT !.pc = "peeked", !.seen = peerCache[caller[c].peer]]]
  /\ OnlyProbe /\ UNCHANGED probe

Evictable(s) ==
  s.exists /\ s.connectFailures > 1 /\ s.sinceFailed > MaxBackoffDuration

\* ... then Add one failure to what was read, ...
FailureAdds(c) ==
  /\ caller[c].pc = "peeked" /\ ~Evictable(caller[c].seen)
  /\ peerCache' = [peerCache EXCEPT ![caller[c].peer] =
                     [caller[c].seen EXCEPT !.exists = TRUE, !.sinceFailed = 0,
                                            !.connectFailures = OneMoreFailure(@)]]
  /\ caller' = [caller EXCEPT ![c] = Idle]
  /\ UNCHANGED <<conn, identify, gone, events, handler, ttl, probe>>

\* ... or Remove the peer and ClearAddrs.
FailureRemoves(c) ==
  /\ caller[c].pc = "peeked" /\ Evictable(caller[c].seen)
  /\ peerCache' = [peerCache EXCEPT ![caller[c].peer] = NoState]
  /\ caller' = [caller EXCEPT ![c].pc = "removed"]
  /\ UNCHANGED <<conn, identify, gone, events, handler, ttl, probe>>

\* Variant for DeadPeerPurged: the peer is dropped from peerCache alone.
FailureClearsNothing(c) ==
  /\ caller[c].pc = "removed"
  /\ caller' = [caller EXCEPT ![c] = Idle]
  /\ UNCHANGED <<conn, identify, gone, events, handler, peerCache, ttl, probe>>

FailureClears(c) ==
  /\ caller[c].pc = "removed"
  /\ ClearAddrs(caller[c].peer)
  /\ caller' = [caller EXCEPT ![c] = Idle]
  /\ UNCHANGED <<conn, identify, gone, events, handler, peerCache, probe>>

-----------------------------------------------------------------------------
Tick ==
  /\ handler.pc = "idle"
  /\ \A c \in Callers : caller[c].pc \in {"idle", "trying"}
  /\ LET Older(n) == IF n = LongAgo THEN n ELSE n + 1
     IN  peerCache' = [p \in Peers |->
           [peerCache[p] EXCEPT !.sinceFailed = Older(@)]]
  /\ ttl' = [p \in Peers |-> [a \in Addrs |->
               IF ttl[p][a] \in {0, ConnectedAddrTTL} THEN ttl[p][a] ELSE ttl[p][a] - 1]]
  /\ UNCHANGED <<conn, identify, gone, events, handler, caller, probe>>

Network(p) ==
  \/ \E via \in Addrs \cup {"inbound"} : Connect(p, via)
  \/ IdentifyCompletes(p) \/ IdentifyFails(p) \/ Disconnect(p) \/ Depart(p)
  \/ \E S \in SUBSET Addrs : CacheAddrs(p, S)
  \/ LRUEvicts(p)

Background ==
  \/ IdentifiedResets \/ IdentifiedReadsTTL \/ IdentifiedReadsConns
  \/ ReplacesNothing \/ ReplaceClears \/ ReplaceAdds
  \/ ReplaceReadsRelays \/ ReplaceCaps \/ ReplaceKeepsLive
  \/ DisconnectedDemotes \/ DisconnectedReadsRelays \/ DisconnectedCaps

Probing ==
  \/ ProbeStarts \/ ProbeEnds
  \/ \E p \in Peers : ProbeVisits(p)
  \/ \E c \in Dialers : ProbeDials(c)

Attempt(c) ==
  \/ Succeeds(c) \/ FailurePeeks(c)
  \/ FailureAdds(c) \/ FailureRemoves(c) \/ FailureClears(c)

Next ==
  \/ \E p \in Peers : Network(p)
  \/ Background
  \/ Probing
  \/ \E c \in Callers : Attempt(c) \/ \E p \in Peers : LookupStarts(c, p)
  \/ Tick

Spec == Init /\ [][Next]_vars

\* The goroutines run on (dials and lookups have timeouts), and time passes.
Fairness ==
  /\ WF_vars(Background)
  /\ WF_vars(Probing)
  /\ \A c \in Callers : WF_vars(Attempt(c))
  /\ SF_vars(Tick)

FairSpec == Spec /\ Fairness

-----------------------------------------------------------------------------
(* Properties.                                                             *)

\* No event of p is waiting or being handled.
Quiet(p) == \A i \in DOMAIN events : events[i].peer # p

\* An address held without expiry is demoted when its peer disconnects, even
\* when identify completes late, or while the peer disconnects or reconnects:
\* once the events are handled no address of a disconnected peer is permanent.
Demoted ==
  \A p \in Peers : conn[p] = "none" /\ Quiet(p) =>
    \A a \in Addrs : ttl[p][a] # ConnectedAddrTTL

\* docs/peer-address-caching.md, "Relay addresses": a relay path of a peer that
\* is not connected is never served for longer than RelayAddrTTL.
RelayCapped ==
  \A p \in Peers : conn[p] = "none" /\ Quiet(p) =>
    \A a \in RelayAddrs : ttl[p][a] <= RelayAddrTTL

\* The doubling has left the range of a duration (see FailureBacksOff).
Overflowed(p) ==
  LET n == peerCache[p].connectFailures
  IN  n > 0 /\ Wrap(Doubled(n)) # Doubled(n)

\* "Dead peers are purged": a peer that never answers again loses its cached
\* addresses some time, although provider records keep renewing them.  There are
\* two exemptions.  The LRU may go on forgetting its failures; and so many
\* lookups, which no backoff holds up, may have failed while it had no address
\* that its backoff overflowed: then every probe round dials it, each failure
\* renews sinceFailed, and it is never old enough to be evicted.
DeadPeerPurged ==
  \A p \in Peers :
    <>[][~LRUEvicts(p)]_vars => (p \in gone ~> ~HasAddrs(p) \/ Overflowed(p))

\* ShouldProbePeer's comments: one failure backs a peer off for
\* PeerProbeThreshold and each further one doubles that, up to the maximum, so
\* no peer is due within the threshold after a failure.
FailureBacksOff ==
  \A p \in Peers :
    peerCache[p].connectFailures > 0 /\ peerCache[p].sinceFailed <= PeerProbeThreshold
      => ~ShouldProbePeer(p)

\* The address of a live session is "permanent while connected": it is held
\* without expiry once the identify of the connection has been handled.
LiveSessionKept ==
  \A p \in Peers :
    conn[p] \in Addrs /\ identify[p] = "done" /\ Quiet(p)
      => ttl[p][conn[p]] = ConnectedAddrTTL
=============================================================================
