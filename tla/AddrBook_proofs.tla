---------------------------- MODULE AddrBook_proofs ----------------------------
(***************************************************************************)
(* Proofs about AddrBook: its types, that no address of a disconnected     *)
(* peer stays permanent, and that relay addresses respect their cap, for   *)
(* every number of peers, addresses and callers and every length of the    *)
(* subscription.                                                           *)
(***************************************************************************)
EXTENDS AddrBook, FiniteSetTheorems, TLAPS

(* The inductive invariant.                                                *)

Handler == [pc : HandlerPC, ttl : 0 .. ConnectedAddrTTL,
            conns : SUBSET Addrs, relays : SUBSET RelayAddrs]

Types ==
  /\ conn \in [Peers -> Addrs \cup {"none", "inbound"}]
  /\ identify \in [Peers -> {"none", "pending", "done"}]
  /\ gone \in SUBSET Peers
  /\ events \in Seq(Event) /\ Len(events) <= MaxEvents
  /\ handler \in Handler
  /\ peerCache \in [Peers -> PeerState]
  /\ ttl \in [Peers -> [Addrs -> 0 .. ConnectedAddrTTL]]
  /\ caller \in [Callers -> [pc : {"idle", "trying", "peeked", "removed"},
                             peer : Peers \cup {"none"}, seen : PeerState]]
  /\ probe \in [isProbing : BOOLEAN, todo : SUBSET Peers, next : SUBSET Peers]

\* At most one peer waits for the semaphore, and attempts are for a peer.
Attempted ==
  /\ \A p, q \in probe.next : p = q
  /\ \A c \in Callers : caller[c].pc # "idle" => caller[c].peer \in Peers

\* The handler has demoted the peer of a disconnect and has yet to cap its
\* relay addresses.
Demoting == handler.pc \in {"relaysOnly", "capOnly"}

\* The handler is inside the event at the head, in the code for its kind.
Handling ==
  /\ handler.pc \in {"ttl", "conns", "clear", "add", "relays", "cap", "live"} =>
       events # << >> /\ Handled.kind = "identified"
  /\ Demoting => events # << >> /\ Handled.kind = "disconnected"

Control == Types /\ Attempted /\ Handling

\* A disconnect of p is in the queue whose demotion is still to come.
DemotionDue(p) ==
  \E i \in DOMAIN events :
     /\ events[i].kind = "disconnected" /\ events[i].peer = p
     /\ i = 1 => ~Demoting

Covered(p) == conn[p] # "none" \/ DemotionDue(p)

\* What the handler has read of a connection, and will store without expiry,
\* it has read of a peer that is connected or whose demotion is to come.
ReadCovered ==
  /\ handler.pc \in {"conns", "clear", "add"} /\ handler.ttl = ConnectedAddrTTL
       => Covered(Handled.peer)
  /\ handler.pc \in {"clear", "add", "relays", "cap", "live"} /\ handler.conns # {}
       => Covered(Handled.peer)

\* So is every permanent address, ...
PermanentCovered ==
  \A p \in Peers, a \in Addrs : ttl[p][a] = ConnectedAddrTTL => Covered(p)

\* ... and every relay address beyond its cap, unless the handler is about
\* to cap it: it has yet to read which addresses to cap, or has read this one.
AboutToCap(p, a) ==
  /\ Handled.peer = p
  /\ \/ handler.pc \in {"relays", "relaysOnly"}
     \/ handler.pc \in {"cap", "capOnly"} /\ a \in handler.relays

RelayCovered ==
  \A p \in Peers, a \in RelayAddrs :
    ttl[p][a] > RelayAddrTTL => Covered(p) \/ AboutToCap(p, a)

Covers == ReadCovered /\ PermanentCovered /\ RelayCovered

IInv == Control /\ Covers

-----------------------------------------------------------------------------
(* Control is inductive, goroutine by goroutine.                           *)

LEMMA Durations ==
  /\ ConnectedAddrTTL \in Nat /\ RelayAddrTTL \in Nat \ {0} /\ RecentlyConnectedTTL \in Nat
  /\ RelayAddrTTL <= RecentlyConnectedTTL /\ RecentlyConnectedTTL < ConnectedAddrTTL
  /\ LongAgo \in Nat \ {0}
  /\ NoState \in PeerState
  /\ RelayAddrs \subseteq Addrs
BY ConstantsAssumption DEF ConnectedAddrTTL, LongAgo, NoState, PeerState, Age

\* An event joins the queue; its head stays what it was.
LEMMA EmitTypes ==
  ASSUME Types, NEW kind \in {"identified", "disconnected"}, NEW p \in Peers,
         NEW signed \in BOOLEAN, NEW S \in SUBSET Addrs, Emit(kind, p, signed, S)
  PROVE  /\ events' \in Seq(Event) /\ Len(events') <= MaxEvents
         /\ DOMAIN events' = DOMAIN events \cup {Len(events) + 1}
         /\ \A i \in DOMAIN events : events'[i] = events[i]
         /\ events'[Len(events) + 1] =
              [kind |-> kind, peer |-> p, signed |-> signed, addrs |-> S]
         /\ events # << >> => events' # << >> /\ Head(events') = Head(events)
<1> DEFINE e == [kind |-> kind, peer |-> p, signed |-> signed, addrs |-> S]
<1>1. e \in Event
  BY DEF Event
<1>2. events' = Append(events, e) /\ Len(events) < MaxEvents /\ events \in Seq(Event)
  BY DEF Emit, Types
<1> HIDE DEF e
<1>3. /\ events' \in Seq(Event) /\ Len(events') = Len(events) + 1 /\ Len(events) \in Nat
      /\ \A i \in 1 .. Len(events) : events'[i] = events[i]
      /\ events'[Len(events) + 1] = e
      /\ DOMAIN events = 1 .. Len(events) /\ DOMAIN events' = 1 .. Len(events) + 1
  BY <1>1, <1>2
<1>4. events # << >> => Len(events) > 0
  BY <1>2
<1>5. QED
  BY <1>2, <1>3, <1>4, ConstantsAssumption DEF e

LEMMA ControlNetwork ==
  ASSUME Control, NEW p \in Peers, Network(p)
  PROVE  Control'
<1> USE DEF Control
<1>1. ASSUME NEW via \in Addrs \cup {"inbound"}, Connect(p, via) PROVE Control'
  <2>1. Types'
    BY <1>1 DEF Connect, Types
  <2>2. QED
    BY <1>1, <2>1 DEF Connect, Attempted, Handling, Handled, Demoting
<1>2. CASE IdentifyCompletes(p)
  <2>1. PICK signed \in BOOLEAN, S \in SUBSET Addrs : Emit("identified", p, signed, S)
    BY <1>2 DEF IdentifyCompletes
  <2>2. /\ events' \in Seq(Event) /\ Len(events') <= MaxEvents
        /\ events # << >> => events' # << >> /\ Head(events') = Head(events)
    BY <2>1, EmitTypes
  <2>3. identify' \in [Peers -> {"none", "pending", "done"}]
    BY <1>2 DEF IdentifyCompletes, Types
  <2>4. UNCHANGED <<conn, gone, handler, peerCache, ttl, caller, probe>>
    BY <1>2 DEF IdentifyCompletes
  <2>5. Types'
    BY <2>2, <2>3, <2>4 DEF Types
  <2>6. QED
    BY <2>2, <2>4, <2>5 DEF Attempted, Handling, Handled, Demoting
<1>3. CASE IdentifyFails(p)
  <2>1. Types'
    BY <1>3 DEF IdentifyFails, Types
  <2>2. QED
    BY <1>3, <2>1 DEF IdentifyFails, Attempted, Handling, Handled, Demoting
<1>4. CASE Disconnect(p)
  <2>1. PICK signed \in BOOLEAN, S \in SUBSET Addrs : Emit("disconnected", p, signed, S)
    BY <1>4, Zenon DEF Disconnect
  <2>2. /\ events' \in Seq(Event) /\ Len(events') <= MaxEvents
        /\ events # << >> => events' # << >> /\ Head(events') = Head(events)
    BY <2>1, EmitTypes
  <2>3. /\ conn' \in [Peers -> Addrs \cup {"none", "inbound"}]
        /\ identify' \in [Peers -> {"none", "pending", "done"}]
    BY <1>4 DEF Disconnect, Types
  <2>4. UNCHANGED <<gone, handler, peerCache, ttl, caller, probe>>
    BY <1>4 DEF Disconnect
  <2>5. Types'
    BY <2>2, <2>3, <2>4 DEF Types
  <2>6. QED
    BY <2>2, <2>4, <2>5 DEF Attempted, Handling, Handled, Demoting
<1>5. CASE Depart(p)
  <2>1. Types'
    BY <1>5 DEF Depart, Types
  <2>2. QED
    BY <1>5, <2>1 DEF Depart, Attempted, Handling, Handled, Demoting
<1>6. ASSUME NEW S \in SUBSET Addrs, CacheAddrs(p, S) PROVE Control'
  <2>1. ttl' \in [Peers -> [Addrs -> 0 .. ConnectedAddrTTL]]
    <3> DEFINE new == [a \in Addrs |->
                 LET t == IF a \in RelayAddrs THEN RelayAddrTTL ELSE RecentlyConnectedTTL
                 IN  IF a \in S /\ ttl[p][a] < t THEN t ELSE ttl[p][a]]
    <3>1. ttl' = [ttl EXCEPT ![p] = new]
      BY <1>6 DEF CacheAddrs
    <3>2. \A a \in Addrs : ttl[p][a] \in 0 .. ConnectedAddrTTL
      BY DEF Types
    <3>3. new \in [Addrs -> 0 .. ConnectedAddrTTL]
      BY <3>2, Durations
    <3> HIDE DEF new
    <3>4. QED
      BY <3>1, <3>3 DEF Types
  <2>2. Types'
    BY <1>6, <2>1 DEF CacheAddrs, Types
  <2>3. QED
    BY <1>6, <2>2 DEF CacheAddrs, Attempted, Handling, Handled, Demoting
<1>7. CASE LRUEvicts(p)
  <2>1. Types'
    BY <1>7, Durations DEF LRUEvicts, Types
  <2>2. QED
    BY <1>7, <2>1 DEF LRUEvicts, Attempted, Handling, Handled, Demoting
<1>8. QED
  BY <1>1, <1>2, <1>3, <1>4, <1>5, <1>6, <1>7 DEF Network

\* The calls of the address book keep lifetimes in range.
LEMMA StoreTypes ==
  ASSUME Types, NEW p \in Peers
  PROVE  /\ \A S \in SUBSET Addrs, t \in 0 .. ConnectedAddrTTL :
              AddAddrs(p, S, t) => ttl' \in [Peers -> [Addrs -> 0 .. ConnectedAddrTTL]]
         /\ ClearAddrs(p) \/ (\E S \in SUBSET RelayAddrs : SetAddrs(p, S, RelayAddrTTL))
            \/ UpdateAddrs(p, ConnectedAddrTTL, RecentlyConnectedTTL)
              => ttl' \in [Peers -> [Addrs -> 0 .. ConnectedAddrTTL]]
<1>1. \A f \in [Addrs -> 0 .. ConnectedAddrTTL] :
        ttl' = [ttl EXCEPT ![p] = f] => ttl' \in [Peers -> [Addrs -> 0 .. ConnectedAddrTTL]]
  BY DEF Types
<1>2. \A a \in Addrs : ttl[p][a] \in 0 .. ConnectedAddrTTL
  BY DEF Types
<1>3. ASSUME NEW S \in SUBSET Addrs, NEW t \in 0 .. ConnectedAddrTTL, AddAddrs(p, S, t)
      PROVE  ttl' \in [Peers -> [Addrs -> 0 .. ConnectedAddrTTL]]
  <2>1. [a \in Addrs |-> IF a \in S /\ ttl[p][a] < t THEN t ELSE ttl[p][a]]
          \in [Addrs -> 0 .. ConnectedAddrTTL]
    BY <1>2
  <2>2. QED
    BY <1>1, <1>3, <2>1 DEF AddAddrs
<1>4. CASE ClearAddrs(p)
  <2>1. [a \in Addrs |-> 0] \in [Addrs -> 0 .. ConnectedAddrTTL]
    BY Durations
  <2>2. QED
    BY <1>1, <1>4, <2>1 DEF ClearAddrs
<1>5. ASSUME NEW S \in SUBSET RelayAddrs, SetAddrs(p, S, RelayAddrTTL)
      PROVE  ttl' \in [Peers -> [Addrs -> 0 .. ConnectedAddrTTL]]
  <2>1. [a \in Addrs |-> IF a \in S THEN RelayAddrTTL ELSE ttl[p][a]]
          \in [Addrs -> 0 .. ConnectedAddrTTL]
    BY <1>2, Durations
  <2>2. QED
    BY <1>1, <1>5, <2>1 DEF SetAddrs
<1>6. CASE UpdateAddrs(p, ConnectedAddrTTL, RecentlyConnectedTTL)
  <2>1. [a \in Addrs |-> IF ttl[p][a] = ConnectedAddrTTL THEN RecentlyConnectedTTL ELSE ttl[p][a]]
          \in [Addrs -> 0 .. ConnectedAddrTTL]
    BY <1>2, Durations
  <2>2. QED
    BY <1>1, <1>6, <2>1 DEF UpdateAddrs
<1>7. QED
  BY <1>3, <1>4, <1>5, <1>6

LEMMA ControlBackground ==
  ASSUME Control, Background
  PROVE  Control'
<1> USE DEF Control
<1>1. handler.pc # "idle" => events # << >>
  BY DEF Types, Handling, Handler, HandlerPC, Demoting
<1>2. events # << >> => /\ Handled \in Event /\ Handled.peer \in Peers /\ Handled.addrs \in SUBSET Addrs
                        /\ Tail(events) \in Seq(Event) /\ Len(Tail(events)) <= MaxEvents
  <2>1. ASSUME events # << >>
        PROVE  Handled \in Event /\ Tail(events) \in Seq(Event) /\ Len(Tail(events)) <= MaxEvents
    BY <2>1, ConstantsAssumption DEF Types, Handled
  <2>2. QED
    BY <2>1 DEF Event
<1>3. CASE IdentifiedResets
  <2>1. handler' = [handler EXCEPT !.pc = "ttl"] /\ events # << >> /\ Handled.kind = "identified"
        /\ UNCHANGED <<conn, identify, gone, caller, probe, events, ttl>>
    BY <1>3 DEF IdentifiedResets, Handles
  <2>2. peerCache' \in [Peers -> PeerState]
    <3>1. [exists |-> TRUE, connectFailures |-> 0, sinceFailed |-> LongAgo] \in PeerState
      BY Durations DEF PeerState, Age
    <3>2. QED
      BY <1>3, <3>1 DEF IdentifiedResets, Types
  <2>3. Types'
    BY <2>1, <2>2 DEF Types, Handler, HandlerPC
  <2>4. QED
    BY <2>1, <2>3 DEF Attempted, Handling, Handled, Types, Handler, HandlerPC, Demoting
<1>4. CASE IdentifiedReadsTTL
  <2>1. /\ RecentlyConnectedTTL \in 0 .. ConnectedAddrTTL
        /\ ConnectedAddrTTL \in 0 .. ConnectedAddrTTL
    BY Durations
  <2>2. handler' \in Handler
    BY <1>4, <2>1 DEF IdentifiedReadsTTL, Types, Handler, HandlerPC
  <2>3. Types'
    BY <1>4, <2>2 DEF IdentifiedReadsTTL, Types
  <2>4. QED
    BY <1>4, <2>3 DEF IdentifiedReadsTTL, Attempted, Handling, Handled, Types, Handler, HandlerPC, Demoting
<1>5. CASE IdentifiedReadsConns
  <2>1. PICK S \in SUBSET Addrs :
          handler' = [[handler EXCEPT !.pc = "clear"] EXCEPT !.conns = S]
    BY <1>5 DEF IdentifiedReadsConns
  <2>2. handler' \in Handler
    BY <2>1 DEF Types, Handler, HandlerPC
  <2>3. Types'
    BY <1>5, <2>2 DEF IdentifiedReadsConns, Types
  <2>4. QED
    BY <1>5, <2>3 DEF IdentifiedReadsConns, Attempted, Handling, Handled, Types, Handler, HandlerPC, Demoting
\* The calls of the address book that leave the handler inside its event.
<1>6. ASSUME NEW from \in {"idle", "clear", "add", "cap"},
             NEW to \in {"add", "relays", "live", "relaysOnly"},
             Handles(from, to), UNCHANGED <<events, peerCache>>,
             ttl' \in [Peers -> [Addrs -> 0 .. ConnectedAddrTTL]],
             events # << >> /\ (Handled.kind = "disconnected" <=> to = "relaysOnly")
      PROVE  Control'
  <2>1. /\ handler' = [handler EXCEPT !.pc = to]
        /\ UNCHANGED <<conn, identify, gone, caller, probe, events, peerCache>>
    BY <1>6 DEF Handles
  <2>2. Types'
    BY <1>6, <2>1 DEF Types, Handler, HandlerPC
  <2>3. Handled.kind \in {"identified", "disconnected"}
    BY <1>2, <1>6 DEF Event
  <2>4. QED
    BY <1>6, <2>1, <2>2, <2>3 DEF Attempted, Handling, Handled, Types, Handler, HandlerPC, Demoting
\* Those with which it leaves it.
<1>7. ASSUME NEW from \in {"clear", "live", "capOnly"}, HandlerDone(from), UNCHANGED peerCache,
             ttl' \in [Peers -> [Addrs -> 0 .. ConnectedAddrTTL]]
      PROVE  Control'
  <2>1. /\ handler' = IdleHandler /\ events' = Tail(events)
        /\ UNCHANGED <<conn, identify, gone, caller, probe, peerCache>>
        /\ events # << >>
    BY <1>1, <1>7 DEF HandlerDone
  <2>2. handler' \in Handler
        /\ handler'.pc = "idle"
    BY <2>1, Durations DEF IdleHandler, Handler, HandlerPC
  <2>3. Types'
    BY <1>2, <1>7, <2>1, <2>2 DEF Types
  <2>4. QED
    BY <2>1, <2>2, <2>3 DEF Attempted, Handling, Handled, Demoting
<1>8. ASSUME handler.pc # "idle" \/ events # << >>
      PROVE  /\ \A S \in SUBSET Addrs, t \in 0 .. ConnectedAddrTTL :
                  AddAddrs(Handled.peer, S, t) =>
                    ttl' \in [Peers -> [Addrs -> 0 .. ConnectedAddrTTL]]
             /\ \/ ClearAddrs(Handled.peer) \/ CapRelayAddrTTL
                \/ UpdateAddrs(Handled.peer, ConnectedAddrTTL, RecentlyConnectedTTL)
                => ttl' \in [Peers -> [Addrs -> 0 .. ConnectedAddrTTL]]
  <2>1. handler.relays \in SUBSET RelayAddrs
    BY DEF Types, Handler
  <2>2. QED
    BY <1>1, <1>2, <1>8, <2>1, StoreTypes DEF CapRelayAddrTTL
<1>9. CASE ReplacesNothing
  BY <1>7, <1>9 DEF ReplacesNothing, Types
<1>10. CASE ReplaceClears
  BY <1>6, <1>8, <1>10 DEF ReplaceClears, Handles, Handling
<1>11. CASE ReplaceAdds
  <2>1. handler.ttl \in 0 .. ConnectedAddrTTL
    BY DEF Types, Handler, HandlerPC
  <2>2. QED
    BY <1>1, <1>2, <1>6, <1>8, <1>11, <2>1 DEF ReplaceAdds, Handles, Handling
<1>12. CASE ReplaceCaps
  BY <1>6, <1>8, <1>12 DEF ReplaceCaps, Handles, Handling
<1>13. CASE ReplaceKeepsLive
  <2>1. handler.conns \in SUBSET Addrs /\ ConnectedAddrTTL \in 0 .. ConnectedAddrTTL
    BY Durations DEF Types, Handler, HandlerPC
  <2>2. QED
    BY <1>7, <1>8, <1>13, <2>1 DEF ReplaceKeepsLive, HandlerDone
<1>14. CASE DisconnectedDemotes
  BY <1>6, <1>8, <1>14 DEF DisconnectedDemotes
<1>15. CASE DisconnectedCaps
  BY <1>7, <1>8, <1>15 DEF DisconnectedCaps, HandlerDone
<1>16. CASE ReplaceReadsRelays \/ DisconnectedReadsRelays
  <2>1. PICK to \in {"cap", "capOnly"} :
          ReadsRelays(IF to = "cap" THEN "relays" ELSE "relaysOnly", to)
    BY <1>16 DEF ReplaceReadsRelays, DisconnectedReadsRelays
  <2>2. PICK S \in SUBSET RelayAddrs : handler' = [[handler EXCEPT !.pc = to] EXCEPT !.relays = S]
    BY <2>1 DEF ReadsRelays
  <2>3. handler' \in Handler /\ handler'.pc = to
    BY <2>2 DEF Types, Handler, HandlerPC
  <2>4. Types'
    BY <2>1, <2>3 DEF ReadsRelays, Types
  <2>5. QED
    BY <2>1, <2>3, <2>4 DEF ReadsRelays, Attempted, Handling, Demoting, Handled
<1>17. QED
  BY <1>3, <1>4, <1>5, <1>9, <1>10, <1>11, <1>12, <1>13, <1>14, <1>15, <1>16 DEF Background

LEMMA IdleTypes ==
  /\ Idle \in [pc : {"idle", "trying", "peeked", "removed"},
               peer : Peers \cup {"none"}, seen : PeerState]
  /\ Idle.pc = "idle"
  /\ \A p \in Peers :
       LET t == [Idle EXCEPT !.pc = "trying", !.peer = p]
       IN  /\ t \in [pc : {"idle", "trying", "peeked", "removed"},
                     peer : Peers \cup {"none"}, seen : PeerState]
           /\ t.peer = p
BY Durations DEF Idle

LEMMA ControlProbing ==
  ASSUME Control, Probing
  PROVE  Control'
<1> USE DEF Control, OnlyProbe
<1>1. CASE ProbeStarts
  <2>1. Types' /\ probe'.next = {}
    BY <1>1 DEF ProbeStarts, Types, NoProbe
  <2>2. QED
    BY <1>1, <2>1 DEF ProbeStarts, Attempted, Handling, Handled, Demoting
<1>2. CASE ProbeEnds
  <2>1. Types' /\ probe'.next = {}
    BY <1>2 DEF ProbeEnds, Types, NoProbe
  <2>2. QED
    BY <1>2, <2>1 DEF ProbeEnds, Attempted, Handling, Handled, Demoting
<1>3. ASSUME NEW p \in Peers, ProbeVisits(p) PROVE Control'
  <2>1. probe'.next \in {{}, {p}}
    BY <1>3 DEF ProbeVisits, Types
  <2>2. Types'
    BY <1>3 DEF ProbeVisits, Types
  <2>3. QED
    BY <1>3, <2>1, <2>2 DEF ProbeVisits, Attempted, Handling, Handled, Demoting
<1>4. ASSUME NEW c \in Dialers, ProbeDials(c) PROVE Control'
  <2>1. /\ UNCHANGED <<conn, identify, gone, events, handler, peerCache, ttl>>
        /\ probe' = [probe EXCEPT !.next = {}]
        /\ caller' = caller \/ \E p \in probe.next : Try(c, p)
    BY <1>4 DEF ProbeDials
  <2>2. c \in Callers /\ probe.next \subseteq Peers
    BY DEF Callers, Types
  <2>3. /\ caller' \in [Callers -> [pc : {"idle", "trying", "peeked", "removed"},
                                    peer : Peers \cup {"none"}, seen : PeerState]]
        /\ \A d \in Callers : caller'[d].pc # "idle" => caller'[d].peer \in Peers
    <3>1. CASE caller' = caller
      BY <3>1 DEF Types, Attempted
    <3>2. ASSUME NEW p \in Peers, Try(c, p)
          PROVE  /\ caller' \in [Callers -> [pc : {"idle", "trying", "peeked", "removed"},
                                           peer : Peers \cup {"none"}, seen : PeerState]]
                 /\ \A d \in Callers : caller'[d].pc # "idle" => caller'[d].peer \in Peers
      <4> DEFINE t == [Idle EXCEPT !.pc = "trying", !.peer = p]
      <4>1. t \in [pc : {"idle", "trying", "peeked", "removed"},
                  peer : Peers \cup {"none"}, seen : PeerState]
            /\ t.peer = p
        BY IdleTypes
      <4>2. caller' = [caller EXCEPT ![c] = t]
        BY <3>2 DEF Try
      <4> HIDE DEF t
      <4>3. QED
        BY <2>2, <4>1, <4>2 DEF Types, Attempted
    <3>3. QED
      BY <2>1, <2>2, <3>1, <3>2
  <2>4. probe' \in [isProbing : BOOLEAN, todo : SUBSET Peers, next : SUBSET Peers]
        /\ probe'.next = {}
    BY <2>1 DEF Types
  <2>5. Types'
    BY <2>1, <2>3, <2>4 DEF Types
  <2>6. QED
    BY <2>1, <2>3, <2>4, <2>5 DEF Attempted, Handling, Handled, Demoting
<1>5. QED
  BY <1>1, <1>2, <1>3, <1>4 DEF Probing

LEMMA ControlAttempt ==
  ASSUME Control, NEW c \in Callers, Attempt(c) \/ \E p \in Peers : LookupStarts(c, p)
  PROVE  Control'
<1> DEFINE Caller == [pc : {"idle", "trying", "peeked", "removed"},
                      peer : Peers \cup {"none"}, seen : PeerState]
<1> USE DEF Control, OnlyProbe
<1>1. caller \in [Callers -> Caller]
  BY DEF Types
\* What is left to show of a step that touches neither the events nor ttl.
<1>2. ASSUME UNCHANGED <<gone, events, handler, probe>>,
             conn' \in [Peers -> Addrs \cup {"none", "inbound"}],
             identify' \in [Peers -> {"none", "pending", "done"}],
             peerCache' \in [Peers -> PeerState],
             ttl' \in [Peers -> [Addrs -> 0 .. ConnectedAddrTTL]],
             \E s \in Caller : /\ caller' = [caller EXCEPT ![c] = s]
                               /\ s.pc # "idle" => s.peer \in Peers
      PROVE  Control'
  <2>1. /\ caller' \in [Callers -> Caller]
        /\ \A d \in Callers : caller'[d].pc # "idle" => caller'[d].peer \in Peers
    BY <1>1, <1>2 DEF Attempted
  <2>2. Types'
    BY <1>2, <2>1 DEF Types
  <2>3. QED
    BY <1>2, <2>1, <2>2 DEF Attempted, Handling, Handled, Demoting
<1>3. /\ conn \in [Peers -> Addrs \cup {"none", "inbound"}]
      /\ identify \in [Peers -> {"none", "pending", "done"}]
      /\ peerCache \in [Peers -> PeerState]
      /\ ttl \in [Peers -> [Addrs -> 0 .. ConnectedAddrTTL]]
  BY DEF Types
<1>4. Idle \in Caller /\ Idle.pc = "idle"
  BY IdleTypes
<1>5. ASSUME NEW p \in Peers, LookupStarts(c, p) PROVE Control'
  <2>1. [Idle EXCEPT !.pc = "trying", !.peer = p] \in Caller
        /\ [Idle EXCEPT !.pc = "trying", !.peer = p].peer = p
    BY IdleTypes
  <2>2. caller' = [caller EXCEPT ![c] = [Idle EXCEPT !.pc = "trying", !.peer = p]]
        /\ UNCHANGED <<conn, identify, gone, events, handler, peerCache, ttl, probe>>
    BY <1>5 DEF LookupStarts, Try
  <2>3. QED
    BY <1>2, <1>3, <2>1, <2>2
<1>6. CASE Succeeds(c)
  <2>1. caller' = [caller EXCEPT ![c] = Idle]
        /\ UNCHANGED <<gone, events, handler, peerCache, ttl, probe>>
    BY <1>6 DEF Succeeds
  <2>2. /\ conn' \in [Peers -> Addrs \cup {"none", "inbound"}]
        /\ identify' \in [Peers -> {"none", "pending", "done"}]
    <3>1. caller[c].peer \in Peers
      BY <1>6 DEF Succeeds, Attempted
    <3>2. CASE UNCHANGED <<conn, identify>>
      BY <1>3, <3>2
    <3>3. CASE /\ \E a \in Addrs : conn' = [conn EXCEPT ![caller[c].peer] = a]
               /\ identify' = [identify EXCEPT ![caller[c].peer] = "pending"]
      BY <1>3, <3>1, <3>3
    <3>4. QED
      BY <1>6, <3>2, <3>3 DEF Succeeds
  <2>3. QED
    BY <1>2, <1>3, <1>4, <2>1, <2>2
<1>7. CASE FailurePeeks(c)
  <2>1. caller[c].pc = "trying" /\ caller[c] \in Caller /\ caller[c].peer \in Peers
    BY <1>1, <1>7 DEF FailurePeeks, Attempted
  <2> DEFINE f == [caller[c] EXCEPT !.pc = "peeked"]
             s == [f EXCEPT !.seen = peerCache[caller[c].peer]]
  <2>2. s \in Caller /\ s.peer = caller[c].peer
    <3>1. f \in Caller /\ f.peer = caller[c].peer
      BY <2>1
    <3> HIDE DEF f
    <3>2. QED
      BY <1>3, <2>1, <3>1
  <2>3. caller' = [caller EXCEPT ![c] = s]
    BY <1>7 DEF FailurePeeks
  <2> HIDE DEF s
  <2>4. QED
    BY <1>2, <1>3, <1>7, <2>1, <2>2, <2>3 DEF FailurePeeks
<1>8. CASE FailureAdds(c)
  <2>1. caller[c].seen \in PeerState
    BY <1>1
  <2>2. [caller[c].seen EXCEPT !.exists = TRUE, !.sinceFailed = 0,
                             !.connectFailures = OneMoreFailure(@)] \in PeerState
    <3> DEFINE f == [caller[c].seen EXCEPT !.exists = TRUE]
               g == [f EXCEPT !.sinceFailed = 0]
    <3>1. f \in PeerState /\ f.connectFailures = caller[c].seen.connectFailures
      BY <2>1 DEF PeerState
    <3>2. g \in PeerState /\ g.connectFailures = caller[c].seen.connectFailures
      <4> HIDE DEF f
      <4>1. QED
        BY <3>1, Durations DEF PeerState, Age
    <3> HIDE DEF g
    <3>3. [g EXCEPT !.connectFailures = OneMoreFailure(g.connectFailures)] \in PeerState
      BY <3>2 DEF PeerState, OneMoreFailure
    <3>4. QED
      BY <3>2, <3>3 DEF g
  <2>3. peerCache' \in [Peers -> PeerState]
    BY <1>3, <1>8, <2>2 DEF FailureAdds
  <2>4. QED
    BY <1>2, <1>3, <1>4, <1>8, <2>3 DEF FailureAdds
<1>9. CASE FailureRemoves(c)
  <2>1. caller[c].pc = "peeked" /\ caller[c] \in Caller /\ caller[c].peer \in Peers
    BY <1>1, <1>9 DEF FailureRemoves, Attempted
  <2>2. peerCache' \in [Peers -> PeerState]
    BY <1>3, <1>9, Durations DEF FailureRemoves
  <2> DEFINE s == [caller[c] EXCEPT !.pc = "removed"]
  <2>3. s \in Caller /\ s.peer = caller[c].peer
    BY <2>1
  <2>4. caller' = [caller EXCEPT ![c] = s]
    BY <1>1, <1>9 DEF FailureRemoves
  <2> HIDE DEF s
  <2>5. QED
    BY <1>2, <1>3, <1>9, <2>1, <2>2, <2>3, <2>4 DEF FailureRemoves
<1>10. CASE FailureClears(c)
  <2>1. caller[c].peer \in Peers
    BY <1>10 DEF FailureClears, Attempted
  <2>2. ttl' \in [Peers -> [Addrs -> 0 .. ConnectedAddrTTL]]
    BY <1>10, <2>1, StoreTypes DEF FailureClears
  <2>3. QED
    BY <1>2, <1>3, <1>4, <1>10, <2>2 DEF FailureClears
<1>11. QED
  BY <1>5, <1>6, <1>7, <1>8, <1>9, <1>10 DEF Attempt

LEMMA ControlTick ==
  ASSUME Control, Tick
  PROVE  Control'
<1>1. UNCHANGED <<conn, identify, gone, events, handler, caller, probe>>
  BY DEF Tick
<1>2. peerCache' \in [Peers -> PeerState]
  <2>1. \A p \in Peers : peerCache[p] \in PeerState
    BY DEF Control, Types
  <2>2. ASSUME NEW p \in Peers
        PROVE  peerCache'[p] \in PeerState
    <3> DEFINE n == peerCache[p].sinceFailed
    <3>1. n \in Age /\ (n # LongAgo => n + 1 \in Age)
      BY <2>1, Durations DEF PeerState, Age
    <3>2. peerCache'[p] = [peerCache[p] EXCEPT !.sinceFailed = IF n = LongAgo THEN n ELSE n + 1]
      BY DEF Tick
    <3> HIDE DEF n
    <3>3. QED
      BY <2>1, <3>1, <3>2 DEF PeerState
  <2>3. QED
    BY <2>2 DEF Tick
<1>3. ttl' \in [Peers -> [Addrs -> 0 .. ConnectedAddrTTL]]
  <2>1. \A p \in Peers, a \in Addrs : ttl[p][a] \in 0 .. ConnectedAddrTTL
    BY DEF Control, Types
  <2>2. \A p \in Peers, a \in Addrs :
          (IF ttl[p][a] \in {0, ConnectedAddrTTL} THEN ttl[p][a] ELSE ttl[p][a] - 1)
            \in 0 .. ConnectedAddrTTL
    BY <2>1, Durations
  <2>3. QED
    BY <2>2 DEF Tick
<1>4. Types'
  BY <1>1, <1>2, <1>3 DEF Control, Types
<1>5. QED
  BY <1>1, <1>4 DEF Control, Attempted, Handling, Handled, Demoting

LEMMA ControlStep == Control /\ [Next]_vars => Control'
<1>1. ASSUME Control, UNCHANGED vars PROVE Control'
  BY <1>1 DEF vars, Control, Types, Attempted, Handling, Handled, Handler, HandlerPC, Demoting
<1>2. QED
  BY <1>1, ControlNetwork, ControlBackground, ControlProbing, ControlAttempt, ControlTick
     DEF Next

-----------------------------------------------------------------------------
(* The cover of permanent addresses and of relay addresses is inductive.   *)

\* A step that makes no address permanent and lifts no relay address beyond
\* its cap.
Lowers ==
  \A p \in Peers, a \in Addrs :
    \/ ttl'[p][a] = ttl[p][a]
    \/ /\ ttl'[p][a] # ConnectedAddrTTL
       /\ a \in RelayAddrs /\ ttl'[p][a] > RelayAddrTTL => ttl[p][a] > RelayAddrTTL

\* Lowering is all that happens to the addresses while covers last.
LEMMA CoversLast ==
  ASSUME Covers, Lowers, handler' = handler, handler.pc # "idle" => Handled' = Handled,
         \A p \in Peers : Covered(p) => Covered(p)',
         handler.pc # "idle" => Handled.peer \in Peers
  PROVE  Covers'
<1> USE DEF Covers
<1>1. ReadCovered'
  BY DEF ReadCovered
<1>2. PermanentCovered'
  BY DEF PermanentCovered, Lowers
<1>3. RelayCovered'
  <2>1. SUFFICES ASSUME NEW p \in Peers, NEW a \in RelayAddrs, ttl'[p][a] > RelayAddrTTL
                 PROVE  Covered(p)' \/ AboutToCap(p, a)'
    BY DEF RelayCovered
  <2>2. ttl[p][a] > RelayAddrTTL
    BY <2>1, Durations DEF Lowers
  <2>3. CASE Covered(p)
    BY <2>3
  <2>4. CASE AboutToCap(p, a)
    BY <2>4 DEF AboutToCap
  <2>5. QED
    BY <2>2, <2>3, <2>4 DEF RelayCovered
<1>4. QED
  BY <1>1, <1>2, <1>3

LEMMA HandledPeer ==
  ASSUME Control
  PROVE  /\ handler.pc # "idle" => events # << >>
         /\ events # << >> =>
              /\ Handled \in Event /\ Handled.peer \in Peers /\ Handled.addrs \in SUBSET Addrs
              /\ Handled.kind \in {"identified", "disconnected"}
<1>1. handler.pc # "idle" => events # << >>
  BY DEF Control, Types, Handling, Handler, HandlerPC, Demoting
<1>2. ASSUME events # << >> PROVE Handled \in Event
  BY <1>2 DEF Control, Types, Handled
<1>3. QED
  BY <1>1, <1>2 DEF Event

\* A step that leaves the subscription and the handler alone and disconnects
\* nobody.
LEMMA CoversUndisturbed ==
  ASSUME Control, Covers, Lowers, UNCHANGED <<events, handler>>,
         \A p \in Peers : conn[p] # "none" => conn'[p] # "none"
  PROVE  Covers'
<1>1. \A p \in Peers : Covered(p) => Covered(p)'
  BY DEF Covered, DemotionDue, Demoting
<1>2. QED
  BY <1>1, CoversLast, HandledPeer DEF Handled

\* An event that joins the subscription takes away no demotion that is due.
LEMMA CoversEmit ==
  ASSUME Control, NEW kind \in {"identified", "disconnected"}, NEW p \in Peers,
         NEW signed \in BOOLEAN, NEW S \in SUBSET Addrs, Emit(kind, p, signed, S),
         handler' = handler
  PROVE  /\ \A q \in Peers : DemotionDue(q) => DemotionDue(q)'
         /\ kind = "disconnected" => DemotionDue(p)'
         /\ handler.pc # "idle" => Handled' = Handled
<1>1. /\ DOMAIN events' = DOMAIN events \cup {Len(events) + 1}
      /\ \A i \in DOMAIN events : events'[i] = events[i]
      /\ events'[Len(events) + 1] =
           [kind |-> kind, peer |-> p, signed |-> signed, addrs |-> S]
      /\ events # << >> => events' # << >> /\ Head(events') = Head(events)
  <2>1. Types
    BY DEF Control
  <2>2. QED
    BY <2>1, EmitTypes, Zenon
<1>2. \A q \in Peers : DemotionDue(q) => DemotionDue(q)'
  BY <1>1 DEF DemotionDue, Demoting
<1>3. ASSUME kind = "disconnected" PROVE DemotionDue(p)'
  <2>1. events'[Len(events) + 1].kind = "disconnected" /\ events'[Len(events) + 1].peer = p
    BY <1>1, <1>3
  <2>2. Len(events) + 1 = 1 => ~Demoting'
    BY DEF Control, Types, Handling, Demoting
  <2>3. QED
    BY <1>1, <2>1, <2>2 DEF DemotionDue
<1>4. QED
  BY <1>1, <1>2, <1>3, HandledPeer DEF Handled

LEMMA CoversNetwork ==
  ASSUME Control, Covers, NEW p \in Peers, Network(p)
  PROVE  Covers'
<1>1. CASE \/ \E via \in Addrs \cup {"inbound"} : Connect(p, via)
           \/ IdentifyFails(p) \/ Depart(p) \/ LRUEvicts(p)
  <2>1. /\ UNCHANGED <<events, handler, ttl>>
        /\ \A q \in Peers : conn[q] # "none" => conn'[q] # "none"
    BY <1>1 DEF Connect, IdentifyFails, Depart, LRUEvicts, Control, Types
  <2>2. QED
    BY <2>1, CoversUndisturbed DEF Lowers
<1>2. ASSUME NEW S \in SUBSET Addrs, CacheAddrs(p, S) PROVE Covers'
  <2>1. UNCHANGED <<events, handler, conn>>
    BY <1>2 DEF CacheAddrs
  <2>2. ASSUME NEW q \in Peers, NEW a \in Addrs
        PROVE  \/ ttl'[q][a] = ttl[q][a]
               \/ a \in RelayAddrs /\ ttl'[q][a] = RelayAddrTTL
               \/ a \notin RelayAddrs /\ ttl'[q][a] = RecentlyConnectedTTL
    <3>1. CASE q # p
      BY <1>2, <3>1 DEF CacheAddrs, Control, Types
    <3>2. CASE q = p
      BY <1>2, <3>2 DEF CacheAddrs, Control, Types
    <3>3. QED
      BY <3>1, <3>2
  <2>3. Lowers
    BY <2>2, Durations DEF Lowers
  <2>4. QED
    BY <2>1, <2>3, CoversUndisturbed
<1>3. CASE IdentifyCompletes(p)
  <2>1. PICK signed \in BOOLEAN, S \in SUBSET Addrs : Emit("identified", p, signed, S)
    BY <1>3 DEF IdentifyCompletes
  <2>2. UNCHANGED <<conn, handler, ttl>>
    BY <1>3 DEF IdentifyCompletes
  <2>3. /\ \A q \in Peers : Covered(q) => Covered(q)'
        /\ handler.pc # "idle" => Handled' = Handled
    BY <2>1, <2>2, CoversEmit DEF Covered
  <2>4. QED
    BY <2>2, <2>3, CoversLast, HandledPeer DEF Lowers
<1>4. CASE Disconnect(p)
  <2>1. PICK signed \in BOOLEAN, S \in SUBSET Addrs : Emit("disconnected", p, signed, S)
    BY <1>4, Zenon DEF Disconnect
  <2>2. /\ UNCHANGED <<handler, ttl>>
        /\ \A q \in Peers \ {p} : conn'[q] = conn[q]
    BY <1>4 DEF Disconnect, Control, Types
  <2>3. /\ \A q \in Peers : Covered(q) => Covered(q)'
        /\ handler.pc # "idle" => Handled' = Handled
    BY <2>1, <2>2, CoversEmit DEF Covered
  <2>4. QED
    BY <2>2, <2>3, CoversLast, HandledPeer DEF Lowers
<1>5. QED
  BY <1>1, <1>2, <1>3, <1>4 DEF Network

LEMMA CoversProbing ==
  ASSUME Control, Covers, Probing
  PROVE  Covers'
<1>1. UNCHANGED <<events, handler, conn, ttl>>
  BY DEF Probing, ProbeStarts, ProbeEnds, ProbeVisits, ProbeDials, OnlyProbe
<1>2. QED
  BY <1>1, CoversUndisturbed DEF Lowers

LEMMA CoversAttempt ==
  ASSUME Control, Covers, NEW c \in Callers, Attempt(c) \/ \E p \in Peers : LookupStarts(c, p)
  PROVE  Covers'
<1>1. UNCHANGED <<events, handler>>
  BY DEF Attempt, LookupStarts, Succeeds, FailurePeeks, FailureAdds, FailureRemoves,
         FailureClears, OnlyProbe
<1>2. \A p \in Peers : conn[p] # "none" => conn'[p] # "none"
  <2>1. CASE Succeeds(c)
    <3>1. conn' = conn \/ \E a \in Addrs : conn' = [conn EXCEPT ![caller[c].peer] = a]
      BY <2>1 DEF Succeeds
    <3>2. QED
      BY <3>1, ConstantsAssumption DEF Control, Types
  <2>2. CASE ~Succeeds(c)
    BY <2>2 DEF Attempt, LookupStarts, FailurePeeks, FailureAdds, FailureRemoves,
                FailureClears, OnlyProbe
  <2>3. QED
    BY <2>1, <2>2
<1>3. Lowers
  <2>1. CASE FailureClears(c)
    <3>1. ttl' = [ttl EXCEPT ![caller[c].peer] = [a \in Addrs |-> 0]]
      BY <2>1 DEF FailureClears, ClearAddrs
    <3>2. \A p \in Peers, a \in Addrs : ttl'[p][a] = ttl[p][a] \/ ttl'[p][a] = 0
      BY <3>1 DEF Control, Types
    <3>3. QED
      BY <3>2, Durations DEF Lowers
  <2>2. CASE ~FailureClears(c)
    <3>1. ttl' = ttl
      BY <2>2 DEF Attempt, LookupStarts, Succeeds, FailurePeeks, FailureAdds,
                  FailureRemoves, OnlyProbe
    <3>2. QED
      BY <3>1 DEF Lowers
  <2>3. QED
    BY <2>1, <2>2
<1>4. QED
  BY <1>1, <1>2, <1>3, CoversUndisturbed

LEMMA CoversTick ==
  ASSUME Control, Covers, Tick
  PROVE  Covers'
<1>1. UNCHANGED <<events, handler, conn>>
  BY DEF Tick
<1>2. \A p \in Peers, a \in Addrs :
        ttl'[p][a] = ttl[p][a] \/ (ttl'[p][a] = ttl[p][a] - 1 /\ ttl[p][a] # 0)
  BY DEF Tick
<1>3. \A p \in Peers, a \in Addrs : ttl[p][a] \in 0 .. ConnectedAddrTTL
  BY DEF Control, Types
<1>4. Lowers
  BY <1>2, <1>3, Durations DEF Lowers
<1>5. QED
  BY <1>1, <1>4, CoversUndisturbed

-----------------------------------------------------------------------------
\* When the handler is done with its event, the others move up.
LEMMA CoversDone ==
  ASSUME Control, NEW from \in {"clear", "live", "capOnly"}, HandlerDone(from)
  PROVE  \A q \in Peers : Covered(q) => Covered(q)'
<1>1. /\ events # << >> /\ events' = Tail(events) /\ conn' = conn
      /\ handler' = IdleHandler /\ handler.pc = from
  BY HandledPeer DEF HandlerDone
<1>2. /\ events \in Seq(Event) /\ Len(events) \in Nat \ {0} /\ DOMAIN events = 1 .. Len(events)
      /\ DOMAIN events' = 1 .. Len(events) - 1
      /\ \A i \in DOMAIN events' : events'[i] = events[i + 1]
      /\ Handled = events[1]
  BY <1>1 DEF Control, Types, Handled
<1>3. ASSUME NEW q \in Peers, DemotionDue(q) PROVE DemotionDue(q)'
  <2>1. PICK i \in DOMAIN events :
          /\ events[i].kind = "disconnected" /\ events[i].peer = q
          /\ i = 1 => ~Demoting
    BY <1>3 DEF DemotionDue
  <2>2. i # 1
    BY <1>1, <1>2, <2>1 DEF Control, Handling, Demoting
  <2>3. i - 1 \in DOMAIN events' /\ events'[i - 1] = events[i]
    BY <1>2, <2>2
  <2>4. ~Demoting'
    BY <1>1 DEF IdleHandler, Demoting
  <2>5. QED
    BY <2>1, <2>3, <2>4 DEF DemotionDue
<1>4. QED
  BY <1>1, <1>3 DEF Covered

\* What the calls of the address book store, address by address.
LEMMA Stored ==
  ASSUME Types, NEW h \in Peers
  PROVE  /\ \A S \in SUBSET Addrs, t \in Nat : AddAddrs(h, S, t) =>
              \A p \in Peers, a \in Addrs :
                ttl'[p][a] = IF p = h /\ a \in S /\ ttl[p][a] < t THEN t ELSE ttl[p][a]
         /\ ClearAddrs(h) =>
              \A p \in Peers, a \in Addrs :
                ttl'[p][a] = IF p = h THEN 0 ELSE ttl[p][a]
         /\ \A old, new \in Nat : UpdateAddrs(h, old, new) =>
              \A p \in Peers, a \in Addrs :
                ttl'[p][a] = IF p = h /\ ttl[p][a] = old THEN new ELSE ttl[p][a]
         /\ \A S \in SUBSET Addrs, t \in Nat : SetAddrs(h, S, t) =>
              \A p \in Peers, a \in Addrs :
                ttl'[p][a] = IF p = h /\ a \in S THEN t ELSE ttl[p][a]
<1>1. ttl \in [Peers -> [Addrs -> 0 .. ConnectedAddrTTL]]
  BY DEF Types
<1>2. ASSUME NEW S \in SUBSET Addrs, NEW t \in Nat, AddAddrs(h, S, t),
             NEW p \in Peers, NEW a \in Addrs
      PROVE  ttl'[p][a] = IF p = h /\ a \in S /\ ttl[p][a] < t THEN t ELSE ttl[p][a]
  BY <1>1, <1>2 DEF AddAddrs
<1>3. ASSUME ClearAddrs(h), NEW p \in Peers, NEW a \in Addrs
      PROVE  ttl'[p][a] = IF p = h THEN 0 ELSE ttl[p][a]
  BY <1>1, <1>3 DEF ClearAddrs
<1>4. ASSUME NEW old \in Nat, NEW new \in Nat, UpdateAddrs(h, old, new),
             NEW p \in Peers, NEW a \in Addrs
      PROVE  ttl'[p][a] = IF p = h /\ ttl[p][a] = old THEN new ELSE ttl[p][a]
  BY <1>1, <1>4 DEF UpdateAddrs
<1>5. ASSUME NEW S \in SUBSET Addrs, NEW t \in Nat, SetAddrs(h, S, t),
             NEW p \in Peers, NEW a \in Addrs
      PROVE  ttl'[p][a] = IF p = h /\ a \in S THEN t ELSE ttl[p][a]
  BY <1>1, <1>5 DEF SetAddrs
<1>6. QED
  BY <1>2, <1>3, <1>4, <1>5

\* Inside an event, but for the step that demotes, covers stay.
LEMMA CoversInside ==
  ASSUME UNCHANGED <<conn, events>>, Demoting' => Demoting
  PROVE  Handled' = Handled /\ \A p \in Peers : Covered(p) => Covered(p)'
BY DEF Handled, Covered, DemotionDue

\* A connection that comes to be read covers its peer.
LEMMA CoversReading ==
  ASSUME Control, Covers, IdentifiedResets \/ IdentifiedReadsTTL \/ IdentifiedReadsConns
  PROVE  Covers'
<1>1. UNCHANGED <<conn, events, ttl>> /\ handler.pc \in {"idle", "ttl", "conns"}
  BY DEF IdentifiedResets, IdentifiedReadsTTL, IdentifiedReadsConns, Handles
<1>2. handler'.pc \in {"ttl", "conns", "clear"}
  BY DEF IdentifiedResets, IdentifiedReadsTTL, IdentifiedReadsConns, Handles, Control, Types, Handler, HandlerPC
<1>3. /\ Handled' = Handled /\ Handled.peer \in Peers
      /\ \A p \in Peers : Covered(p) => Covered(p)'
  BY <1>1, <1>2, CoversInside, HandledPeer
     DEF Demoting, IdentifiedResets, IdentifiedReadsTTL, IdentifiedReadsConns
<1>4. PermanentCovered' /\ RelayCovered'
  BY <1>1, <1>3 DEF Covers, PermanentCovered, RelayCovered, AboutToCap
<1>5. ReadCovered'
  <2>1. CASE IdentifiedResets
    BY <2>1 DEF IdentifiedResets, Handles, ReadCovered, Control, Types
  <2>2. CASE IdentifiedReadsTTL
    <3>1. handler'.pc = "conns" /\ (handler'.ttl = ConnectedAddrTTL => conn[Handled.peer] # "none")
      BY <2>2, Durations DEF IdentifiedReadsTTL, Control, Types
    <3>2. QED
      BY <1>1, <1>3, <3>1 DEF ReadCovered, Covered
  <2>3. CASE IdentifiedReadsConns
    <3>1. /\ handler.pc = "conns" /\ handler'.ttl = handler.ttl
          /\ handler'.conns = {conn[Handled.peer]} \cap Addrs
      BY <2>3 DEF IdentifiedReadsConns, Control, Types
    <3>2. handler'.conns # {} => conn[Handled.peer] # "none"
      BY <3>1, ConstantsAssumption
    <3>3. QED
      BY <1>1, <1>3, <3>1, <3>2 DEF ReadCovered, Covered, Covers
  <2>4. QED
    BY <2>1, <2>2, <2>3
<1>6. QED
  BY <1>4, <1>5 DEF Covers

\* replacePeerAddrs adds what was read, and then caps the relay addresses.
LEMMA CoversReplacing ==
  ASSUME Control, Covers, ReplaceClears \/ ReplaceAdds \/ ReplaceCaps
  PROVE  Covers'
<1>1. /\ UNCHANGED <<conn, events>> /\ handler.pc \in {"clear", "add", "cap"}
      /\ \E to \in {"add", "relays", "live"} : handler' = [handler EXCEPT !.pc = to]
  BY DEF ReplaceClears, ReplaceAdds, ReplaceCaps, Handles
<1>2. /\ handler'.pc \in {"add", "relays", "live"}
      /\ handler'.ttl = handler.ttl /\ handler'.conns = handler.conns
  BY <1>1 DEF Control, Types, Handler
<1> DEFINE h == Handled.peer
<1>3. /\ Handled' = Handled /\ h \in Peers /\ Handled.addrs \in SUBSET Addrs
      /\ \A p \in Peers : Covered(p) => Covered(p)'
  BY <1>1, <1>2, CoversInside, HandledPeer DEF Demoting
<1>4. Types /\ handler.ttl \in Nat /\ \A p \in Peers, a \in Addrs : ttl[p][a] \in Nat
  BY Durations DEF Control, Types, Handler, HandlerPC
<1>5. CASE ReplaceClears
  <2>1. ClearAddrs(h) /\ handler.pc = "clear" /\ handler'.pc = "add"
    BY <1>5 DEF ReplaceClears, Handles, Control, Types
  <2>2. \A p \in Peers, a \in Addrs : ttl'[p][a] = IF p = h THEN 0 ELSE ttl[p][a]
    BY <1>3, <1>4, <2>1, Stored
  <2>3. ReadCovered'
    BY <1>2, <1>3, <2>1 DEF ReadCovered, Covers
  <2>4. PermanentCovered'
    BY <1>3, <1>4, <2>2, Durations DEF PermanentCovered, Covers
  <2>5. RelayCovered'
    BY <1>3, <1>4, <2>1, <2>2, Durations DEF RelayCovered, Covers, AboutToCap
  <2>6. QED
    BY <2>3, <2>4, <2>5 DEF Covers
<1>6. CASE ReplaceAdds
  <2>1. AddAddrs(h, Handled.addrs, handler.ttl) /\ handler.pc = "add" /\ handler'.pc = "relays"
    BY <1>6 DEF ReplaceAdds, Handles, Control, Types
  <2>2. \A p \in Peers, a \in Addrs :
          \/ ttl'[p][a] = ttl[p][a]
          \/ p = h /\ ttl'[p][a] = handler.ttl
    <3>1. \A S \in SUBSET Addrs, t \in Nat : AddAddrs(h, S, t) =>
            \A p \in Peers, a \in Addrs :
              ttl'[p][a] = IF p = h /\ a \in S /\ ttl[p][a] < t THEN t ELSE ttl[p][a]
      BY <1>3, <1>4, Stored
    <3>2. \A p \in Peers, a \in Addrs :
            ttl'[p][a] = IF p = h /\ a \in Handled.addrs /\ ttl[p][a] < handler.ttl
                         THEN handler.ttl ELSE ttl[p][a]
      BY <1>3, <1>4, <2>1, <3>1
    <3>3. QED
      BY <3>2
  <2>3. ReadCovered'
    BY <1>2, <1>3, <2>1 DEF ReadCovered, Covers
  <2>4. handler.ttl = ConnectedAddrTTL => Covered(h)
    BY <2>1 DEF ReadCovered, Covers
  <2>5. PermanentCovered'
    <3>1. ASSUME NEW p \in Peers, NEW a \in Addrs, ttl'[p][a] = ConnectedAddrTTL
          PROVE  Covered(p)
      BY <2>2, <2>4, <3>1 DEF PermanentCovered, Covers
    <3>2. QED
      BY <1>3, <3>1 DEF PermanentCovered, ConnectedAddrTTL
  <2>6. RelayCovered'
    <3>1. ASSUME NEW p \in Peers, NEW a \in RelayAddrs, ttl'[p][a] > RelayAddrTTL, p # h
          PROVE  Covered(p)
      BY <2>1, <2>2, <3>1, Durations DEF RelayCovered, Covers, AboutToCap
    <3>2. \A p \in Peers, a \in RelayAddrs : p = h => AboutToCap(p, a)'
      BY <1>3, <2>1 DEF AboutToCap
    <3>3. QED
      BY <1>3, <3>1, <3>2 DEF RelayCovered
  <2>7. QED
    BY <2>3, <2>5, <2>6 DEF Covers
<1>7. CASE ReplaceCaps
  <2>1. CapRelayAddrTTL /\ handler.pc = "cap" /\ handler'.pc = "live"
    BY <1>7 DEF ReplaceCaps, Handles, Control, Types, Handler
  <2>2. \A p \in Peers, a \in Addrs :
          ttl'[p][a] = IF p = h /\ a \in handler.relays THEN RelayAddrTTL ELSE ttl[p][a]
    <3>1. \A S \in SUBSET Addrs, t \in Nat : SetAddrs(h, S, t) =>
            \A p \in Peers, a \in Addrs :
              ttl'[p][a] = IF p = h /\ a \in S THEN t ELSE ttl[p][a]
      BY <1>3, <1>4, Stored
    <3>2. handler.relays \in SUBSET Addrs /\ RelayAddrTTL \in Nat
      BY <1>3, <1>4, Durations DEF Types, Handler
    <3>3. SetAddrs(h, handler.relays, RelayAddrTTL)
      BY <2>1 DEF CapRelayAddrTTL
    <3>4. QED
      BY <3>1, <3>2, <3>3
  <2>3. ReadCovered'
    BY <1>2, <1>3, <2>1 DEF ReadCovered, Covers
  <2>4. PermanentCovered'
    BY <1>3, <1>4, <2>2, Durations DEF PermanentCovered, Covers
  <2>5. RelayCovered'
    <3>1. ASSUME NEW p \in Peers, NEW a \in RelayAddrs, ttl'[p][a] > RelayAddrTTL
          PROVE  Covered(p)
      <4>1. (p # h \/ a \notin handler.relays) /\ ttl[p][a] > RelayAddrTTL
        BY <1>4, <2>2, <3>1, Durations
      <4>2. QED
        BY <2>1, <4>1 DEF RelayCovered, Covers, AboutToCap
    <3>2. QED
      BY <1>3, <3>1 DEF RelayCovered
  <2>6. QED
    BY <2>3, <2>4, <2>5 DEF Covers
<1>8. QED
  BY <1>5, <1>6, <1>7

\* What is read to be capped is every relay address that is beyond its cap.
LEMMA CoversReadsRelays ==
  ASSUME Control, Covers, ReplaceReadsRelays \/ DisconnectedReadsRelays
  PROVE  Covers'
<1> DEFINE h == Handled.peer
<1>1. /\ UNCHANGED <<conn, events, ttl>> /\ handler.pc \in {"relays", "relaysOnly"}
      /\ handler.pc = "relays" => handler'.pc = "cap"
      /\ handler.pc = "relaysOnly" => handler'.pc = "capOnly"
      /\ handler'.conns = handler.conns
      /\ handler'.relays = {a \in RelayAddrs : ttl[h][a] > 0}
  BY DEF ReplaceReadsRelays, DisconnectedReadsRelays, ReadsRelays, Control, Types, Handler
<1>2. /\ Handled' = Handled /\ h \in Peers
      /\ \A p \in Peers : Covered(p) => Covered(p)'
  BY <1>1, CoversInside, HandledPeer DEF Demoting
<1>3. ReadCovered'
  BY <1>1, <1>2 DEF ReadCovered, Covers
<1>4. PermanentCovered'
  BY <1>1, <1>2 DEF PermanentCovered, Covers, ConnectedAddrTTL
<1>5. RelayCovered'
  <2>1. ASSUME NEW a \in RelayAddrs, ttl[h][a] > RelayAddrTTL
        PROVE  AboutToCap(h, a)'
    <3>1. ttl[h][a] > 0
      BY <1>2, <2>1, Durations DEF Control, Types
    <3>2. QED
      BY <1>1, <1>2, <3>1 DEF AboutToCap
  <2>2. ASSUME NEW p \in Peers, NEW a \in RelayAddrs, ttl[p][a] > RelayAddrTTL, p # h
        PROVE  Covered(p)'
    BY <1>2, <2>2 DEF RelayCovered, Covers, AboutToCap
  <2>3. QED
    BY <1>1, <1>2, <2>1, <2>2 DEF RelayCovered
<1>6. QED
  BY <1>3, <1>4, <1>5 DEF Covers

\* The last call keeps the addresses of the connections that were read.
LEMMA CoversKeeping ==
  ASSUME Control, Covers, ReplacesNothing \/ ReplaceKeepsLive
  PROVE  Covers'
<1>1. handler.pc \in {"clear", "live"} /\ handler'.pc = "idle"
  BY DEF ReplacesNothing, ReplaceKeepsLive, HandlerDone, IdleHandler
<1>2. \A p \in Peers : Covered(p) => Covered(p)'
  BY CoversDone DEF ReplacesNothing, ReplaceKeepsLive
<1>3. ReadCovered'
  BY <1>1 DEF ReadCovered
<1> DEFINE h == Handled.peer
<1>4. ASSUME NEW p \in Peers, NEW a \in Addrs
      PROVE  ttl'[p][a] = ttl[p][a] \/ Covered(p)
  <2>1. CASE ReplacesNothing
    BY <2>1 DEF ReplacesNothing
  <2>2. CASE ReplaceKeepsLive
    <3>1. /\ AddAddrs(h, handler.conns, ConnectedAddrTTL) /\ handler.pc = "live"
          /\ handler.conns \in SUBSET Addrs /\ h \in Peers /\ Types
      BY <2>2, HandledPeer DEF ReplaceKeepsLive, HandlerDone, Control, Types, Handler, HandlerPC
    <3>2. \A S \in SUBSET Addrs, t \in Nat : AddAddrs(h, S, t) =>
            \A q \in Peers, b \in Addrs :
              ttl'[q][b] = IF q = h /\ b \in S /\ ttl[q][b] < t THEN t ELSE ttl[q][b]
      BY <3>1, Stored
    <3>3. ConnectedAddrTTL \in Nat
      BY Durations
    <3> HIDE DEF h
    <3>4. ttl'[p][a] = IF p = h /\ a \in handler.conns /\ ttl[p][a] < ConnectedAddrTTL
                       THEN ConnectedAddrTTL ELSE ttl[p][a]
      BY <3>1, <3>2, <3>3
    <3>5. ttl'[p][a] = ttl[p][a] \/ (p = h /\ handler.conns # {})
      BY <3>4
    <3>6. handler.conns # {} => Covered(h)
      BY <3>1 DEF ReadCovered, Covers, h
    <3>7. QED
      BY <3>5, <3>6
  <2>3. QED
    BY <2>1, <2>2
<1>5. PermanentCovered'
  BY <1>2, <1>4 DEF PermanentCovered, Covers, ConnectedAddrTTL
<1>6. RelayCovered'
  BY <1>1, <1>2, <1>4, Durations DEF RelayCovered, Covers, AboutToCap
<1>7. QED
  BY <1>3, <1>5, <1>6 DEF Covers

\* A disconnect demotes the permanent addresses of its peer and caps the relay
\* addresses, in this order.
LEMMA CoversDisconnected ==
  ASSUME Control, Covers, DisconnectedDemotes \/ DisconnectedCaps
  PROVE  Covers'
<1> DEFINE h == Handled.peer
<1>1. events # << >> /\ Handled.kind = "disconnected" /\ h \in Peers /\ Types
  BY HandledPeer DEF DisconnectedDemotes, DisconnectedCaps, HandlerDone, Control, Handling, Demoting
<1>2. \A p \in Peers, a \in Addrs : ttl[p][a] \in Nat
  BY <1>1, Durations DEF Types
<1>3. CASE DisconnectedDemotes
  <2>1. /\ UpdateAddrs(h, ConnectedAddrTTL, RecentlyConnectedTTL) /\ UNCHANGED <<conn, events>>
        /\ handler.pc = "idle" /\ handler'.pc = "relaysOnly" /\ Handled' = Handled
    BY <1>3 DEF DisconnectedDemotes, Handles, Handled, Control, Types
  <2>2. \A p \in Peers, a \in Addrs :
          ttl'[p][a] = IF p = h /\ ttl[p][a] = ConnectedAddrTTL
                       THEN RecentlyConnectedTTL ELSE ttl[p][a]
    BY <1>1, <2>1, Stored, Durations
  <2>3. ASSUME NEW p \in Peers, Covered(p), p # h PROVE Covered(p)'
    <3>1. Handled = events[1]
      BY <1>1 DEF Handled, Types
    <3>2. QED
      BY <2>1, <2>3, <3>1 DEF Covered, DemotionDue
  <2>4. ReadCovered'
    BY <2>1 DEF ReadCovered
  <2>5. PermanentCovered'
    <3>1. ASSUME NEW p \in Peers, NEW a \in Addrs, ttl'[p][a] = ConnectedAddrTTL
          PROVE  p # h /\ Covered(p)
      BY <2>2, <3>1, Durations DEF PermanentCovered, Covers
    <3>2. QED
      BY <2>3, <3>1 DEF PermanentCovered, ConnectedAddrTTL
  <2>6. RelayCovered'
    <3>1. ASSUME NEW p \in Peers, NEW a \in RelayAddrs, ttl'[p][a] > RelayAddrTTL, p # h
          PROVE  Covered(p)
      BY <2>1, <2>2, <3>1, Durations DEF RelayCovered, Covers, AboutToCap
    <3>2. \A p \in Peers, a \in RelayAddrs : p = h => AboutToCap(p, a)'
      BY <2>1 DEF AboutToCap
    <3>3. QED
      BY <2>3, <3>1, <3>2 DEF RelayCovered
  <2>7. QED
    BY <2>4, <2>5, <2>6 DEF Covers
<1>4. CASE DisconnectedCaps
  <2>1. CapRelayAddrTTL /\ HandlerDone("capOnly") /\ handler.pc = "capOnly" /\ handler'.pc = "idle"
    BY <1>4 DEF DisconnectedCaps, HandlerDone, IdleHandler
  <2>2. \A p \in Peers, a \in Addrs :
          ttl'[p][a] = IF p = h /\ a \in handler.relays THEN RelayAddrTTL ELSE ttl[p][a]
    <3>1. \A S \in SUBSET Addrs, t \in Nat : SetAddrs(h, S, t) =>
            \A p \in Peers, a \in Addrs :
              ttl'[p][a] = IF p = h /\ a \in S THEN t ELSE ttl[p][a]
      BY <1>1, Stored
    <3>2. handler.relays \in SUBSET Addrs /\ RelayAddrTTL \in Nat
      BY <1>1, Durations DEF Types, Handler
    <3>3. SetAddrs(h, handler.relays, RelayAddrTTL)
      BY <2>1 DEF CapRelayAddrTTL
    <3>4. QED
      BY <3>1, <3>2, <3>3
  <2>3. \A p \in Peers : Covered(p) => Covered(p)'
    BY <2>1, CoversDone
  <2>4. ReadCovered'
    BY <2>1 DEF ReadCovered
  <2>5. PermanentCovered'
    BY <2>2, <2>3, Durations DEF PermanentCovered, Covers, ConnectedAddrTTL
  <2>6. RelayCovered'
    <3>1. ASSUME NEW p \in Peers, NEW a \in RelayAddrs, ttl'[p][a] > RelayAddrTTL
          PROVE  Covered(p)
      <4>1. (p # h \/ a \notin handler.relays) /\ ttl[p][a] > RelayAddrTTL
        BY <1>2, <2>2, <3>1, Durations
      <4>2. QED
        BY <2>1, <4>1 DEF RelayCovered, Covers, AboutToCap
    <3>2. QED
      BY <2>3, <3>1 DEF RelayCovered
  <2>7. QED
    BY <2>4, <2>5, <2>6 DEF Covers
<1>5. QED
  BY <1>3, <1>4

LEMMA CoversStep == Control /\ Covers /\ [Next]_vars => Covers'
<1>1. ASSUME Covers, UNCHANGED vars PROVE Covers'
  BY <1>1 DEF vars, Covers, ReadCovered, PermanentCovered, RelayCovered, Covered,
              DemotionDue, AboutToCap, Handled, ConnectedAddrTTL, Demoting
<1>2. ASSUME Control, Covers, Background PROVE Covers'
  BY <1>2, CoversReading, CoversReplacing, CoversReadsRelays, CoversKeeping,
          CoversDisconnected DEF Background
<1>3. QED
  BY <1>1, <1>2, CoversNetwork, CoversProbing, CoversAttempt, CoversTick DEF Next

-----------------------------------------------------------------------------
\* The inductive invariant holds throughout.
THEOREM Inductive == Spec => []IInv
<1>1. Init => IInv
  <2> SUFFICES ASSUME Init PROVE IInv
    OBVIOUS
  <2>1. /\ \A p \in Peers, a \in Addrs : ttl[p][a] = 0
        /\ handler.pc = "idle" /\ probe.next = {} /\ \A c \in Callers : caller[c].pc = "idle"
    BY DEF Init, IdleHandler, NoProbe, Idle
  <2>2. Types
    <3>1. IdleHandler \in Handler
      BY Durations DEF IdleHandler, Handler, HandlerPC
    <3>2. Idle \in [pc : {"idle", "trying", "peeked", "removed"},
                    peer : Peers \cup {"none"}, seen : PeerState]
      BY Durations DEF Idle
    <3>3. NoProbe \in [isProbing : BOOLEAN, todo : SUBSET Peers, next : SUBSET Peers]
      BY DEF NoProbe
    <3>4. events \in Seq(Event) /\ Len(events) <= MaxEvents
      BY ConstantsAssumption DEF Init
    <3>5. QED
      BY <3>1, <3>2, <3>3, <3>4, Durations DEF Init, Types
  <2>3. Attempted /\ Handling
    BY <2>1 DEF Attempted, Handling, Demoting
  <2>4. Covers
    BY <2>1, Durations DEF Covers, ReadCovered, PermanentCovered, RelayCovered
  <2>5. QED
    BY <2>2, <2>3, <2>4 DEF IInv, Control
<1>2. IInv /\ [Next]_vars => IInv'
  BY ControlStep, CoversStep DEF IInv
<1>3. QED
  BY <1>1, <1>2, PTL DEF Spec

\* Every variable keeps its type.  In particular a lifetime never exceeds the
\* permanent one, the handler stores none but dialable addresses, and one peer
\* at most waits for the semaphore of probePeers.
THEOREM TypeCorrect == Spec => []TypeOK
<1>1. IInv => TypeOK
  <2> SUFFICES ASSUME IInv PROVE TypeOK
    OBVIOUS
  <2>1. Types /\ \A p, q \in probe.next : p = q
    BY DEF IInv, Control, Attempted
  <2>2. Cardinality(probe.next) <= 1
    <3>1. CASE probe.next = {}
      BY <3>1, FS_EmptySet
    <3>2. CASE probe.next # {}
      <4>1. PICK p : probe.next = {p}
        BY <2>1, <3>2
      <4>2. Cardinality({p}) = 1
        BY FS_Singleton
      <4>3. QED
        BY <4>1, <4>2
    <3>3. QED
      BY <3>1, <3>2
  <2>3. QED
    BY <2>1, <2>2 DEF Types, TypeOK, Handler, HandlerPC
<1>2. QED
  BY <1>1, Inductive, PTL

\* background handles events late and one at a time, reads the connection of a
\* peer several times while it handles one, and the peer may come and go all
\* the while.  Yet once the events of a disconnected peer are handled, none of
\* its addresses is left without expiry.
THEOREM DemotedCorrect == Spec => []Demoted
<1>1. IInv => Demoted
  <2> SUFFICES ASSUME IInv, NEW p \in Peers, conn[p] = "none", Quiet(p), NEW a \in Addrs
               PROVE  ttl[p][a] # ConnectedAddrTTL
    BY DEF Demoted
  <2>1. ~Covered(p)
    BY DEF Covered, DemotionDue, Quiet
  <2>2. QED
    BY <2>1 DEF IInv, Covers, PermanentCovered
<1>2. QED
  BY <1>1, Inductive, PTL

\* A relay address of a disconnected peer whose events are handled lives for
\* RelayAddrTTL at most: not the addresses of a provider record, nor those of an
\* identify that completes after the disconnect, get past the cap.
THEOREM RelayCappedCorrect == Spec => []RelayCapped
<1>1. IInv => RelayCapped
  <2> SUFFICES ASSUME IInv, NEW p \in Peers, conn[p] = "none", Quiet(p), NEW a \in RelayAddrs
               PROVE  ttl[p][a] <= RelayAddrTTL
    BY DEF RelayCapped
  <2>1. ~Covered(p)
    BY DEF Covered, DemotionDue, Quiet
  <2>2. ~AboutToCap(p, a)
    <3>1. ASSUME events # << >> PROVE Handled.peer # p
      BY <3>1 DEF Quiet, Handled, IInv, Control, Types
    <3>2. QED
      BY <3>1, HandledPeer DEF AboutToCap, IInv
  <2>3. ttl[p][a] \in Nat
    BY Durations DEF IInv, Control, Types
  <2>4. QED
    BY <2>1, <2>2, <2>3, Durations DEF IInv, Covers, RelayCovered
<1>2. QED
  BY <1>1, Inductive, PTL
=============================================================================
